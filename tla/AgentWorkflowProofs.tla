------------------------ MODULE AgentWorkflowProofs ------------------------
(* Proofs about the chat workflow and its stores, for any number of        *)
(* requests and messages, whatever the messages ask for, in both modes.    *)
EXTENDS AgentWorkflowProps, TLAPS

USE StoreAssumption, WorkflowAssumption

-----------------------------------------------------------------------------
(* What the store's own steps and the calls of it preserve.                *)

LEMMA StoreInit == MemoryInit => StoreInv
<1> SUFFICES ASSUME MemoryInit PROVE StoreInv
  OBVIOUS
<1> USE DEF MemoryInit, NoRecord, Record, Kept, NoCall, Memory
<1> DEFINE Stored(k) == {[text |-> WordsOf(k[2]), active |-> TRUE],
                         [text |-> WordsOf(k[2]), active |-> FALSE]}
<1>1. \A k \in Memory : rows[k] = NoRecord \/ (k \in Earlier /\ rows[k] \in Stored(k))
  <2>0. PICK stored \in SUBSET Earlier : \E active \in SUBSET stored :
          rows = [k \in Memory |-> IF k \in stored
                                     THEN [text |-> WordsOf(k[2]), active |-> k \in active]
                                     ELSE NoRecord]
    OBVIOUS
  <2>1. PICK active \in SUBSET stored :
          rows = [k \in Memory |-> IF k \in stored
                                     THEN [text |-> WordsOf(k[2]), active |-> k \in active]
                                     ELSE NoRecord]
    BY <2>0
  <2>2. SUFFICES ASSUME NEW k \in Memory, k \in stored
                 PROVE  rows[k] \in Stored(k)
    BY <2>1
  <2>3. CASE k \in active
    BY <2>1, <2>2, <2>3
  <2>4. CASE k \notin active
    <3>1. (k \in active) = FALSE
      BY <2>4
    <3>2. rows[k] = [text |-> WordsOf(k[2]), active |-> FALSE]
      BY <2>1, <2>2, <3>1
    <3>3. QED
      BY <3>2
  <2>5. QED
    BY <2>3, <2>4
<1>e. \A k \in Earlier : k[1] = "mem" /\ WordsOf(k[2]) \in {"plain", "objected"}
  BY DEF Words
<1>k. \A k \in Memory : /\ rows[k] \in Record \cup {NoRecord}
                        /\ rows[k].text \notin Objectionable(k)
  <2> SUFFICES ASSUME NEW k \in Memory
               PROVE  /\ rows[k] \in Record \cup {NoRecord}
                      /\ rows[k].text \notin Objectionable(k)
    OBVIOUS
  <2>1. CASE rows[k] = NoRecord
    BY <2>1 DEF Objectionable
  <2>2. CASE k \in Earlier /\ rows[k] \in Stored(k)
    BY <1>e, <2>2 DEF Objectionable
  <2>3. QED
    BY <1>1, <2>1, <2>2
<1>2. MemoryTypeOK
  BY <1>k DEF MemoryTypeOK
<1>3. StepInv /\ CleanInv
  BY <1>k DEF StepInv, CleanInv
<1>4. IndexedWasStored /\ AgreeInv
  BY DEF IndexedWasStored, AgreeInv, Unindexed
<1>5. QED
  BY <1>2, <1>3, <1>4 DEF StoreInv

LEMMA StoreStepKeeps ==
  ASSUME StoreInv, NEW t \in Thread, StoreStep(t)
  PROVE  StoreInv'
<1> DEFINE k == call[t].memory
<1> USE DEF StoreInv, Goto
<1>1. call[t] # NoCall /\ call[t] \in Call /\ k \in Memory
  <2>1. call[t] # NoCall
    BY DEF StoreStep, Insert, Require, Update, Reread, Upsert, StoreFails, NoCall
  <2>2. QED
    BY <2>1 DEF MemoryTypeOK, Call
<1>2. MemoryTypeOK'
  <2> USE <1>1 DEF MemoryTypeOK, Call, Step, Record, NoRecord
  <2>1. CASE Insert(t)
    BY <2>1 DEF Insert, WriteRow
  <2>2. CASE Require(t)
    BY <2>2 DEF Require
  <2>3. CASE Update(t)
    <3>1. rows[k] \in Record
      BY <2>3 DEF Update, StepInv
    <3>2. [rows[k] EXCEPT !.active = FALSE] \in Record
      BY <3>1
    <3>3. QED
      BY <2>3, <3>2 DEF Update, WriteRow
  <2>4. CASE Reread(t)
    BY <2>4 DEF Reread
  <2>5. CASE Upsert(t)
    BY <2>5 DEF Upsert
  <2>6. CASE StoreFails(t)
    BY <2>6 DEF StoreFails
  <2>7. QED
    BY <2>1, <2>2, <2>3, <2>4, <2>5, <2>6 DEF StoreStep
<1>3. \A j \in Memory : rows[j] # NoRecord => rows'[j] # NoRecord
  <2> USE <1>1 DEF MemoryTypeOK, Call, Record, NoRecord, Kept
  <2>1. CASE Insert(t)
    BY <2>1 DEF Insert, WriteRow, StepInv
  <2>2. CASE Update(t)
    BY <2>2 DEF Update, WriteRow
  <2>3. CASE UNCHANGED rows
    BY <2>3
  <2>4. QED
    BY <2>1, <2>2, <2>3 DEF StoreStep, Require, Reread, Upsert, StoreFails
<1>4. StepInv'
  <2> USE <1>1, <1>3 DEF StepInv, MemoryTypeOK, Call
  <2>1. CASE Insert(t)
    BY <2>1 DEF Insert, WriteRow
  <2>2. CASE Require(t)
    BY <2>2 DEF Require
  <2>3. CASE Update(t)
    BY <2>3 DEF Update, WriteRow
  <2>4. CASE Reread(t)
    BY <2>4 DEF Reread
  <2>5. CASE Upsert(t)
    BY <2>5 DEF Upsert
  <2>6. CASE StoreFails(t)
    BY <2>6 DEF StoreFails
  <2>7. QED
    BY <2>1, <2>2, <2>3, <2>4, <2>5, <2>6 DEF StoreStep
<1>5. IndexedWasStored'
  <2>1. CASE Upsert(t)
    BY <1>1, <1>3, <2>1 DEF Upsert, IndexedWasStored, MemoryTypeOK, StepInv
  <2>2. CASE UNCHANGED index
    BY <1>3, <2>2 DEF IndexedWasStored
  <2>3. QED
    BY <2>1, <2>2 DEF StoreStep, Insert, Update, WriteRow, Require, Reread, StoreFails
<1>6. AgreeInv'
  <2> USE <1>1 DEF AgreeInv, MemoryTypeOK, Unindexed
  <2>1. CASE Insert(t)
    <3>1. call[t].op = "save"
      BY <2>1 DEF Insert, StepInv
    <3>2. QED
      BY <2>1, <3>1 DEF Insert, WriteRow
  <2>2. CASE Require(t)
    BY <2>2 DEF Require
  <2>3. CASE Update(t)
    BY <2>3 DEF Update, WriteRow
  <2>4. CASE Reread(t)
    BY <2>4 DEF Reread
  <2>5. CASE Upsert(t)
    BY <2>5 DEF Upsert
  <2>6. CASE StoreFails(t)
    BY <2>6 DEF StoreFails
  <2>7. QED
    BY <2>1, <2>2, <2>3, <2>4, <2>5, <2>6 DEF StoreStep
<1>7. CleanInv'
  <2> USE <1>1 DEF CleanInv, MemoryTypeOK, Record, NoRecord, Call
  <2>1. CASE Insert(t)
    BY <2>1 DEF Insert, WriteRow
  <2>2. CASE Require(t)
    BY <2>2 DEF Require
  <2>3. CASE Update(t)
    BY <2>3 DEF Update, WriteRow
  <2>4. CASE Reread(t)
    BY <2>4 DEF Reread
  <2>5. CASE Upsert(t)
    BY <2>5 DEF Upsert
  <2>6. CASE StoreFails(t)
    BY <2>6 DEF StoreFails
  <2>7. QED
    BY <2>1, <2>2, <2>3, <2>4, <2>5, <2>6 DEF StoreStep
<1>8. QED
  BY <1>2, <1>4, <1>5, <1>6, <1>7

(* A thread that is in no call makes one.                                  *)
LEMMA SaveKeeps ==
  ASSUME StoreInv, NEW t \in Thread, call[t] = NoCall, NEW k \in Memory,
         NEW text \in Kept \ Objectionable(k), SaveMemory(t, k, text)
  PROVE  StoreInv'
<1> USE DEF StoreInv, SaveMemory, Begin, MemoryTypeOK, NoCall
<1> DEFINE new == [step |-> "insert", memory |-> k, op |-> "save",
                   record |-> [text |-> text, active |-> TRUE]]
<1>1. call' = [call EXCEPT ![t] = new] /\ new \in Call /\ new.record # NoRecord
  BY DEF Call, Step, Record, Kept, NoRecord
<1> HIDE DEF SaveMemory, Begin
<1>2. UNCHANGED <<rows, index, overlapped>>
  BY DEF SaveMemory
<1>3. MemoryTypeOK'
  BY <1>1, <1>2
<1>4. StepInv'
  BY <1>1, <1>2 DEF StepInv
<1>5. IndexedWasStored'
  BY <1>2 DEF IndexedWasStored
<1>6. AgreeInv'
  BY <1>1, <1>2 DEF AgreeInv, Unindexed
<1>7. CleanInv'
  BY <1>1, <1>2 DEF CleanInv
<1>8. QED
  BY <1>3, <1>4, <1>5, <1>6, <1>7

LEMMA DeactivateKeeps ==
  ASSUME StoreInv, NEW t \in Thread, call[t] = NoCall, NEW k \in Memory,
         DeactivateMemory(t, k)
  PROVE  StoreInv'
<1> USE DEF StoreInv, DeactivateMemory, Begin, MemoryTypeOK, NoCall
<1> DEFINE new == [step |-> "require", memory |-> k, op |-> "deactivate",
                   record |-> NoRecord]
<1>1. call' = [call EXCEPT ![t] = new] /\ new \in Call
  BY DEF Call, Step, Record, NoRecord
<1> HIDE DEF DeactivateMemory, Begin
<1>2. UNCHANGED <<rows, index, overlapped>>
  BY DEF DeactivateMemory
<1>3. MemoryTypeOK'
  BY <1>1, <1>2
<1>4. StepInv'
  BY <1>1, <1>2 DEF StepInv
<1>5. IndexedWasStored'
  BY <1>2 DEF IndexedWasStored
<1>6. AgreeInv'
  BY <1>1, <1>2 DEF AgreeInv, Unindexed
<1>7. CleanInv'
  BY <1>1, <1>2 DEF CleanInv, NoRecord, Objectionable
<1>8. QED
  BY <1>3, <1>4, <1>5, <1>6, <1>7

LEMMA ReturnKeeps ==
  ASSUME StoreInv, NEW t \in Thread, call[t].step \in Result, Return(t)
  PROVE  StoreInv'
<1> USE DEF StoreInv, Return, MemoryTypeOK, Result
<1>1. MemoryTypeOK'
  OBVIOUS
<1>2. StepInv'
  BY DEF StepInv, NoCall
<1>3. IndexedWasStored'
  BY DEF IndexedWasStored
<1>4. AgreeInv'
  BY DEF AgreeInv, Unindexed, NoCall
<1>5. CleanInv'
  BY DEF CleanInv, NoCall, NoRecord
<1>6. QED
  BY <1>1, <1>2, <1>3, <1>4, <1>5

LEMMA StoreDiesKeeps == ASSUME StoreInv, StoreDies PROVE StoreInv'
<1> USE DEF StoreInv, StoreDies, MemoryTypeOK
<1>1. MemoryTypeOK'
  OBVIOUS
<1>2. StepInv'
  BY DEF StepInv, NoCall
<1>3. IndexedWasStored'
  BY DEF IndexedWasStored
<1>4. AgreeInv'
  BY DEF AgreeInv, Unindexed, NoCall
<1>5. CleanInv'
  BY DEF CleanInv, NoCall, NoRecord
<1>6. QED
  BY <1>1, <1>2, <1>3, <1>4, <1>5

-----------------------------------------------------------------------------
(* Requests, tools and samples.                                            *)

(* Words that are not blank may be remembered, whatever they say.          *)
LEMMA WordsMayBeOrdered ==
  ASSUME NEW m \in Message, AskOf(m).kind \in {"remember", "tool"}
  PROVE  WordsOf(m) \in {"plain", "objected"}
BY DEF Words

LEMMA Asked ==
  ASSUME NEW m \in Message
  PROVE  /\ AskOf(m).kind = "tool" => AskOf(m).payload \in Payload
         /\ AskOf(m).kind = "forget" => AskOf(m).memory \in Memory
BY DEF Ask

LEMMA InitIInv == Init => IInv
<1> SUFFICES ASSUME Init PROVE IInv
  OBVIOUS
<1>1. StoreInv
  BY StoreInit DEF Init
<1>3. \A m \in Message : rows[<<"chat-agent", m>>] = NoRecord
  BY DEF Init, MemoryInit, Memory
<1>4. TypeOK
  BY <1>1 DEF Init, TypeOK, StoreInv, RegistryTypeOK, WorkflowTypeOK, RegistryInit,
              NoMessage, Decision, NoDecision, Kept, Node, Verdict, Job
<1>5. AskInv /\ KeepInv
  BY DEF Init, AskInv, KeepInv, KeepOf, NoDecision, Keeps
<1>6. JobInv /\ HandlerInv /\ CallInv /\ CachedToolWasDone
  BY DEF Init, MemoryInit, RegistryInit, JobInv, HandlerInv, CallInv, CachedToolWasDone, Handler, Self,
         Thread, NoCall
<1>7. KeptTurnsPassedSafety /\ TurnIsKeptWhole
  BY <1>1, <1>3 DEF Init, StoreInv, CleanInv, KeptTurnsPassedSafety, TurnIsKeptWhole
<1>8. QED
  BY <1>1, <1>4, <1>5, <1>6, <1>7 DEF IInv

(* The stores, of which every step is one of the above or none.            *)
LEMMA StoreNext == IInv /\ [Next]_workflowVars => StoreInv'
<1> SUFFICES ASSUME IInv, [Next]_workflowVars PROVE StoreInv'
  OBVIOUS
<1>0. UNCHANGED storeVars => StoreInv'
  BY DEF storeVars, IInv, StoreInv, MemoryTypeOK, StepInv, IndexedWasStored, AgreeInv, Unindexed,
         CleanInv
<1>1. ASSUME NEW r \in Chat, NEW m \in Message, Receive(r, m) PROVE StoreInv'
  BY <1>0, <1>1 DEF Receive, Enter
<1>2. ASSUME NEW r \in Chat, Retrieve(r) PROVE StoreInv'
  <2>1. Self(r) \in Thread
    BY DEF Self, Thread
  <2>2. at[r] = "retrieve" /\ call[Self(r)] = NoCall /\ message[r] \in Message
    BY <1>2 DEF Retrieve, IInv, AskInv
  <2>3. CASE /\ AskedBy(r).kind = "remember"
             /\ SaveMemory(Self(r), <<"mem", message[r]>>, WordsOf(message[r]))
    <3>1. WordsOf(message[r]) \in Kept \ Objectionable(<<"mem", message[r]>>)
      BY <2>2, <2>3, WordsMayBeOrdered DEF AskedBy, Kept, Objectionable
    <3>2. <<"mem", message[r]>> \in Memory
      BY <2>2 DEF Memory
    <3>3. QED
      BY <2>1, <2>2, <2>3, <3>1, <3>2, SaveKeeps DEF IInv
  <2>4. CASE AskedBy(r).kind = "forget" /\ DeactivateMemory(Self(r), AskedBy(r).memory)
    BY <2>1, <2>2, <2>4, Asked, DeactivateKeeps DEF IInv, AskedBy
  <2>5. CASE UNCHANGED storeVars
    BY <1>0, <2>5
  <2>6. QED
    BY <1>2, <2>2, <2>3, <2>4, <2>5 DEF Retrieve
<1>3. ASSUME NEW r \in Chat, RouteTool(r) PROVE StoreInv'
  BY <1>0, <1>3 DEF RouteTool, Submit, Enter, registryVars
<1>4. ASSUME NEW r \in Chat, ToolEnds(r) PROVE StoreInv'
  BY <1>0, <1>4 DEF ToolEnds, ToolReturns, ToolTimesOut, Enter
<1>5. ASSUME NEW r \in Chat, Reply(r) PROVE StoreInv'
  BY <1>0, <1>5 DEF Reply, Enter
<1>6. ASSUME NEW r \in Chat, SaveTurn(r) PROVE StoreInv'
  <2>1. Self(r) \in Thread
    BY DEF Self, Thread
  <2>2. call[Self(r)] = NoCall /\ message[r] \in Message
    BY <1>6 DEF SaveTurn, IInv, AskInv
  <2>3. CASE /\ at[r] = "save_user"
             /\ SaveMemory(Self(r), <<"chat-user", message[r]>>, WordsOf(message[r]))
    <3>1. WordsOf(message[r]) \in Words \ {"blank", "objected"}
      BY <2>2, <2>3 DEF IInv, KeepInv, KeepOf, AskInv, Keeps
    <3>2. WordsOf(message[r]) \in Kept \ Objectionable(<<"chat-user", message[r]>>)
      BY <3>1 DEF Words, Kept, Objectionable
    <3>3. <<"chat-user", message[r]>> \in Memory
      BY <2>2 DEF Memory
    <3>4. QED
      BY <2>1, <2>2, <2>3, <3>2, <3>3, SaveKeeps DEF IInv
  <2>4. CASE at[r] = "save_agent" /\ SaveMemory(Self(r), <<"chat-agent", message[r]>>, draft[r])
    <3>1. draft[r] \in {"clean", "rewritten", "fallback"}
      BY <2>4 DEF IInv, KeepInv, KeepOf
    <3>2. draft[r] \in Kept \ Objectionable(<<"chat-agent", message[r]>>)
      BY <3>1 DEF Kept, Objectionable
    <3>3. <<"chat-agent", message[r]>> \in Memory
      BY <2>2 DEF Memory
    <3>4. QED
      BY <2>1, <2>2, <2>4, <3>2, <3>3, SaveKeeps DEF IInv
  <2>5. QED
    BY <1>6, <2>3, <2>4 DEF SaveTurn
<1>7. ASSUME NEW r \in Chat, StoreReturns(r) PROVE StoreInv'
  BY <1>7, ReturnKeeps DEF StoreReturns, IInv, Self, Thread
<1>8. ASSUME NEW r \in Chat, Learn(r) PROVE StoreInv'
  BY <1>0, <1>8 DEF Learn, Enter
<1>9. ASSUME NEW r \in Chat, AppendSample(r) PROVE StoreInv'
  BY <1>0, <1>9 DEF AppendSample, Enter
<1>10. ASSUME NEW r \in Chat, Answer(r) PROVE StoreInv'
  BY <1>0, <1>10 DEF Answer, Ends, Enter
<1>11. ASSUME NEW r \in Chat, Fails(r) PROVE StoreInv'
  BY <1>0, <1>11 DEF Fails, Ends, Enter
<1>12. ASSUME NEW r \in Chat, HandlerStep(r) PROVE StoreInv'
  <2> DEFINE p == AskedBy(r).payload
  <2>1. Handler(r) \in Thread
    BY DEF Handler, Thread
  <2>2. p \in Payload
    BY <1>12, Asked DEF HandlerStep, IInv, JobInv, AskedBy
  <2>3. CASE HandlerStarts(r, p, WordsOf(message[r]))
    <3>1. call[Handler(r)] = NoCall /\ p.memory \in Memory
      BY <2>2, <2>3 DEF HandlerStarts, IInv, HandlerInv, Payload
    <3>2. CASE /\ p.name = "save_memory"
               /\ SaveMemory(Handler(r), p.memory, WordsOf(message[r]))
      <4>1. WordsOf(message[r]) \in {"plain", "objected"}
        BY <1>12, WordsMayBeOrdered DEF HandlerStep, IInv, JobInv, AskedBy
      <4>2. WordsOf(message[r]) \in Kept \ Objectionable(p.memory)
        BY <2>2, <3>2, <4>1 DEF Payload, Kept, Objectionable
      <4>3. QED
        BY <2>1, <3>1, <3>2, <4>2, SaveKeeps DEF IInv
    <3>3. CASE DeactivateMemory(Handler(r), p.memory)
      BY <2>1, <3>1, <3>3, DeactivateKeeps DEF IInv
    <3>4. QED
      BY <2>3, <3>2, <3>3 DEF HandlerStarts
  <2>4. CASE HandlerReturns(r, p)
    BY <2>1, <2>4, ReturnKeeps DEF HandlerReturns, IInv
  <2>5. QED
    BY <1>12, <2>3, <2>4 DEF HandlerStep
<1>13. ASSUME NEW t \in Thread, StoreStepOf(t) PROVE StoreInv'
  BY <1>13, StoreStepKeeps DEF StoreStepOf, IInv
<1>14. CASE Dies
  BY <1>14, StoreDiesKeeps DEF Dies, IInv
<1>15. CASE UNCHANGED workflowVars
  BY <1>0, <1>15 DEF workflowVars, storeVars, registryVars, chatVars
<1>16. QED
  BY <1>1, <1>2, <1>3, <1>4, <1>5,
     <1>6, <1>7, <1>8, <1>9, <1>10, <1>11, <1>12, <1>13, <1>14, <1>15 DEF Next, ChatStep

(* Types of the registry and of the requests.                              *)
LEMMA RegistryNext == IInv /\ [Next]_workflowVars => RegistryTypeOK'
<1> SUFFICES ASSUME IInv, [Next]_workflowVars PROVE RegistryTypeOK'
  OBVIOUS
<1>0. RegistryTypeOK
  BY DEF IInv, TypeOK
<1> USE <1>0 DEF RegistryTypeOK
<1>1. ASSUME NEW r \in Chat, NEW m \in Message, Receive(r, m) PROVE RegistryTypeOK'
  BY <1>0, <1>1 DEF Receive, Enter, registryVars
<1>2. ASSUME NEW r \in Chat, Retrieve(r) PROVE RegistryTypeOK'
  BY <1>0, <1>2 DEF Retrieve, Enter, registryVars
<1>3. ASSUME NEW r \in Chat, RouteTool(r) PROVE RegistryTypeOK'
  BY <1>0, <1>3 DEF RouteTool, Submit, Enter, registryVars, Job
<1>4. ASSUME NEW r \in Chat, ToolEnds(r) PROVE RegistryTypeOK'
  <2>1. AskedBy(r).payload \in Payload
    BY <1>4, Asked DEF ToolEnds, IInv, JobInv, AskInv, AskedBy
  <2>2. KeyOf(AskedBy(r).payload) \in CacheKey
    BY <2>1 DEF KeyOf, CacheKey, Payload
  <2>3. QED
    BY <1>4, <2>2 DEF ToolEnds, ToolReturns, ToolTimesOut, Job
<1>5. ASSUME NEW r \in Chat, Reply(r) PROVE RegistryTypeOK'
  BY <1>0, <1>5 DEF Reply, Enter, registryVars
<1>6. ASSUME NEW r \in Chat, SaveTurn(r) PROVE RegistryTypeOK'
  BY <1>0, <1>6 DEF SaveTurn, registryVars
<1>7. ASSUME NEW r \in Chat, StoreReturns(r) PROVE RegistryTypeOK'
  BY <1>0, <1>7 DEF StoreReturns, Ends, Enter, registryVars
<1>8. ASSUME NEW r \in Chat, Learn(r) PROVE RegistryTypeOK'
  BY <1>0, <1>8 DEF Learn, Enter, registryVars
<1>9. ASSUME NEW r \in Chat, AppendSample(r) PROVE RegistryTypeOK'
  BY <1>0, <1>9 DEF AppendSample, Enter, registryVars
<1>10. ASSUME NEW r \in Chat, Answer(r) PROVE RegistryTypeOK'
  BY <1>0, <1>10 DEF Answer, Ends, Enter, registryVars
<1>11. ASSUME NEW r \in Chat, Fails(r) PROVE RegistryTypeOK'
  BY <1>0, <1>11 DEF Fails, Ends, Enter, registryVars
<1>12. ASSUME NEW r \in Chat, HandlerStep(r) PROVE RegistryTypeOK'
  <2>1. AskedBy(r).payload \in Payload
    BY <1>12, Asked DEF HandlerStep, IInv, JobInv, AskedBy
  <2>2. KeyOf(AskedBy(r).payload) \in CacheKey
    BY <2>1 DEF KeyOf, CacheKey, Payload
  <2>3. QED
    BY <1>12, <2>2 DEF HandlerStep, HandlerStarts, HandlerReturns, Job
<1>13. ASSUME NEW t \in Thread, StoreStepOf(t) PROVE RegistryTypeOK'
  BY <1>0, <1>13 DEF StoreStepOf, registryVars
<1>14. CASE Dies
  BY <1>0, <1>14 DEF Dies, RegistryDies, Job
<1>15. CASE UNCHANGED workflowVars
  BY <1>0, <1>15 DEF workflowVars, storeVars, registryVars, chatVars
<1>16. QED
  BY <1>1, <1>2, <1>3, <1>4, <1>5,
     <1>6, <1>7, <1>8, <1>9, <1>10, <1>11, <1>12, <1>13, <1>14, <1>15 DEF Next, ChatStep

LEMMA DecisionsTyped ==
  ASSUME NEW m \in Message PROVE Decisions(AskOf(m)) \subseteq Decision
<1>1. RuleDecision(AskOf(m)) \in Decision
  BY DEF RuleDecision, Decision
<1>2. NoDecision \in Decision
  BY DEF NoDecision, Decision
<1>3. QED
  BY <1>1, <1>2 DEF Decisions

LEMMA RequestsNext == IInv /\ [Next]_workflowVars => WorkflowTypeOK'
<1> SUFFICES ASSUME IInv, [Next]_workflowVars PROVE WorkflowTypeOK'
  OBVIOUS
<1> USE DEF Node
<1>0. WorkflowTypeOK
  BY DEF IInv, TypeOK
<1> USE <1>0 DEF WorkflowTypeOK
<1>1. ASSUME NEW r \in Chat, NEW m \in Message, Receive(r, m) PROVE WorkflowTypeOK'
  BY <1>0, <1>1, DecisionsTyped DEF Receive, Enter
<1>2. ASSUME NEW r \in Chat, Retrieve(r) PROVE WorkflowTypeOK'
  BY <1>0, <1>2 DEF Retrieve, Enter, chatVars
<1>3. ASSUME NEW r \in Chat, RouteTool(r) PROVE WorkflowTypeOK'
  BY <1>0, <1>3 DEF RouteTool, Submit, Enter, registryVars, chatVars
<1>4. ASSUME NEW r \in Chat, ToolEnds(r) PROVE WorkflowTypeOK'
  BY <1>0, <1>4 DEF ToolEnds, ToolReturns, ToolTimesOut, Enter, chatVars
<1>5. ASSUME NEW r \in Chat, Reply(r) PROVE WorkflowTypeOK'
  <2>1. PICK text \in Generated, v \in {"send", "hold"} :
          /\ verdict' = [verdict EXCEPT ![r] = v]
          /\ IF Keeps(r, v)
               THEN draft' = [draft EXCEPT ![r] = SafeText(text)] /\ Enter(r, TurnParts(r, text))
               ELSE Enter(r, "answer") /\ UNCHANGED draft
    BY <1>5 DEF Reply, Assess
  <2>2. SafeText(text) \in Kept \cup {"blank"}
    BY DEF SafeText, Generated, Kept
  <2>3. verdict' \in [Chat -> Verdict]
    BY <1>0, <2>1 DEF Verdict
  <2>4. draft' \in [Chat -> Kept \cup {"none", "blank"}] /\ at' \in [Chat -> Node]
    BY <1>0, <2>1, <2>2 DEF Enter, TurnParts, AgentPart
  <2>5. QED
    BY <1>0, <1>5, <2>3, <2>4 DEF Reply
<1>6. ASSUME NEW r \in Chat, SaveTurn(r) PROVE WorkflowTypeOK'
  BY <1>0, <1>6 DEF SaveTurn, chatVars
<1>7. ASSUME NEW r \in Chat, StoreReturns(r) PROVE WorkflowTypeOK'
  <2>1. at[r] \in {"retrieve", "save_user", "save_agent"}
    BY <1>7 DEF StoreReturns, IInv, CallInv, NoCall, Result
  <2>2. QED
    BY <1>0, <1>7, <2>1 DEF StoreReturns, Ends, Enter, AgentPart, chatVars
<1>8. ASSUME NEW r \in Chat, Learn(r) PROVE WorkflowTypeOK'
  BY <1>0, <1>8 DEF Learn, Enter, chatVars
<1>9. ASSUME NEW r \in Chat, AppendSample(r) PROVE WorkflowTypeOK'
  <2>1. message[r] \in Message /\ draft[r] \in Kept
    BY <1>9 DEF AppendSample, IInv, AskInv, KeepInv, KeepOf, Kept
  <2>2. QED
    BY <1>0, <1>9, <2>1 DEF AppendSample, Enter, chatVars
<1>10. ASSUME NEW r \in Chat, Answer(r) PROVE WorkflowTypeOK'
  BY <1>0, <1>10 DEF Answer, Ends, Enter, chatVars
<1>11. ASSUME NEW r \in Chat, Fails(r) PROVE WorkflowTypeOK'
  BY <1>0, <1>11 DEF Fails, Ends, Enter, chatVars
<1>12. ASSUME NEW r \in Chat, HandlerStep(r) PROVE WorkflowTypeOK'
  BY <1>0, <1>12 DEF HandlerStep, HandlerStarts, HandlerReturns, chatVars
<1>13. ASSUME NEW t \in Thread, StoreStepOf(t) PROVE WorkflowTypeOK'
  BY <1>0, <1>13 DEF StoreStepOf, chatVars
<1>14. CASE Dies
  BY <1>0, <1>14 DEF Dies, RegistryDies, chatVars
<1>15. CASE UNCHANGED workflowVars
  BY <1>0, <1>15 DEF workflowVars, storeVars, registryVars, chatVars
<1>16. QED
  BY <1>1, <1>2, <1>3, <1>4, <1>5,
     <1>6, <1>7, <1>8, <1>9, <1>10, <1>11, <1>12, <1>13, <1>14, <1>15 DEF Next, ChatStep

(* What a step inside a store call leaves alone.                           *)
CallFrame(t) ==
  \E c \in Call \ {NoCall} :
    /\ call' = [call EXCEPT ![t] = c]
    /\ c.op = call[t].op
    /\ c.memory = call[t].memory
    /\ c.op = "save" => c.record = call[t].record

RowFrame(t, k) ==
  /\ rows[k] # NoRecord => rows'[k] # NoRecord
  /\ \/ rows'[k].text = rows[k].text
     \/ /\ k = call[t].memory /\ call[t].op = "save"
        /\ rows'[k] = call[t].record

LEMMA StoreStepFrame ==
  ASSUME StoreInv, NEW t \in Thread, StoreStep(t)
  PROVE  call[t] # NoCall /\ CallFrame(t) /\ \A k \in Memory : RowFrame(t, k)
<1> USE DEF StoreInv, MemoryTypeOK, StepInv
<1>1. call[t] # NoCall
  BY DEF StoreStep, Insert, Require, Update, Reread, Upsert, StoreFails, NoCall
<1>2. call[t] \in Call /\ call[t].memory \in Memory
  BY <1>1 DEF Call
<1>3. ASSUME NEW step \in Step \ {"none"}, Goto(t, step)
      PROVE  CallFrame(t)
  <2> DEFINE c == [call[t] EXCEPT !.step = step]
  <2>1. c \in Call /\ c # NoCall /\ c.op = call[t].op /\ c.memory = call[t].memory
        /\ c.record = call[t].record
    BY <1>2 DEF Call, NoCall
  <2>2. call' = [call EXCEPT ![t] = c]
    BY <1>3 DEF Goto
  <2>3. QED
    BY <2>1, <2>2 DEF CallFrame
<1>4. CallFrame(t)
  <2>1. CASE Reread(t)
    <3> DEFINE c == [call[t] EXCEPT !.step = "upsert", !.record = rows[call[t].memory]]
    <3>1. c \in Call /\ c # NoCall /\ c.op = call[t].op /\ c.memory = call[t].memory
          /\ c.op # "save"
      BY <1>2, <2>1 DEF Call, NoCall, Step, Reread
    <3>2. call' = [call EXCEPT ![t] = c]
      BY <2>1 DEF Reread
    <3>3. QED
      BY <3>1, <3>2 DEF CallFrame
  <2>2. CASE \E step \in Step \ {"none"} : Goto(t, step)
    BY <1>3, <2>2
  <2>3. QED
    BY <2>1, <2>2 DEF StoreStep, Insert, Require, Update, Upsert, StoreFails, Step
<1>5. ASSUME NEW k \in Memory
      PROVE  RowFrame(t, k)
  <2>1. CASE Insert(t)
    BY <1>2, <2>1 DEF Insert, WriteRow, RowFrame
  <2>2. CASE Update(t)
    <3>1. CASE k = call[t].memory
      <4>1. rows'[k] = [rows[k] EXCEPT !.active = FALSE] /\ rows[k] \in Record
        BY <1>2, <2>2, <3>1 DEF Update, WriteRow
      <4>2. QED
        BY <4>1 DEF RowFrame, Record, NoRecord, Kept
    <3>2. QED
      BY <1>2, <2>2, <3>1 DEF Update, WriteRow, RowFrame
  <2>3. CASE UNCHANGED rows
    BY <2>3 DEF RowFrame
  <2>4. QED
    BY <2>1, <2>2, <2>3 DEF StoreStep, Require, Reread, Upsert, StoreFails
<1>6. QED
  BY <1>1, <1>4, <1>5

LEMMA DecisionsFit ==
  ASSUME NEW m \in Message, NEW d \in Decisions(AskOf(m))
  PROVE  /\ d.tool => AskOf(m).kind = "tool"
         /\ d.memory => AskOf(m).kind \in {"remember", "forget"}
         /\ (PolicyMode = "rule" /\ d.review) => d.intent = "unsafe"
<1>1. CASE PolicyMode = "rule"
  <2> DEFINE kind == AskOf(m).kind
  <2>1. d = RuleDecision(AskOf(m))
    BY <1>1 DEF Decisions
  <2>2. d.tool = (kind = "tool") /\ d.memory = (kind \in {"remember", "forget"})
        /\ d.review = (kind = "unsafe")
    BY <2>1 DEF RuleDecision
  <2>3. kind = "unsafe" => d.intent = "unsafe"
    BY <2>1 DEF RuleDecision
  <2>4. QED
    BY <2>2, <2>3
<1>2. CASE PolicyMode = "llm"
  BY <1>2 DEF Decisions, NoDecision
<1>3. QED
  BY <1>1, <1>2

(* The parts of IInv about requests.                                       *)
LEMMA AskNext == IInv /\ [Next]_workflowVars => AskInv'
<1> SUFFICES ASSUME IInv, [Next]_workflowVars PROVE AskInv'
  OBVIOUS
<1> USE DEF AskedBy
<1>0. WorkflowTypeOK /\ AskInv /\ KeepInv
  BY DEF IInv, TypeOK
<1> USE <1>0 DEF WorkflowTypeOK, AskInv, KeepInv
<1>1. ASSUME NEW r \in Chat, NEW m \in Message, Receive(r, m) PROVE AskInv'
  <2>1. PICK d \in Decisions(AskOf(m)) : decision' = [decision EXCEPT ![r] = d]
    BY <1>1 DEF Receive
  <2>2. /\ d.tool => AskOf(m).kind = "tool"
        /\ d.memory => AskOf(m).kind \in {"remember", "forget"}
        /\ (PolicyMode = "rule" /\ d.review) => d.intent = "unsafe"
    BY <2>1, DecisionsFit
  <2>3. message' = [message EXCEPT ![r] = m] /\ verdict[r] = "none" /\ UNCHANGED verdict
    BY <1>0, <1>1 DEF Receive, KeepOf
  <2>4. QED
    BY <1>0, <1>1, <2>1, <2>2, <2>3 DEF Receive, Enter
<1>2. ASSUME NEW r \in Chat, Retrieve(r) PROVE AskInv'
  BY <1>0, <1>2 DEF Retrieve, Enter, chatVars
<1>3. ASSUME NEW r \in Chat, RouteTool(r) PROVE AskInv'
  BY <1>0, <1>3 DEF RouteTool, Submit, Enter, registryVars, chatVars
<1>4. ASSUME NEW r \in Chat, ToolEnds(r) PROVE AskInv'
  BY <1>0, <1>4 DEF ToolEnds, ToolReturns, ToolTimesOut, Enter, chatVars
<1>5. ASSUME NEW r \in Chat, Reply(r) PROVE AskInv'
  BY <1>0, <1>5 DEF Reply, Assess, Enter, TurnParts, AgentPart
<1>6. ASSUME NEW r \in Chat, SaveTurn(r) PROVE AskInv'
  BY <1>0, <1>6 DEF SaveTurn, chatVars
<1>7. ASSUME NEW r \in Chat, StoreReturns(r) PROVE AskInv'
  <2>1. at[r] \in {"retrieve", "save_user", "save_agent"}
    BY <1>7 DEF StoreReturns, IInv, CallInv, NoCall, Result
  <2>2. QED
    BY <1>0, <1>7, <2>1 DEF StoreReturns, Ends, Enter, AgentPart, chatVars
<1>8. ASSUME NEW r \in Chat, Learn(r) PROVE AskInv'
  BY <1>0, <1>8 DEF Learn, Enter, chatVars
<1>9. ASSUME NEW r \in Chat, AppendSample(r) PROVE AskInv'
  BY <1>0, <1>9 DEF AppendSample, Enter, chatVars
<1>10. ASSUME NEW r \in Chat, Answer(r) PROVE AskInv'
  BY <1>0, <1>10 DEF Answer, Ends, Enter, chatVars
<1>11. ASSUME NEW r \in Chat, Fails(r) PROVE AskInv'
  BY <1>0, <1>11 DEF Fails, Ends, Enter, chatVars
<1>12. ASSUME NEW r \in Chat, HandlerStep(r) PROVE AskInv'
  BY <1>0, <1>12 DEF HandlerStep, HandlerStarts, HandlerReturns, chatVars
<1>13. ASSUME NEW t \in Thread, StoreStepOf(t) PROVE AskInv'
  BY <1>0, <1>13 DEF StoreStepOf, chatVars
<1>14. CASE Dies
  BY <1>0, <1>14 DEF Dies, RegistryDies, chatVars
<1>15. CASE UNCHANGED workflowVars
  BY <1>0, <1>15 DEF workflowVars, storeVars, registryVars, chatVars
<1>16. QED
  BY <1>1, <1>2, <1>3, <1>4, <1>5,
     <1>6, <1>7, <1>8, <1>9, <1>10, <1>11, <1>12, <1>13, <1>14, <1>15 DEF Next, ChatStep

LEMMA JobNext == IInv /\ [Next]_workflowVars => JobInv'
<1> SUFFICES ASSUME IInv, [Next]_workflowVars PROVE JobInv'
  OBVIOUS
<1> USE DEF AskedBy
<1>0. RegistryTypeOK /\ WorkflowTypeOK /\ AskInv /\ JobInv
  BY DEF IInv, TypeOK
<1> USE <1>0 DEF WorkflowTypeOK, RegistryTypeOK, JobInv, AskInv
<1>1. ASSUME NEW r \in Chat, NEW m \in Message, Receive(r, m) PROVE JobInv'
  BY <1>0, <1>1 DEF Receive, Enter, chatVars, registryVars
<1>2. ASSUME NEW r \in Chat, Retrieve(r) PROVE JobInv'
  BY <1>0, <1>2 DEF Retrieve, Enter, chatVars, registryVars
<1>3. ASSUME NEW r \in Chat, RouteTool(r) PROVE JobInv'
  BY <1>0, <1>3 DEF RouteTool, Submit, Enter, registryVars, chatVars, registryVars
<1>4. ASSUME NEW r \in Chat, ToolEnds(r) PROVE JobInv'
  BY <1>0, <1>4 DEF ToolEnds, ToolReturns, ToolTimesOut, Enter, chatVars
<1>5. ASSUME NEW r \in Chat, Reply(r) PROVE JobInv'
  BY <1>0, <1>5 DEF Reply, Enter, TurnParts, AgentPart, chatVars, registryVars
<1>6. ASSUME NEW r \in Chat, SaveTurn(r) PROVE JobInv'
  BY <1>0, <1>6 DEF SaveTurn, chatVars, registryVars
<1>7. ASSUME NEW r \in Chat, StoreReturns(r) PROVE JobInv'
  <2>1. at[r] \in {"retrieve", "save_user", "save_agent"}
    BY <1>7 DEF StoreReturns, IInv, CallInv, NoCall, Result
  <2>2. QED
    BY <1>0, <1>7, <2>1 DEF StoreReturns, Ends, Enter, AgentPart, chatVars, registryVars
<1>8. ASSUME NEW r \in Chat, Learn(r) PROVE JobInv'
  BY <1>0, <1>8 DEF Learn, Enter, chatVars, registryVars
<1>9. ASSUME NEW r \in Chat, AppendSample(r) PROVE JobInv'
  BY <1>0, <1>9 DEF AppendSample, Enter, chatVars, registryVars
<1>10. ASSUME NEW r \in Chat, Answer(r) PROVE JobInv'
  BY <1>0, <1>10 DEF Answer, Ends, Enter, chatVars, registryVars
<1>11. ASSUME NEW r \in Chat, Fails(r) PROVE JobInv'
  BY <1>0, <1>11 DEF Fails, Ends, Enter, chatVars, registryVars
<1>12. ASSUME NEW r \in Chat, HandlerStep(r) PROVE JobInv'
  BY <1>0, <1>12 DEF HandlerStep, HandlerStarts, HandlerReturns, chatVars
<1>13. ASSUME NEW t \in Thread, StoreStepOf(t) PROVE JobInv'
  BY <1>0, <1>13 DEF StoreStepOf, chatVars, registryVars
<1>14. CASE Dies
  BY <1>0, <1>14 DEF Dies, RegistryDies, chatVars, registryVars
<1>15. CASE UNCHANGED workflowVars
  BY <1>0, <1>15 DEF workflowVars, storeVars, registryVars, chatVars
<1>16. QED
  BY <1>1, <1>2, <1>3, <1>4, <1>5,
     <1>6, <1>7, <1>8, <1>9, <1>10, <1>11, <1>12, <1>13, <1>14, <1>15 DEF Next, ChatStep

(* A call is made: the thread's entry is set.                              *)
LEMMA CallIsMade ==
  ASSUME NEW t, NEW k, NEW text, SaveMemory(t, k, text) \/ DeactivateMemory(t, k)
  PROVE  \E c : /\ call' = [call EXCEPT ![t] = c] /\ c.memory = k
                /\ c.op = "save" => SaveMemory(t, k, text) /\ c.record.text = text
<1>1. CASE SaveMemory(t, k, text)
  <2> DEFINE c == [step |-> "insert", memory |-> k, op |-> "save",
                   record |-> [text |-> text, active |-> TRUE]]
  <2>1. call' = [call EXCEPT ![t] = c]
    BY <1>1 DEF SaveMemory, Begin
  <2>2. c.memory = k /\ c.op = "save" /\ c.record.text = text
    OBVIOUS
  <2> HIDE DEF c
  <2>3. QED
    BY <1>1, <2>1, <2>2
<1>2. CASE DeactivateMemory(t, k)
  <2> DEFINE c == [step |-> "require", memory |-> k, op |-> "deactivate",
                   record |-> NoRecord]
  <2>1. call' = [call EXCEPT ![t] = c]
    BY <1>2 DEF DeactivateMemory, Begin
  <2>2. c.memory = k /\ c.op # "save"
    OBVIOUS
  <2> HIDE DEF c
  <2>3. QED
    BY <2>1, <2>2
<1>3. QED
  BY <1>1, <1>2

LEMMA DeactivateIsMade ==
  ASSUME NEW t, NEW k, DeactivateMemory(t, k)
  PROVE  \E c : call' = [call EXCEPT ![t] = c] /\ c.op # "save"
<1> DEFINE c == [step |-> "require", memory |-> k, op |-> "deactivate",
                 record |-> NoRecord]
<1>1. call' = [call EXCEPT ![t] = c] /\ c.op # "save"
  BY DEF DeactivateMemory, Begin
<1> HIDE DEF c
<1>2. QED
  BY <1>1

LEMMA HandlerNext == IInv /\ [Next]_workflowVars => HandlerInv'
<1> SUFFICES ASSUME IInv, [Next]_workflowVars PROVE HandlerInv'
  OBVIOUS
<1>0. StoreInv /\ MemoryTypeOK /\ RegistryTypeOK
  BY DEF IInv, TypeOK, StoreInv
<1>h. \A r, q \in Chat : Self(r) # Handler(q) /\ (Handler(r) = Handler(q) => r = q)
  BY DEF Self, Handler
<1>t. \A r \in Chat : Self(r) \in Thread /\ Handler(r) \in Thread
  BY DEF Self, Handler, Thread
<1>n. NoCall.step = "none" /\ NoCall.op = "none"
  BY DEF NoCall
<1>i. HandlerInv
  BY DEF IInv
<1>1. ASSUME NEW r \in Chat, NEW m \in Message, Receive(r, m) PROVE HandlerInv'
  <2>1. \A q \in Chat : call'[Handler(q)] = call[Handler(q)]
    BY <1>0, <1>h, <1>1 DEF Receive, storeVars
  <2>2. UNCHANGED job
    BY <1>1 DEF Receive, registryVars
  <2>3. QED
    BY <1>i, <2>1, <2>2 DEF HandlerInv
<1>2. ASSUME NEW r \in Chat, Retrieve(r) PROVE HandlerInv'
  <2>1. \A q \in Chat : call'[Handler(q)] = call[Handler(q)]
    <3>1. CASE UNCHANGED storeVars
      BY <3>1 DEF storeVars
    <3>2. CASE \E c : call' = [call EXCEPT ![Self(r)] = c]
      BY <1>h, <3>2
    <3>3. CASE SaveMemory(Self(r), <<"mem", message[r]>>, WordsOf(message[r]))
      BY <3>2, <3>3, CallIsMade
    <3>4. CASE DeactivateMemory(Self(r), AskedBy(r).memory)
      BY <3>2, <3>4, DeactivateIsMade
    <3>5. QED
      BY <1>2, <3>1, <3>3, <3>4 DEF Retrieve
  <2>2. UNCHANGED job
    BY <1>2 DEF Retrieve, registryVars
  <2>3. QED
    BY <1>i, <2>1, <2>2 DEF HandlerInv
<1>3. ASSUME NEW r \in Chat, RouteTool(r) PROVE HandlerInv'
  <2>1. UNCHANGED call /\ (job' = job \/ job' = [job EXCEPT ![r] = "queued"])
    BY <1>3 DEF RouteTool, Submit, storeVars, registryVars
  <2>2. job[r] = "none"
    BY <1>3 DEF RouteTool, IInv, JobInv
  <2>3. QED
    BY <1>0, <1>i, <2>1, <2>2 DEF HandlerInv, RegistryTypeOK
<1>4. ASSUME NEW r \in Chat, ToolEnds(r) PROVE HandlerInv'
  <2>1. UNCHANGED call
    BY <1>4 DEF ToolEnds, storeVars
  <2>2. QED
    BY <1>0, <1>i, <1>4, <2>1 DEF HandlerInv, RegistryTypeOK, ToolEnds, ToolReturns, ToolTimesOut
<1>5. ASSUME NEW r \in Chat, Reply(r) PROVE HandlerInv'
  <2>1. \A q \in Chat : call'[Handler(q)] = call[Handler(q)]
    BY <1>0, <1>h, <1>5 DEF Reply, storeVars
  <2>2. UNCHANGED job
    BY <1>5 DEF Reply, registryVars
  <2>3. QED
    BY <1>i, <2>1, <2>2 DEF HandlerInv
<1>6. ASSUME NEW r \in Chat, SaveTurn(r) PROVE HandlerInv'
  <2>1. \A q \in Chat : call'[Handler(q)] = call[Handler(q)]
    <3>1. \E c : call' = [call EXCEPT ![Self(r)] = c]
      BY <1>6, CallIsMade DEF SaveTurn
    <3>2. QED
      BY <1>0, <1>h, <3>1
  <2>2. UNCHANGED job
    BY <1>6 DEF SaveTurn, registryVars
  <2>3. QED
    BY <1>i, <2>1, <2>2 DEF HandlerInv
<1>7. ASSUME NEW r \in Chat, StoreReturns(r) PROVE HandlerInv'
  <2>1. \A q \in Chat : call'[Handler(q)] = call[Handler(q)]
    BY <1>0, <1>h, <1>7 DEF StoreReturns, Return
  <2>2. UNCHANGED job
    BY <1>7 DEF StoreReturns, registryVars
  <2>3. QED
    BY <1>i, <2>1, <2>2 DEF HandlerInv
<1>8. ASSUME NEW r \in Chat, Learn(r) PROVE HandlerInv'
  <2>1. \A q \in Chat : call'[Handler(q)] = call[Handler(q)]
    BY <1>0, <1>h, <1>8 DEF Learn, storeVars
  <2>2. UNCHANGED job
    BY <1>8 DEF Learn, registryVars
  <2>3. QED
    BY <1>i, <2>1, <2>2 DEF HandlerInv
<1>9. ASSUME NEW r \in Chat, AppendSample(r) PROVE HandlerInv'
  <2>1. \A q \in Chat : call'[Handler(q)] = call[Handler(q)]
    BY <1>0, <1>h, <1>9 DEF AppendSample, storeVars
  <2>2. UNCHANGED job
    BY <1>9 DEF AppendSample, registryVars
  <2>3. QED
    BY <1>i, <2>1, <2>2 DEF HandlerInv
<1>10. ASSUME NEW r \in Chat, Answer(r) PROVE HandlerInv'
  <2>1. \A q \in Chat : call'[Handler(q)] = call[Handler(q)]
    BY <1>0, <1>h, <1>10 DEF Answer, storeVars
  <2>2. UNCHANGED job
    BY <1>10 DEF Answer, registryVars
  <2>3. QED
    BY <1>i, <2>1, <2>2 DEF HandlerInv
<1>11. ASSUME NEW r \in Chat, Fails(r) PROVE HandlerInv'
  <2>1. \A q \in Chat : call'[Handler(q)] = call[Handler(q)]
    BY <1>0, <1>h, <1>11 DEF Fails, storeVars
  <2>2. UNCHANGED job
    BY <1>11 DEF Fails, registryVars
  <2>3. QED
    BY <1>i, <2>1, <2>2 DEF HandlerInv
<1>12. ASSUME NEW r \in Chat, HandlerStep(r) PROVE HandlerInv'
  <2> DEFINE p == AskedBy(r).payload
  <2>1. p \in Payload
    BY <1>12, Asked DEF HandlerStep, IInv, JobInv, AskedBy
  <2>2. CASE HandlerStarts(r, p, WordsOf(message[r]))
    <3>1. /\ job' = [job EXCEPT ![r] = "running"]
          /\ \E c : /\ call' = [call EXCEPT ![Handler(r)] = c]
                    /\ c.op = "save" => c.memory[1] = "mem"
      <4>1. CASE p.name = "save_memory"
        BY <2>1, <2>2, <4>1, CallIsMade DEF HandlerStarts, Payload
      <4>2. CASE p.name # "save_memory"
        <5>1. DeactivateMemory(Handler(r), p.memory)
          BY <2>2, <4>2 DEF HandlerStarts
        <5>2. \E c : call' = [call EXCEPT ![Handler(r)] = c] /\ c.op # "save"
          BY <5>1, DeactivateIsMade
        <5>3. QED
          BY <2>2, <5>2 DEF HandlerStarts
      <4>3. QED
        BY <4>1, <4>2
    <3>2. QED
      BY <1>0, <1>h, <1>t, <1>i, <3>1 DEF HandlerInv, RegistryTypeOK, MemoryTypeOK
  <2>3. CASE HandlerReturns(r, p)
    <3>1. call' = [call EXCEPT ![Handler(r)] = NoCall]
      BY <2>3 DEF HandlerReturns, Return
    <3>2. \A q \in Chat : job'[q] \notin {"running", "abandoned"} =>
                            q = r \/ job[q] \notin {"running", "abandoned"}
      BY <1>0, <2>3 DEF HandlerReturns, RegistryTypeOK
    <3>3. QED
      BY <1>0, <1>h, <1>t, <1>n, <1>i, <3>1, <3>2 DEF HandlerInv, MemoryTypeOK
  <2>4. QED
    BY <1>12, <2>2, <2>3 DEF HandlerStep
<1>13. ASSUME NEW t \in Thread, StoreStepOf(t) PROVE HandlerInv'
  <2>1. call[t] # NoCall /\ CallFrame(t) /\ UNCHANGED job
    BY <1>0, <1>13, StoreStepFrame DEF StoreStepOf, registryVars
  <2>2. PICK c \in Call : /\ call' = [call EXCEPT ![t] = c]
                          /\ c.op = call[t].op /\ c.memory = call[t].memory
    BY <2>1 DEF CallFrame
  <2>3. QED
    BY <1>0, <1>t, <1>i, <2>1, <2>2 DEF HandlerInv, MemoryTypeOK
<1>14. CASE Dies
  BY <1>14, <1>t, <1>n DEF Dies, StoreDies, RegistryDies, HandlerInv
<1>15. CASE UNCHANGED workflowVars
  BY <1>i, <1>15 DEF HandlerInv, workflowVars, storeVars, registryVars, chatVars
<1>16. QED
  BY <1>1, <1>2, <1>3, <1>4, <1>5,
     <1>6, <1>7, <1>8, <1>9, <1>10, <1>11, <1>12, <1>13, <1>14, <1>15 DEF Next, ChatStep

LEMMA CallNext == IInv /\ [Next]_workflowVars => CallInv'
<1> SUFFICES ASSUME IInv, [Next]_workflowVars PROVE CallInv'
  OBVIOUS
<1>0. StoreInv /\ MemoryTypeOK /\ WorkflowTypeOK
  BY DEF IInv, TypeOK, StoreInv
<1>h. \A r, q \in Chat : Self(r) # Handler(q) /\ (Self(r) = Self(q) => r = q)
  BY DEF Self, Handler
<1>t. \A r \in Chat : Self(r) \in Thread /\ Handler(r) \in Thread
  BY DEF Self, Handler, Thread
<1>n. NoCall.step = "none" /\ NoCall.op = "none"
  BY DEF NoCall
<1>i. CallInv
  BY DEF IInv
<1>1. ASSUME NEW r \in Chat, NEW m \in Message, Receive(r, m) PROVE CallInv'
  <2>1. UNCHANGED call
    BY <1>1 DEF Receive, storeVars
  <2>2. call[Self(r)] = NoCall
    BY <1>i, <1>1 DEF CallInv, Receive
  <2>3. \A q \in Chat \ {r} : /\ at'[q] = at[q] /\ message'[q] = message[q]
                            /\ draft'[q] = draft[q]
    BY <1>0, <1>1 DEF Receive, Enter, chatVars, WorkflowTypeOK
  <2>4. QED
    BY <1>i, <2>1, <2>2, <2>3 DEF CallInv
<1>2. ASSUME NEW r \in Chat, Retrieve(r) PROVE CallInv'
  <2>1. UNCHANGED chatVars /\ at[r] = "retrieve" /\ call[Self(r)] = NoCall
    BY <1>2 DEF Retrieve
  <2>2. CASE SaveMemory(Self(r), <<"mem", message[r]>>, WordsOf(message[r])) /\ UNCHANGED at
    <3>1. PICK c : call' = [call EXCEPT ![Self(r)] = c] /\ c.memory = <<"mem", message[r]>>
      BY <2>2, CallIsMade
    <3>2. QED
      BY <1>0, <1>h, <1>t, <1>i, <2>1, <2>2, <3>1 DEF CallInv, MemoryTypeOK, chatVars
  <2>3. CASE DeactivateMemory(Self(r), AskedBy(r).memory) /\ UNCHANGED at
    <3>1. PICK c : call' = [call EXCEPT ![Self(r)] = c] /\ c.op # "save"
      BY <2>3, DeactivateIsMade
    <3>2. QED
      BY <1>0, <1>h, <1>t, <1>i, <2>1, <2>3, <3>1 DEF CallInv, MemoryTypeOK, chatVars
  <2>4. CASE UNCHANGED storeVars /\ Enter(r, "tool")
    BY <1>0, <1>i, <2>1, <2>4 DEF CallInv, Enter, WorkflowTypeOK, chatVars, storeVars
  <2>5. QED
    BY <1>2, <2>2, <2>3, <2>4 DEF Retrieve
<1>3. ASSUME NEW r \in Chat, RouteTool(r) PROVE CallInv'
  <2>1. UNCHANGED call
    BY <1>3 DEF RouteTool, storeVars
  <2>2. call[Self(r)] = NoCall
    BY <1>i, <1>3 DEF CallInv, RouteTool
  <2>3. \A q \in Chat \ {r} : /\ at'[q] = at[q] /\ message'[q] = message[q]
                            /\ draft'[q] = draft[q]
    BY <1>0, <1>3 DEF RouteTool, Submit, Enter, registryVars, chatVars, WorkflowTypeOK
  <2>4. QED
    BY <1>i, <2>1, <2>2, <2>3 DEF CallInv
<1>4. ASSUME NEW r \in Chat, ToolEnds(r) PROVE CallInv'
  <2>1. UNCHANGED call
    BY <1>4 DEF ToolEnds, storeVars
  <2>2. call[Self(r)] = NoCall
    BY <1>i, <1>4 DEF CallInv, ToolEnds
  <2>3. \A q \in Chat \ {r} : /\ at'[q] = at[q] /\ message'[q] = message[q]
                            /\ draft'[q] = draft[q]
    BY <1>0, <1>4 DEF ToolEnds, ToolReturns, ToolTimesOut, Enter, chatVars, WorkflowTypeOK
  <2>4. QED
    BY <1>i, <2>1, <2>2, <2>3 DEF CallInv
<1>5. ASSUME NEW r \in Chat, Reply(r) PROVE CallInv'
  <2>1. UNCHANGED call
    BY <1>5 DEF Reply, storeVars
  <2>2. call[Self(r)] = NoCall
    BY <1>i, <1>5 DEF CallInv, Reply
  <2>3. \A q \in Chat \ {r} : /\ at'[q] = at[q] /\ message'[q] = message[q]
                            /\ draft'[q] = draft[q]
    BY <1>0, <1>5 DEF Reply, Enter, chatVars, WorkflowTypeOK
  <2>4. QED
    BY <1>i, <2>1, <2>2, <2>3 DEF CallInv
<1>6. ASSUME NEW r \in Chat, SaveTurn(r) PROVE CallInv'
  <2>1. UNCHANGED <<at, chatVars>>
    BY <1>6 DEF SaveTurn
  <2>2. CASE at[r] = "save_user" /\ SaveMemory(Self(r), <<"chat-user", message[r]>>, WordsOf(message[r]))
    <3>1. /\ call' = [call EXCEPT ![Self(r)] = call'[Self(r)]]
          /\ call'[Self(r)].op = "save"
          /\ call'[Self(r)].memory = <<"chat-user", message[r]>>
      BY <1>0, <1>t, <2>2 DEF SaveMemory, Begin, MemoryTypeOK
    <3>2. QED
      BY <1>0, <1>h, <1>t, <1>i, <2>1, <2>2, <3>1 DEF CallInv, MemoryTypeOK, chatVars
  <2>3. CASE at[r] = "save_agent" /\ SaveMemory(Self(r), <<"chat-agent", message[r]>>, draft[r])
    <3>1. /\ call' = [call EXCEPT ![Self(r)] = call'[Self(r)]]
          /\ call'[Self(r)].op = "save"
          /\ call'[Self(r)].memory = <<"chat-agent", message[r]>>
          /\ call'[Self(r)].record.text = draft[r]
      BY <1>0, <1>t, <2>3 DEF SaveMemory, Begin, MemoryTypeOK
    <3>2. QED
      BY <1>0, <1>h, <1>t, <1>i, <2>1, <2>3, <3>1 DEF CallInv, MemoryTypeOK, chatVars
  <2>4. QED
    BY <1>6, <2>2, <2>3 DEF SaveTurn
<1>7. ASSUME NEW r \in Chat, StoreReturns(r) PROVE CallInv'
  <2>1. call' = [call EXCEPT ![Self(r)] = NoCall]
    BY <1>7 DEF StoreReturns, Return
  <2>2. \A q \in Chat \ {r} : at'[q] = at[q]
    BY <1>0, <1>7 DEF StoreReturns, Ends, Enter, WorkflowTypeOK
  <2>3. UNCHANGED chatVars
    BY <1>7 DEF StoreReturns
  <2>4. QED
    BY <1>0, <1>h, <1>t, <1>i, <2>1, <2>2, <2>3 DEF CallInv, MemoryTypeOK, chatVars
<1>8. ASSUME NEW r \in Chat, Learn(r) PROVE CallInv'
  <2>1. UNCHANGED call
    BY <1>8 DEF Learn, storeVars
  <2>2. call[Self(r)] = NoCall
    BY <1>i, <1>8 DEF CallInv, Learn
  <2>3. \A q \in Chat \ {r} : /\ at'[q] = at[q] /\ message'[q] = message[q]
                            /\ draft'[q] = draft[q]
    BY <1>0, <1>8 DEF Learn, Enter, chatVars, WorkflowTypeOK
  <2>4. QED
    BY <1>i, <2>1, <2>2, <2>3 DEF CallInv
<1>9. ASSUME NEW r \in Chat, AppendSample(r) PROVE CallInv'
  <2>1. UNCHANGED call
    BY <1>9 DEF AppendSample, storeVars
  <2>2. call[Self(r)] = NoCall
    BY <1>i, <1>9 DEF CallInv, AppendSample
  <2>3. \A q \in Chat \ {r} : /\ at'[q] = at[q] /\ message'[q] = message[q]
                            /\ draft'[q] = draft[q]
    BY <1>0, <1>9 DEF AppendSample, Enter, chatVars, WorkflowTypeOK
  <2>4. QED
    BY <1>i, <2>1, <2>2, <2>3 DEF CallInv
<1>10. ASSUME NEW r \in Chat, Answer(r) PROVE CallInv'
  <2>1. UNCHANGED call
    BY <1>10 DEF Answer, storeVars
  <2>2. call[Self(r)] = NoCall
    BY <1>i, <1>10 DEF CallInv, Answer
  <2>3. \A q \in Chat \ {r} : /\ at'[q] = at[q] /\ message'[q] = message[q]
                            /\ draft'[q] = draft[q]
    BY <1>0, <1>10 DEF Answer, Ends, Enter, chatVars, WorkflowTypeOK
  <2>4. QED
    BY <1>i, <2>1, <2>2, <2>3 DEF CallInv
<1>11. ASSUME NEW r \in Chat, Fails(r) PROVE CallInv'
  <2>1. UNCHANGED call
    BY <1>11 DEF Fails, storeVars
  <2>2. call[Self(r)] = NoCall
    BY <1>i, <1>11 DEF CallInv, Fails
  <2>3. \A q \in Chat \ {r} : /\ at'[q] = at[q] /\ message'[q] = message[q]
                            /\ draft'[q] = draft[q]
    BY <1>0, <1>11 DEF Fails, Ends, Enter, chatVars, WorkflowTypeOK
  <2>4. QED
    BY <1>i, <2>1, <2>2, <2>3 DEF CallInv
<1>12. ASSUME NEW r \in Chat, HandlerStep(r) PROVE CallInv'
  <2>1. UNCHANGED <<at, chatVars>>
    BY <1>12 DEF HandlerStep
  <2>2. \E c : call' = [call EXCEPT ![Handler(r)] = c]
    BY <1>12 DEF HandlerStep, HandlerStarts, HandlerReturns, Return, SaveMemory,
                DeactivateMemory, Begin
  <2>3. \A q \in Chat : call'[Self(q)] = call[Self(q)]
    BY <1>h, <2>2
  <2>4. QED
    BY <1>i, <2>1, <2>3 DEF CallInv, chatVars
<1>13. ASSUME NEW t \in Thread, StoreStepOf(t) PROVE CallInv'
  <2>1. call[t] # NoCall /\ CallFrame(t) /\ UNCHANGED <<at, chatVars>>
    BY <1>0, <1>13, StoreStepFrame DEF StoreStepOf
  <2>2. PICK c \in Call : /\ call' = [call EXCEPT ![t] = c]
                          /\ c.op = call[t].op /\ c.memory = call[t].memory
                          /\ c.op = "save" => c.record = call[t].record
    BY <2>1 DEF CallFrame
  <2>3. QED
    BY <1>0, <1>t, <1>i, <2>1, <2>2 DEF CallInv, MemoryTypeOK, chatVars
<1>14. CASE Dies
  BY <1>14, <1>t DEF Dies, StoreDies, CallInv
<1>15. CASE UNCHANGED workflowVars
  BY <1>i, <1>15 DEF CallInv, AskedBy, workflowVars, storeVars, registryVars, chatVars
<1>16. QED
  BY <1>1, <1>2, <1>3, <1>4, <1>5,
     <1>6, <1>7, <1>8, <1>9, <1>10, <1>11, <1>12, <1>13, <1>14, <1>15 DEF Next, ChatStep

LEMMA CachedNext == IInv /\ [Next]_workflowVars => CachedToolWasDone'
<1> SUFFICES ASSUME IInv, [Next]_workflowVars PROVE CachedToolWasDone'
  OBVIOUS
<1> USE DEF CachedToolWasDone
<1>0. CachedToolWasDone /\ JobInv
  BY DEF IInv
<1>1. ASSUME NEW r \in Chat, NEW m \in Message, Receive(r, m) PROVE CachedToolWasDone'
  BY <1>0, <1>1 DEF Receive, Enter, registryVars
<1>2. ASSUME NEW r \in Chat, Retrieve(r) PROVE CachedToolWasDone'
  BY <1>0, <1>2 DEF Retrieve, Enter, registryVars
<1>3. ASSUME NEW r \in Chat, RouteTool(r) PROVE CachedToolWasDone'
  BY <1>0, <1>3 DEF RouteTool, Submit, Enter, registryVars
<1>4. ASSUME NEW r \in Chat, ToolEnds(r) PROVE CachedToolWasDone'
  BY <1>0, <1>4 DEF ToolEnds, ToolReturns, ToolTimesOut, JobInv
<1>5. ASSUME NEW r \in Chat, Reply(r) PROVE CachedToolWasDone'
  BY <1>0, <1>5 DEF Reply, Enter, registryVars
<1>6. ASSUME NEW r \in Chat, SaveTurn(r) PROVE CachedToolWasDone'
  BY <1>0, <1>6 DEF SaveTurn, registryVars
<1>7. ASSUME NEW r \in Chat, StoreReturns(r) PROVE CachedToolWasDone'
  BY <1>0, <1>7 DEF StoreReturns, Ends, Enter, registryVars
<1>8. ASSUME NEW r \in Chat, Learn(r) PROVE CachedToolWasDone'
  BY <1>0, <1>8 DEF Learn, Enter, registryVars
<1>9. ASSUME NEW r \in Chat, AppendSample(r) PROVE CachedToolWasDone'
  BY <1>0, <1>9 DEF AppendSample, Enter, registryVars
<1>10. ASSUME NEW r \in Chat, Answer(r) PROVE CachedToolWasDone'
  BY <1>0, <1>10 DEF Answer, Ends, Enter, registryVars
<1>11. ASSUME NEW r \in Chat, Fails(r) PROVE CachedToolWasDone'
  BY <1>0, <1>11 DEF Fails, Ends, Enter, registryVars
<1>12. ASSUME NEW r \in Chat, HandlerStep(r) PROVE CachedToolWasDone'
  BY <1>0, <1>12 DEF HandlerStep, HandlerStarts, HandlerReturns
<1>13. ASSUME NEW t \in Thread, StoreStepOf(t) PROVE CachedToolWasDone'
  BY <1>0, <1>13 DEF StoreStepOf, registryVars
<1>14. CASE Dies
  BY <1>0, <1>14 DEF Dies, RegistryDies
<1>15. CASE UNCHANGED workflowVars
  BY <1>0, <1>15 DEF workflowVars, storeVars, registryVars, chatVars
<1>16. QED
  BY <1>1, <1>2, <1>3, <1>4, <1>5,
     <1>6, <1>7, <1>8, <1>9, <1>10, <1>11, <1>12, <1>13, <1>14, <1>15 DEF Next, ChatStep

(* Only a step of a call writes the table, and what is in it stays.        *)
LEMMA RowsAreWritten ==
  ASSUME [Next]_workflowVars
  PROVE  (\E t \in Thread : StoreStepOf(t)) \/ UNCHANGED rows
BY DEF Next, ChatStep, workflowVars, storeVars, Receive, Retrieve, RouteTool, ToolEnds, Reply,
       SaveTurn, StoreReturns, Learn, AppendSample, Answer, Fails, HandlerStep, HandlerStarts,
       HandlerReturns, SaveMemory, DeactivateMemory, Return, Dies, StoreDies

LEMMA RowsStay ==
  ASSUME IInv, [Next]_workflowVars
  PROVE  \A k \in Memory : rows[k] # NoRecord => rows'[k] # NoRecord
<1>1. ASSUME NEW t \in Thread, StoreStepOf(t)
      PROVE  \A k \in Memory : rows[k] # NoRecord => rows'[k] # NoRecord
  BY <1>1, StoreStepFrame DEF StoreStepOf, IInv, RowFrame
<1>2. CASE UNCHANGED rows
  BY <1>2
<1>3. QED
  BY <1>1, <1>2, RowsAreWritten

LEMMA SafeNext == IInv /\ [Next]_workflowVars => KeptTurnsPassedSafety'
<1> SUFFICES ASSUME IInv, [Next]_workflowVars PROVE KeptTurnsPassedSafety'
  OBVIOUS
<1> USE DEF KeptTurnsPassedSafety, CleanInv
<1>0. KeptTurnsPassedSafety /\ CleanInv'
  BY StoreNext DEF IInv, StoreInv
<1>1. ASSUME NEW r \in Chat, NEW m \in Message, Receive(r, m) PROVE KeptTurnsPassedSafety'
  BY <1>0, <1>1 DEF Receive, Enter
<1>2. ASSUME NEW r \in Chat, Retrieve(r) PROVE KeptTurnsPassedSafety'
  BY <1>0, <1>2 DEF Retrieve, Enter
<1>3. ASSUME NEW r \in Chat, RouteTool(r) PROVE KeptTurnsPassedSafety'
  BY <1>0, <1>3 DEF RouteTool, Submit, Enter, registryVars
<1>4. ASSUME NEW r \in Chat, ToolEnds(r) PROVE KeptTurnsPassedSafety'
  BY <1>0, <1>4 DEF ToolEnds, ToolReturns, ToolTimesOut, Enter
<1>5. ASSUME NEW r \in Chat, Reply(r) PROVE KeptTurnsPassedSafety'
  BY <1>0, <1>5 DEF Reply, Enter
<1>6. ASSUME NEW r \in Chat, SaveTurn(r) PROVE KeptTurnsPassedSafety'
  BY <1>0, <1>6 DEF SaveTurn
<1>7. ASSUME NEW r \in Chat, StoreReturns(r) PROVE KeptTurnsPassedSafety'
  BY <1>0, <1>7 DEF StoreReturns, Ends, Enter
<1>8. ASSUME NEW r \in Chat, Learn(r) PROVE KeptTurnsPassedSafety'
  BY <1>0, <1>8 DEF Learn, Enter
<1>9. ASSUME NEW r \in Chat, AppendSample(r) PROVE KeptTurnsPassedSafety'
  <2>1. draft[r] \notin {"copied", "unsafe"}
    BY <1>9 DEF AppendSample, IInv, KeepInv, KeepOf
  <2>2. QED
    BY <1>0, <1>9, <2>1 DEF AppendSample
<1>10. ASSUME NEW r \in Chat, Answer(r) PROVE KeptTurnsPassedSafety'
  BY <1>0, <1>10 DEF Answer, Ends, Enter
<1>11. ASSUME NEW r \in Chat, Fails(r) PROVE KeptTurnsPassedSafety'
  BY <1>0, <1>11 DEF Fails, Ends, Enter
<1>12. ASSUME NEW r \in Chat, HandlerStep(r) PROVE KeptTurnsPassedSafety'
  BY <1>0, <1>12 DEF HandlerStep, HandlerStarts, HandlerReturns
<1>13. ASSUME NEW t \in Thread, StoreStepOf(t) PROVE KeptTurnsPassedSafety'
  BY <1>0, <1>13 DEF StoreStepOf
<1>14. CASE Dies
  BY <1>0, <1>14 DEF Dies, RegistryDies
<1>15. CASE UNCHANGED workflowVars
  BY <1>0, <1>15 DEF workflowVars, storeVars, registryVars, chatVars
<1>16. QED
  BY <1>1, <1>2, <1>3, <1>4, <1>5,
     <1>6, <1>7, <1>8, <1>9, <1>10, <1>11, <1>12, <1>13, <1>14, <1>15 DEF Next, ChatStep

(* The reply of one request, chosen and judged.                             *)
LEMMA ReplyChosen ==
  ASSUME NEW r \in Chat, Reply(r)
  PROVE  \E text \in Generated : \E v \in Assess(decision[r], WordsOf(message[r]), text) :
          /\ verdict' = [verdict EXCEPT ![r] = v]
          /\ IF Keeps(r, v)
               THEN draft' = [draft EXCEPT ![r] = SafeText(text)] /\ Enter(r, TurnParts(r, text))
               ELSE Enter(r, "answer") /\ UNCHANGED draft
BY DEF Reply

(* What the index holds of a memory stays, in some form.                   *)
LEMMA IndexStays ==
  ASSUME IInv, [Next]_workflowVars
  PROVE  \A k \in Memory : index[k] # NoRecord => index'[k] # NoRecord
<1>1. ASSUME NEW t \in Thread, Upsert(t)
      PROVE  \A k \in Memory : index[k] # NoRecord => index'[k] # NoRecord
  <2>1. call[t].record # NoRecord
    BY <1>1 DEF Upsert, IInv, StoreInv, StepInv
  <2>2. QED
    BY <1>1, <2>1 DEF Upsert, IInv, StoreInv, MemoryTypeOK
<1>2. (\E t \in Thread : Upsert(t)) \/ UNCHANGED index
  BY DEF Next, ChatStep, workflowVars, storeVars, Receive, Retrieve, RouteTool, ToolEnds, Reply,
         SaveTurn, StoreReturns, Learn, AppendSample, Answer, Fails, HandlerStep, HandlerStarts,
         HandlerReturns, SaveMemory, DeactivateMemory, Return, Dies, StoreDies, StoreStepOf,
         StoreStep, Insert, Require, Update, Reread, StoreFails, WriteRow
<1>3. QED
  BY <1>1, <1>2

(* A call of a request that saved a part of its turn did index it.         *)
LEMMA TurnIsSaved ==
  ASSUME IInv, NEW r \in Chat, call[Self(r)].step \in Result, call[Self(r)].step # "raised"
  PROVE  /\ at[r] = "save_user" => index[<<"chat-user", message[r]>>] # NoRecord
         /\ at[r] = "save_agent" => index[<<"chat-agent", message[r]>>] # NoRecord
<1> DEFINE c == call[Self(r)]
<1>1. Self(r) \in Thread /\ c # NoCall
  BY DEF Self, Thread, NoCall, Result
<1>2. ASSUME at[r] \in {"save_user", "save_agent"} PROVE index[c.memory] # NoRecord
  <2>1. c.op = "save"
    BY <1>1, <1>2 DEF IInv, CallInv
  <2>2. c.step = "saved"
    BY <1>1, <2>1 DEF IInv, StoreInv, StepInv, Result
  <2>3. QED
    BY <1>1, <2>2 DEF IInv, StoreInv, StepInv
<1>3. QED
  BY <1>1, <1>2 DEF IInv, CallInv

(* A request that does not move is still known to be what it was.          *)
LEMMA KeepStays ==
  ASSUME IInv, [Next]_workflowVars, NEW q \in Chat,
         at'[q] = at[q], message'[q] = message[q], decision'[q] = decision[q],
         draft'[q] = draft[q], verdict'[q] = verdict[q], answer'[q] = answer[q],
         \A s \in samples' \ samples : s.by # q
  PROVE  KeepOf(q)'
<1>1. KeepOf(q)
  BY DEF IInv, KeepInv
<1>2. Keeps(q, verdict[q])' = Keeps(q, verdict[q])
  BY DEF Keeps, IsAutoMemoryCandidate, AskedBy
<1>3. at[q] # "idle" => /\ UserPartKept(q) => UserPartKept(q)'
                        /\ AgentPartKept(q) => AgentPartKept(q)'
  <2>1. at[q] # "idle" => /\ <<"chat-user", message[q]>> \in Memory
                          /\ <<"chat-agent", message[q]>> \in Memory
    BY DEF IInv, AskInv, Memory
  <2>2. QED
    BY <2>1, IndexStays DEF UserPartKept, AgentPartKept
<1>4. QED
  BY <1>1, <1>2, <1>3 DEF KeepOf

LEMMA KeepNext == IInv /\ [Next]_workflowVars => KeepInv'
<1> SUFFICES ASSUME IInv, [Next]_workflowVars PROVE KeepInv'
  OBVIOUS
<1>0. WorkflowTypeOK /\ AskInv /\ KeepInv
  BY DEF IInv, TypeOK
<1>k. \A r \in Chat : KeepOf(r)
  BY <1>0 DEF KeepInv
<1>1. ASSUME NEW r \in Chat, NEW m \in Message, Receive(r, m) PROVE KeepInv'
  <2>1. KeepOf(r)'
    BY <1>0, <1>k, <1>1 DEF Receive, Enter, KeepOf, Keeps, WorkflowTypeOK
  <2>2. ASSUME NEW q \in Chat \ {r} PROVE KeepOf(q)'
    BY <1>0, <1>1, KeepStays DEF Receive, Enter, WorkflowTypeOK
  <2>3. QED
    BY <2>1, <2>2 DEF KeepInv
<1>2. ASSUME NEW r \in Chat, Retrieve(r) PROVE KeepInv'
  <2>1. CASE UNCHANGED at
    BY <1>2, <2>1, KeepStays DEF Retrieve, chatVars, KeepInv
  <2>2. CASE Enter(r, "tool")
    <3>1. KeepOf(r)'
      BY <1>0, <1>k, <1>2, <2>2 DEF Retrieve, Enter, KeepOf, WorkflowTypeOK, chatVars
    <3>2. ASSUME NEW q \in Chat \ {r} PROVE KeepOf(q)'
      BY <1>0, <1>2, <2>2, KeepStays DEF Retrieve, Enter, WorkflowTypeOK, chatVars
    <3>3. QED
      BY <3>1, <3>2 DEF KeepInv
  <2>3. QED
    BY <1>2, <2>1, <2>2 DEF Retrieve
<1>3. ASSUME NEW r \in Chat, RouteTool(r) PROVE KeepInv'
  <2>1. KeepOf(r)'
    BY <1>0, <1>k, <1>3 DEF RouteTool, Enter, KeepOf, WorkflowTypeOK, chatVars
  <2>2. ASSUME NEW q \in Chat \ {r} PROVE KeepOf(q)'
    BY <1>0, <1>3, KeepStays DEF RouteTool, Enter, WorkflowTypeOK, chatVars
  <2>3. QED
    BY <2>1, <2>2 DEF KeepInv
<1>4. ASSUME NEW r \in Chat, ToolEnds(r) PROVE KeepInv'
  <2>1. KeepOf(r)'
    BY <1>0, <1>k, <1>4 DEF ToolEnds, Enter, KeepOf, WorkflowTypeOK, chatVars
  <2>2. ASSUME NEW q \in Chat \ {r} PROVE KeepOf(q)'
    BY <1>0, <1>4, KeepStays DEF ToolEnds, Enter, WorkflowTypeOK, chatVars
  <2>3. QED
    BY <2>1, <2>2 DEF KeepInv
<1>5. ASSUME NEW r \in Chat, Reply(r) PROVE KeepInv'
  <2>0. PICK text \in Generated : \E v \in Assess(decision[r], WordsOf(message[r]), text) :
          /\ verdict' = [verdict EXCEPT ![r] = v]
          /\ IF Keeps(r, v)
               THEN draft' = [draft EXCEPT ![r] = SafeText(text)] /\ Enter(r, TurnParts(r, text))
               ELSE Enter(r, "answer") /\ UNCHANGED draft
    BY <1>5, ReplyChosen
  <2>1. PICK v \in Assess(decision[r], WordsOf(message[r]), text) :
          /\ verdict' = [verdict EXCEPT ![r] = v]
          /\ IF Keeps(r, v)
               THEN draft' = [draft EXCEPT ![r] = SafeText(text)] /\ Enter(r, TurnParts(r, text))
               ELSE Enter(r, "answer") /\ UNCHANGED draft
    BY <2>0
  <2>2. /\ at[r] = "reply" /\ verdict[r] = "none"
        /\ UNCHANGED <<index, message, decision, answer, samples>>
    BY <1>k, <1>5 DEF Reply, storeVars, KeepOf
  <2>3. Keeps(r, v)' = Keeps(r, v) /\ verdict'[r] = v
    BY <1>0, <2>1, <2>2 DEF Keeps, IsAutoMemoryCandidate, AskedBy, WorkflowTypeOK
  <2>a. answer'[r] = "none" /\ \A s \in samples' : s.by # r
    BY <1>k, <2>2 DEF KeepOf
  <2>4. KeepOf(r)'
    <3>1. CASE Keeps(r, v)
      <4>1. /\ draft'[r] = SafeText(text) /\ at'[r] = TurnParts(r, text)
            /\ SafeText(text) \in {"clean", "rewritten", "fallback", "blank"}
            /\ SafeText(text) = "blank" <=> text = "blank"
        BY <1>0, <2>1, <3>1 DEF Enter, WorkflowTypeOK, Keeps, Assess, SafeText, Generated
      <4>2. /\ at'[r] \in {"save_user", "save_agent", "learn"}
            /\ at'[r] = "save_user" => WordsOf(message[r]) # "blank"
            /\ at'[r] = "save_agent" => text # "blank"
            /\ at'[r] = "learn" => text = "blank"
            /\ at'[r] # "save_user" => WordsOf(message[r]) = "blank"
        BY <4>1 DEF TurnParts, AgentPart
      <4>3. /\ at'[r] # "save_user" => UserPartKept(r)'
            /\ at'[r] = "learn" => AgentPartKept(r)'
        BY <2>2, <4>1, <4>2 DEF UserPartKept, AgentPartKept
      <4>4. QED
        BY <2>2, <2>3, <2>a, <3>1, <4>1, <4>2, <4>3 DEF KeepOf
    <3>2. CASE ~Keeps(r, v)
      <4>1. at'[r] = "answer"
        BY <1>0, <2>1, <3>2 DEF Enter, WorkflowTypeOK
      <4>2. QED
        BY <2>2, <2>3, <2>a, <3>2, <4>1 DEF KeepOf
    <3>3. QED
      BY <3>1, <3>2
  <2>5. ASSUME NEW q \in Chat \ {r} PROVE KeepOf(q)'
    <3>1. at'[q] = at[q] /\ draft'[q] = draft[q] /\ verdict'[q] = verdict[q]
      BY <1>0, <2>1 DEF Enter, WorkflowTypeOK
    <3>2. QED
      BY <2>2, <3>1, KeepStays
  <2>6. QED
    BY <2>4, <2>5 DEF KeepInv
<1>6. ASSUME NEW r \in Chat, SaveTurn(r) PROVE KeepInv'
  BY <1>6, KeepStays DEF SaveTurn, chatVars, KeepInv
<1>7. ASSUME NEW r \in Chat, StoreReturns(r) PROVE KeepInv'
  <2>1. call[Self(r)] # NoCall /\ Self(r) \in Thread /\ call[Self(r)].step \in Result
    BY <1>7 DEF StoreReturns, NoCall, Result, Self, Thread
  <2>2. at[r] \in {"retrieve", "save_user", "save_agent"}
    BY <2>1 DEF IInv, CallInv
  <2>3. UNCHANGED <<index, chatVars, samples>>
    BY <1>7 DEF StoreReturns, Return
  <2>4. \/ answer' = [answer EXCEPT ![r] = "error"] /\ at' = [at EXCEPT ![r] = "done"]
        \/ /\ call[Self(r)].step # "raised" /\ UNCHANGED answer
           /\ \/ at[r] = "retrieve" /\ at' = [at EXCEPT ![r] = "tool"]
              \/ at[r] = "save_user" /\ at' = [at EXCEPT ![r] = AgentPart(draft[r])]
              \/ at[r] = "save_agent" /\ at' = [at EXCEPT ![r] = "learn"]
    BY <1>7, <2>2 DEF StoreReturns, Ends, Enter
  <2>5. call[Self(r)].step # "raised" =>
          /\ at[r] = "save_user" => index'[<<"chat-user", message[r]>>] # NoRecord
          /\ at[r] = "save_agent" => index'[<<"chat-agent", message[r]>>] # NoRecord
    BY <2>1, <2>3, TurnIsSaved
  <2>6. Keeps(r, verdict[r])' = Keeps(r, verdict[r])
    BY <2>3 DEF Keeps, IsAutoMemoryCandidate, AskedBy, chatVars
  <2>7. KeepOf(r)'
    <3>1. CASE at'[r] = "done"
      BY <1>0, <1>k, <2>2, <2>3, <2>4, <3>1 DEF KeepOf, WorkflowTypeOK, chatVars, AgentPart
    <3>2. CASE at[r] = "retrieve" /\ at'[r] = "tool"
      BY <1>0, <1>k, <2>3, <2>4, <3>2 DEF KeepOf, WorkflowTypeOK, chatVars
    <3>3. CASE at[r] = "save_user" /\ at'[r] = AgentPart(draft[r])
      <4>1. call[Self(r)].step # "raised" /\ UNCHANGED answer
        BY <1>0, <2>4, <3>3 DEF AgentPart, WorkflowTypeOK
      <4>2. UserPartKept(r)' /\ (draft[r] = "blank" => AgentPartKept(r)')
        BY <2>3, <2>5, <3>3, <4>1 DEF UserPartKept, AgentPartKept, chatVars
      <4>3. QED
        BY <1>k, <2>3, <2>6, <3>3, <4>1, <4>2 DEF KeepOf, AgentPart, chatVars
    <3>4. CASE at[r] = "save_agent" /\ at'[r] = "learn"
      <4>1. call[Self(r)].step # "raised" /\ UNCHANGED answer
        BY <1>0, <2>4, <3>4 DEF WorkflowTypeOK
      <4>2. AgentPartKept(r)' /\ (UserPartKept(r) => UserPartKept(r)')
        BY <2>3, <2>5, <3>4, <4>1 DEF UserPartKept, AgentPartKept, chatVars
      <4>3. QED
        BY <1>k, <2>3, <2>6, <3>4, <4>1, <4>2 DEF KeepOf, chatVars
    <3>5. QED
      BY <1>0, <2>4, <3>1, <3>2, <3>3, <3>4 DEF WorkflowTypeOK
  <2>8. ASSUME NEW q \in Chat \ {r} PROVE KeepOf(q)'
    <3>1. at'[q] = at[q] /\ answer'[q] = answer[q]
      BY <1>0, <2>4 DEF WorkflowTypeOK
    <3>2. QED
      BY <2>3, <3>1, KeepStays DEF chatVars
  <2>9. QED
    BY <2>7, <2>8 DEF KeepInv
<1>8. ASSUME NEW r \in Chat, Learn(r) PROVE KeepInv'
  <2>1. KeepOf(r)'
    <3>1. UNCHANGED <<index, chatVars>>
      BY <1>8 DEF Learn, storeVars
    <3>2. /\ Keeps(r, verdict[r])' = Keeps(r, verdict[r])
          /\ UserPartKept(r)' = UserPartKept(r) /\ AgentPartKept(r)' = AgentPartKept(r)
      BY <3>1 DEF Keeps, IsAutoMemoryCandidate, AskedBy, UserPartKept, AgentPartKept, chatVars
    <3>3. QED
      BY <1>0, <1>k, <1>8, <3>1, <3>2 DEF Learn, Enter, KeepOf, WorkflowTypeOK, chatVars
  <2>2. ASSUME NEW q \in Chat \ {r} PROVE KeepOf(q)'
    BY <1>0, <1>8, KeepStays DEF Learn, Enter, WorkflowTypeOK, chatVars
  <2>3. QED
    BY <2>1, <2>2 DEF KeepInv
<1>9. ASSUME NEW r \in Chat, AppendSample(r) PROVE KeepInv'
  <2>1. KeepOf(r)'
    <3>1. UNCHANGED <<index, chatVars>>
      BY <1>9 DEF AppendSample, storeVars
    <3>2. /\ Keeps(r, verdict[r])' = Keeps(r, verdict[r])
          /\ UserPartKept(r)' = UserPartKept(r) /\ AgentPartKept(r)' = AgentPartKept(r)
      BY <3>1 DEF Keeps, IsAutoMemoryCandidate, AskedBy, UserPartKept, AgentPartKept, chatVars
    <3>3. QED
      <4>1. /\ at[r] = "append" /\ verdict[r] = "send" /\ answer[r] = "none"
            /\ UserPartKept(r) /\ AgentPartKept(r)
        BY <1>k, <1>9 DEF AppendSample, KeepOf, Keeps
      <4>2. at'[r] = "answer" /\ answer'[r] = "none" /\ verdict'[r] = "send"
        BY <1>0, <1>9, <3>1, <4>1 DEF AppendSample, Enter, WorkflowTypeOK, chatVars
      <4>3. QED
        BY <3>2, <4>1, <4>2 DEF KeepOf
  <2>2. ASSUME NEW q \in Chat \ {r} PROVE KeepOf(q)'
    BY <1>0, <1>9, KeepStays DEF AppendSample, Enter, WorkflowTypeOK, chatVars
  <2>3. QED
    BY <2>1, <2>2 DEF KeepInv
<1>10. ASSUME NEW r \in Chat, Answer(r) PROVE KeepInv'
  <2>1. KeepOf(r)'
    <3>1. UNCHANGED <<index, chatVars>>
      BY <1>10 DEF Answer, storeVars
    <3>2. /\ Keeps(r, verdict[r])' = Keeps(r, verdict[r])
          /\ UserPartKept(r)' = UserPartKept(r) /\ AgentPartKept(r)' = AgentPartKept(r)
      BY <3>1 DEF Keeps, IsAutoMemoryCandidate, AskedBy, UserPartKept, AgentPartKept, chatVars
    <3>3. QED
      BY <1>0, <1>k, <1>10, <3>1, <3>2 DEF Answer, Enter, KeepOf, WorkflowTypeOK, chatVars, Ends, AskInv
  <2>2. ASSUME NEW q \in Chat \ {r} PROVE KeepOf(q)'
    BY <1>0, <1>10, KeepStays DEF Answer, Enter, WorkflowTypeOK, Ends, chatVars
  <2>3. QED
    BY <2>1, <2>2 DEF KeepInv
<1>11. ASSUME NEW r \in Chat, Fails(r) PROVE KeepInv'
  <2>1. KeepOf(r)'
    <3>1. UNCHANGED <<index, chatVars>>
      BY <1>11 DEF Fails, storeVars
    <3>2. /\ Keeps(r, verdict[r])' = Keeps(r, verdict[r])
          /\ UserPartKept(r)' = UserPartKept(r) /\ AgentPartKept(r)' = AgentPartKept(r)
      BY <3>1 DEF Keeps, IsAutoMemoryCandidate, AskedBy, UserPartKept, AgentPartKept, chatVars
    <3>3. QED
      BY <1>0, <1>k, <1>11, <3>1, <3>2 DEF Fails, Enter, KeepOf, WorkflowTypeOK, chatVars, Ends
  <2>2. ASSUME NEW q \in Chat \ {r} PROVE KeepOf(q)'
    BY <1>0, <1>11, KeepStays DEF Fails, Enter, WorkflowTypeOK, Ends, chatVars
  <2>3. QED
    BY <2>1, <2>2 DEF KeepInv
<1>12. ASSUME NEW r \in Chat, HandlerStep(r) PROVE KeepInv'
  BY <1>12, KeepStays DEF HandlerStep, chatVars, KeepInv
<1>13. ASSUME NEW t \in Thread, StoreStepOf(t) PROVE KeepInv'
  BY <1>13, KeepStays DEF StoreStepOf, chatVars, KeepInv
<1>14. CASE Dies
  BY <1>0, <1>k, <1>14 DEF Dies, chatVars, KeepInv, KeepOf, WorkflowTypeOK
<1>15. CASE UNCHANGED workflowVars
  BY <1>15, KeepStays DEF workflowVars, chatVars, KeepInv
<1>16. QED
  BY <1>1, <1>2, <1>3, <1>4, <1>5,
     <1>6, <1>7, <1>8, <1>9, <1>10, <1>11, <1>12, <1>13, <1>14, <1>15 DEF Next, ChatStep

(* Whose call it is that writes a reply into the table.                     *)
LEMMA ReplyIsWritten ==
  ASSUME IInv, NEW t \in Thread, StoreStep(t), NEW m \in Message, call[t].op = "save",
         call[t].memory = <<"chat-agent", m>>
  PROVE  \E r \in Chat : /\ at[r] = "save_agent" /\ message[r] = m
                         /\ call[t].record.text = draft[r]
<1>1. call[t] # NoCall
  BY StoreStepFrame DEF IInv
<1>2. PICK r \in Chat : t = Self(r) \/ t = Handler(r)
  BY DEF Thread, Self, Handler
<1>3. t # Handler(r)
  BY DEF IInv, HandlerInv
<1>4. t = Self(r)
  BY <1>2, <1>3
<1>5. at[r] = "save_agent" /\ call[t].memory = <<"chat-agent", message[r]>>
      /\ call[t].record.text = draft[r]
  BY <1>1, <1>4 DEF IInv, CallInv
<1>6. QED
  BY <1>5

(* A request whose reply may be sent keeps its message, verdict and draft.  *)
LEMMA SentStays ==
  ASSUME IInv, [Next]_workflowVars, NEW q \in Chat, verdict[q] = "send"
  PROVE  /\ verdict'[q] = "send" /\ message'[q] = message[q] /\ draft'[q] = draft[q]
         /\ PolicyMode = "rule" => answer'[q] # "silent"
<1>0. WorkflowTypeOK /\ KeepInv
  BY DEF IInv, TypeOK
<1>1. PolicyMode = "rule" /\ verdict'[q] = "send" => answer'[q] # "silent"
  BY KeepNext DEF IInv, KeepInv, KeepOf
<1>2. CASE \E r \in Chat : \E m \in Message : Receive(r, m)
  BY <1>0, <1>1, <1>2 DEF Receive, KeepInv, KeepOf, WorkflowTypeOK
<1>3. CASE \E r \in Chat : Reply(r)
  <2>1. PICK r \in Chat : Reply(r)
    BY <1>3
  <2>2. r # q
    BY <1>0, <2>1 DEF Reply, KeepInv, KeepOf
  <2>3. UNCHANGED message /\ verdict'[q] = verdict[q] /\ draft'[q] = draft[q]
    BY <1>0, <2>1, <2>2 DEF Reply, WorkflowTypeOK
  <2>4. QED
    BY <1>1, <2>3
<1>4. CASE UNCHANGED <<message, draft, verdict>>
  BY <1>1, <1>4
<1>5. QED
  BY <1>2, <1>3, <1>4 DEF Next, ChatStep, workflowVars, chatVars, Retrieve, RouteTool, ToolEnds,
     SaveTurn, StoreReturns, Learn, AppendSample, Answer, Fails, HandlerStep, StoreStepOf, Dies

LEMMA SentNext == IInv /\ [Next]_workflowVars => TurnIsKeptWhole'
<1> SUFFICES ASSUME IInv, [Next]_workflowVars PROVE TurnIsKeptWhole'
  OBVIOUS
<1>0. TurnIsKeptWhole /\ WorkflowTypeOK /\ MemoryTypeOK /\ MemoryTypeOK'
  BY StoreNext DEF IInv, TypeOK, StoreInv
<1>k. \A r \in Chat : KeepOf(r) /\ KeepOf(r)'
  BY KeepNext DEF IInv, KeepInv
<1>m. \A m \in Message : <<"chat-user", m>> \in Memory /\ <<"chat-agent", m>> \in Memory
  BY DEF Memory
<1>1. ASSUME NEW m \in Message, rows'[<<"chat-agent", m>>] # NoRecord
      PROVE  /\ WordsOf(m) # "blank" => rows'[<<"chat-user", m>>] # NoRecord
             /\ AskOf(m).kind # "group"
             /\ \E r \in Chat : /\ message'[r] = m /\ verdict'[r] = "send"
                                /\ PolicyMode = "rule" => answer'[r] # "silent"
                                /\ draft'[r] = rows'[<<"chat-agent", m>>].text
  <2> DEFINE k == <<"chat-agent", m>>
  <2>1. CASE rows'[k].text = rows[k].text
    <3>1. rows[k] # NoRecord
      <4>1. rows'[k] \in Record
        BY <1>0, <1>1, <1>m DEF MemoryTypeOK
      <4>2. rows'[k].text # "none"
        BY <4>1 DEF Record, Kept
      <4>3. rows[k].text # "none"
        BY <4>2, <2>1
      <4>4. QED
        BY <4>3 DEF NoRecord
    <3>2. PICK r \in Chat : /\ message[r] = m /\ verdict[r] = "send"
                            /\ draft[r] = rows[k].text
      BY <1>0, <3>1 DEF TurnIsKeptWhole
    <3>3. /\ WordsOf(m) # "blank" => rows[<<"chat-user", m>>] # NoRecord
          /\ AskOf(m).kind # "group"
      BY <1>0, <3>1 DEF TurnIsKeptWhole
    <3>4. WordsOf(m) # "blank" => rows'[<<"chat-user", m>>] # NoRecord
      BY <1>m, <3>3, RowsStay
    <3>5. QED
      BY <2>1, <3>2, <3>3, <3>4, SentStays
  <2>2. CASE \E t \in Thread : StoreStepOf(t) /\ rows'[k].text # rows[k].text
    <3>1. PICK t \in Thread : StoreStepOf(t) /\ rows'[k].text # rows[k].text
      BY <2>2
    <3>2. k = call[t].memory /\ call[t].op = "save" /\ rows'[k] = call[t].record
      BY <1>m, <3>1, StoreStepFrame DEF IInv, StoreStepOf, RowFrame
    <3>3. PICK r \in Chat : /\ at[r] = "save_agent" /\ message[r] = m
                            /\ call[t].record.text = draft[r]
      BY <3>1, <3>2, ReplyIsWritten DEF StoreStepOf
    <3>4. /\ verdict[r] = "send" /\ AskOf(m).kind # "group"
          /\ WordsOf(m) # "blank" => rows[<<"chat-user", m>>] # NoRecord
      <4>1. Keeps(r, verdict[r]) /\ UserPartKept(r)
        BY <1>k, <3>3 DEF KeepOf
      <4>2. index[<<"chat-user", m>>] # NoRecord => rows[<<"chat-user", m>>] # NoRecord
        BY <1>m DEF IInv, StoreInv, IndexedWasStored
      <4>3. QED
        BY <3>3, <4>1, <4>2 DEF Keeps, IsAutoMemoryCandidate, AskedBy, UserPartKept
    <3>5. WordsOf(m) # "blank" => rows'[<<"chat-user", m>>] # NoRecord
      BY <1>m, <3>4, RowsStay
    <3>6. QED
      BY <3>2, <3>3, <3>4, <3>5, SentStays
  <2>3. (\E t \in Thread : StoreStepOf(t)) \/ UNCHANGED rows
    BY RowsAreWritten
  <2>4. QED
    BY <2>1, <2>2, <2>3
<1>2. ASSUME NEW s \in samples'
      PROVE  rows'[<<"chat-agent", s.message>>] # NoRecord /\ s.text = draft'[s.by]
  <2>1. CASE s \in samples
    <3>1. s.by \in Chat /\ s.message \in Message
      BY <1>0, <2>1 DEF WorkflowTypeOK
    <3>2. rows[<<"chat-agent", s.message>>] # NoRecord /\ s.text = draft[s.by]
          /\ verdict[s.by] = "send"
      BY <1>0, <1>k, <2>1, <3>1 DEF TurnIsKeptWhole, KeepOf
    <3>3. QED
      BY <1>m, <3>1, <3>2, RowsStay, SentStays
  <2>2. CASE \E r \in Chat : AppendSample(r) /\ s \notin samples
    <3>1. PICK r \in Chat : AppendSample(r) /\ s \notin samples
      BY <2>2
    <3>2. s = [by |-> r, message |-> message[r], text |-> draft[r]] /\ UNCHANGED <<rows, draft>>
      BY <1>2, <3>1 DEF AppendSample, storeVars, chatVars
    <3>3. rows[<<"chat-agent", message[r]>>] # NoRecord
      <4>1. AgentPartKept(r) /\ draft[r] # "blank" /\ message[r] \in Message
        BY <1>k, <3>1 DEF AppendSample, KeepOf, IInv, AskInv
      <4>2. QED
        BY <1>m, <4>1 DEF AgentPartKept, IInv, StoreInv, IndexedWasStored
    <3>4. QED
      BY <3>2, <3>3
  <2>3. (\E r \in Chat : AppendSample(r)) \/ UNCHANGED samples
    BY DEF Next, ChatStep, workflowVars, Receive, Retrieve, RouteTool, ToolEnds, Reply, SaveTurn,
       StoreReturns, Learn, Answer, Fails, HandlerStep, StoreStepOf, Dies
  <2>4. QED
    BY <1>2, <2>1, <2>2, <2>3
<1>3. ASSUME NEW r \in Chat, answer'[r] = "send", IsAutoMemoryCandidate(r)'
      PROVE  UserPartKept(r)' /\ AgentPartKept(r)'
  <2>1. CASE answer[r] = "send"
    <3>1. /\ verdict[r] = "send" /\ at[r] # "idle"
          /\ verdict'[r] = "send" /\ message'[r] = message[r] /\ draft'[r] = draft[r]
      BY <1>k, <2>1, SentStays DEF KeepOf
    <3>2. decision'[r] = decision[r]
      BY <1>0, <3>1 DEF Next, ChatStep, workflowVars, chatVars, WorkflowTypeOK, Receive, Retrieve,
         RouteTool, ToolEnds, Reply, SaveTurn, StoreReturns, Learn, AppendSample, Answer, Fails,
         HandlerStep, StoreStepOf, Dies
    <3>3. UserPartKept(r) /\ AgentPartKept(r)
      BY <1>0, <1>3, <2>1, <3>1, <3>2 DEF TurnIsKeptWhole, IsAutoMemoryCandidate, AskedBy
    <3>4. message[r] \in Message
      BY <3>1 DEF IInv, AskInv
    <3>5. QED
      BY <1>m, <3>1, <3>3, <3>4, IndexStays DEF UserPartKept, AgentPartKept
  <2>2. CASE answer[r] # "send"
    <3>1. Answer(r)
      BY <1>0, <1>3, <2>2 DEF Next, ChatStep, workflowVars, chatVars, WorkflowTypeOK, Receive, Ends,
         Retrieve, RouteTool, ToolEnds, Reply, SaveTurn, StoreReturns, Learn, AppendSample, Answer,
         Fails, HandlerStep, StoreStepOf, Dies
    <3>2. at[r] = "answer" /\ UNCHANGED <<index, chatVars>>
      BY <3>1 DEF Answer, storeVars
    <3>3. verdict[r] = "send" /\ IsAutoMemoryCandidate(r)
      BY <1>0, <1>3, <3>1, <3>2 DEF Answer, Ends, WorkflowTypeOK, IsAutoMemoryCandidate, AskedBy,
         chatVars
    <3>4. UserPartKept(r) /\ AgentPartKept(r)
      BY <1>k, <3>2, <3>3 DEF KeepOf, Keeps
    <3>5. QED
      BY <3>2, <3>4 DEF UserPartKept, AgentPartKept, chatVars
  <2>3. QED
    BY <2>1, <2>2
<1>4. QED
  BY <1>1, <1>2, <1>3 DEF TurnIsKeptWhole

-----------------------------------------------------------------------------
LEMMA IInvHolds == Spec => []IInv
<1>1. Init => IInv
  BY InitIInv
<1>2. IInv /\ [Next]_workflowVars => IInv'
  <2> SUFFICES ASSUME IInv, [Next]_workflowVars PROVE IInv'
    OBVIOUS
  <2>1. StoreInv' /\ RegistryTypeOK' /\ WorkflowTypeOK'
    BY StoreNext, RegistryNext, RequestsNext
  <2>2. AskInv' /\ JobInv' /\ HandlerInv' /\ CallInv' /\ KeepInv'
    BY AskNext, JobNext, HandlerNext, CallNext, KeepNext
  <2>3. CachedToolWasDone' /\ KeptTurnsPassedSafety' /\ TurnIsKeptWhole'
    BY CachedNext, SafeNext, SentNext
  <2>4. QED
    BY <2>1, <2>2, <2>3 DEF IInv, TypeOK, StoreInv
<1>3. QED
  BY <1>1, <1>2, PTL DEF Spec

(* Stores, registry and requests are well typed.                           *)
THEOREM TypeCorrect == Spec => []TypeOK
<1>1. IInv => TypeOK
  BY DEF IInv
<1>2. QED
  BY <1>1, IInvHolds, PTL

(* Whatever can be retrieved is in the table.                              *)
THEOREM IndexedWasStoredSafe == Spec => []IndexedWasStored
<1>1. IInv => IndexedWasStored
  BY DEF IInv, StoreInv
<1>2. QED
  BY <1>1, IInvHolds, PTL

(* Table and index agree wherever calls did not overlap or stop halfway.   *)
THEOREM StoresAgreeSafe == Spec => []StoresAgree
<1>1. IInv => StoresAgree
  BY DEF IInv, StoreInv, AgreeInv, StoresAgree
<1>2. QED
  BY <1>1, IInvHolds, PTL

(* A tool call answered from the cache was done.                           *)
THEOREM CachedToolWasDoneSafe == Spec => []CachedToolWasDone
<1>1. IInv => CachedToolWasDone
  BY DEF IInv
<1>2. QED
  BY <1>1, IInvHolds, PTL

(* Nothing the safety check objects to is kept unasked, or learned.        *)
THEOREM KeptTurnsPassedSafetySafe == Spec => []KeptTurnsPassedSafety
<1>1. IInv => KeptTurnsPassedSafety
  BY DEF IInv
<1>2. QED
  BY <1>1, IInvHolds, PTL

(* A turn is kept whole, and what is kept and what is sent go together.    *)
THEOREM TurnIsKeptWholeSafe == Spec => []TurnIsKeptWhole
<1>1. IInv => TurnIsKeptWhole
  BY DEF IInv
<1>2. QED
  BY <1>1, IInvHolds, PTL

(* A forgotten memory is retrieved again only through a save of a request  *)
(* under way, or of a tool that timed out, that wrote the row last.        *)
THEOREM OnlyASaveBringsBackSafe == Spec => OnlyASaveBringsBack
<1> DEFINE A == \A k \in Memory \ overlapped' :
       (index[k] # NoRecord /\ ~index[k].active /\ index'[k].active) =>
         /\ rows[k].active
         /\ \E t \in Thread : /\ call[t].memory = k /\ call[t].op = "save"
                              /\ at[t[1]] # "done" \/ job[t[1]] = "abandoned"
<1>1. IInv /\ [Next]_workflowVars => [A]_workflowVars
  <2> SUFFICES ASSUME IInv, [Next]_workflowVars, NEW k \in Memory \ overlapped',
                      index[k] # NoRecord, ~index[k].active, index'[k].active
               PROVE  /\ rows[k].active
                      /\ \E t \in Thread : /\ call[t].memory = k /\ call[t].op = "save"
                                           /\ at[t[1]] # "done" \/ job[t[1]] = "abandoned"
    OBVIOUS
  <2>1. PICK t \in Thread : Upsert(t)
    BY DEF Next, ChatStep, workflowVars, storeVars, Receive, Retrieve, RouteTool, ToolEnds, Reply,
           SaveTurn, StoreReturns, Learn, AppendSample, Answer, Fails, HandlerStep, HandlerStarts,
           HandlerReturns, SaveMemory, DeactivateMemory, Return, Dies, StoreDies, StoreStepOf,
           StoreStep, Insert, Require, Update, Reread, StoreFails, WriteRow
  <2>2. k = call[t].memory /\ index'[k] = call[t].record /\ k \notin overlapped
    BY <2>1 DEF Upsert, IInv, StoreInv, MemoryTypeOK
  <2>3. call[t].record = rows[k]
    BY <2>1, <2>2 DEF Upsert, IInv, StoreInv, AgreeInv
  <2>4. rows[k].active
    BY <2>2, <2>3
  <2>5. call[t] # NoCall /\ call[t].op \in {"save", "deactivate"}
    BY <2>1 DEF Upsert, NoCall, IInv, StoreInv, MemoryTypeOK, Call
  <2>6. call[t].op = "save"
    BY <2>1, <2>2, <2>4, <2>5 DEF Upsert, Unindexed, IInv, StoreInv, AgreeInv
  <2>7. at[t[1]] # "done" \/ job[t[1]] = "abandoned"
    <3>1. PICK r \in Chat : t = Self(r) \/ t = Handler(r)
      BY DEF Thread, Self, Handler
    <3>2. t[1] = r
      BY <3>1 DEF Self, Handler
    <3>3. CASE t = Self(r)
      BY <2>5, <3>2, <3>3 DEF IInv, CallInv
    <3>4. CASE t = Handler(r)
      <4>1. job[r] \in {"running", "abandoned"}
        BY <2>5, <3>4 DEF IInv, HandlerInv
      <4>2. QED
        BY <3>2, <4>1 DEF IInv, JobInv
    <3>5. QED
      BY <3>1, <3>3, <3>4
  <2>8. QED
    BY <2>2, <2>4, <2>6, <2>7
<1>2. QED
  BY <1>1, IInvHolds, PTL DEF Spec, OnlyASaveBringsBack
=============================================================================
