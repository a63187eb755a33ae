---------------------------- MODULE AgentWorkflow ----------------------------
(***************************************************************************)
(* POST /chat (agent_service/workflow/graph.py): dialogue policy, context, *)
(* tools, generation, safety check and the final command, of several       *)
(* requests at a time, each in a thread of its own.  They share the        *)
(* memories, the tools' idempotency cache and the file of style samples.   *)
(* The bot may ask again for a message, e.g. after it was restarted.       *)
(*                                                                         *)
(* All is about one user.  The nodes without shared state are one action   *)
(* with the node before them; the review itself is in HumanReview.         *)
(***************************************************************************)
EXTENDS ToolRegistry

CONSTANTS
  PolicyMode,  \* DIALOGUE_POLICY_MODE: "rule" or "llm"
  AskOf(_)     \* what a message asks for

(* Talk of some kind, unsafe talk, talk in a group, and orders.            *)
Ask ==
  [kind : {"talk", "unsafe", "group", "remember"}]
    \cup [kind : {"forget"}, memory : Memory]
    \cup [kind : {"tool"}, payload : Payload]

ASSUME WorkflowAssumption ==
  /\ PolicyMode \in {"rule", "llm"}
  /\ \A m \in Message : /\ AskOf(m) \in Ask
                        /\ WordsOf(m) = "blank" => AskOf(m).kind \in {"talk", "group"}

VARIABLES
  at,        \* the node a request is in, or its next store or file access
  message,   \* the message it is made for
  decision,  \* DialogueDecision
  draft,     \* text of a reply that is kept, after the safety check
  verdict,   \* of the safety check
  answer,    \* the command it is answered with
  samples    \* style samples learned from replies

chatVars == <<message, decision, draft, verdict>>
workflowVars == <<storeVars, registryVars, at, chatVars, answer, samples>>

Node == {"idle", "retrieve", "tool", "tool_wait", "reply", "save_user", "save_agent",
         "learn", "append", "answer", "done"}
(* What is held is blocked, or left to a human.                            *)
Verdict == {"none", "send", "hold"}

NoMessage == <<>>

(* "order" stands for the intents whose turns are not kept. *)
Decision == [intent : {"talk", "order", "unsafe"}, reply : BOOLEAN,
             memory : BOOLEAN, tool : BOOLEAN, review : BOOLEAN]
NoDecision == [intent |-> "order", reply |-> FALSE, memory |-> FALSE, tool |-> FALSE,
               review |-> FALSE]

WorkflowTypeOK ==
  /\ at \in [Chat -> Node]
  /\ message \in [Chat -> Message \cup {NoMessage}]
  /\ decision \in [Chat -> Decision]
  /\ draft \in [Chat -> Kept \cup {"none", "blank"}]
  /\ verdict \in [Chat -> Verdict]
  /\ answer \in [Chat -> {"none", "send", "silent", "error"}]
  /\ samples \subseteq [by : Chat, message : Message, text : Kept]

Init ==
  /\ MemoryInit /\ RegistryInit
  /\ at = [r \in Chat |-> "idle"]
  /\ message = [r \in Chat |-> NoMessage]
  /\ decision = [r \in Chat |-> NoDecision]
  /\ draft = [r \in Chat |-> "none"]
  /\ verdict = [r \in Chat |-> "none"]
  /\ answer = [r \in Chat |-> "none"]
  /\ samples = {}

-----------------------------------------------------------------------------
Self(r) == <<r, "chat">>
AskedBy(r) == AskOf(message[r])
Enter(r, node) == at' = [at EXCEPT ![r] = node]

(* _rule_decision, which also is the fallback of the other mode.           *)
RuleDecision(ask) ==
  [intent |-> CASE ask.kind = "unsafe" -> "unsafe"
                [] ask.kind \in {"remember", "forget", "tool"} -> "order"
                [] OTHER -> "talk",
   reply  |-> ask.kind # "group",
   memory |-> ask.kind \in {"remember", "forget"},
   tool   |-> ask.kind = "tool",
   review |-> ask.kind = "unsafe"]

(* A model may decide anything; what nothing will read is left out.        *)
Decisions(ask) ==
  IF PolicyMode = "rule" THEN {RuleDecision(ask)}
  ELSE {NoDecision} \cup
       {d \in Decision : /\ d.reply
                         /\ d.memory => ask.kind \in {"remember", "forget"}
                         /\ d.tool => ask.kind = "tool"}

Receive(r, m) ==
  /\ at[r] = "idle"
  /\ message' = [message EXCEPT ![r] = m]
  /\ \E d \in Decisions(AskOf(m)) :
       /\ decision' = [decision EXCEPT ![r] = d]
       /\ Enter(r, IF d.reply THEN "retrieve" ELSE "answer")
  /\ UNCHANGED <<storeVars, registryVars, draft, verdict, answer, samples>>

-----------------------------------------------------------------------------
(* _retrieve_context: only orders to remember or forget change anything.   *)
Retrieve(r) ==
  /\ at[r] = "retrieve" /\ call[Self(r)] = NoCall
  /\ LET kind == IF decision[r].memory THEN AskedBy(r).kind ELSE "none" IN
       \/ /\ kind = "remember"
          /\ SaveMemory(Self(r), <<"mem", message[r]>>, WordsOf(message[r]))
          /\ UNCHANGED at
       \/ /\ kind = "forget"
          /\ DeactivateMemory(Self(r), AskedBy(r).memory)
          /\ UNCHANGED at
       \/ /\ kind \notin {"remember", "forget"}
          /\ Enter(r, "tool")
          /\ UNCHANGED storeVars
  /\ UNCHANGED <<registryVars, chatVars, answer, samples>>

(* Mutant: the turn is kept before there is a reply.                       *)
RouteToolKeeps(r) ==
  /\ at[r] = "tool"
  /\ IF decision[r].tool /\ ~Cached(AskedBy(r).payload)
       THEN Submit(r, AskedBy(r).payload) /\ Enter(r, "tool_wait")
       ELSE Enter(r, "save_user") /\ UNCHANGED registryVars
  /\ UNCHANGED <<storeVars, chatVars, answer, samples>>
(* _tool_router *)
RouteTool(r) ==
  /\ at[r] = "tool"
  /\ IF decision[r].tool /\ ~Cached(AskedBy(r).payload)
       THEN Submit(r, AskedBy(r).payload) /\ Enter(r, "tool_wait")
       ELSE Enter(r, "reply") /\ UNCHANGED registryVars
  /\ UNCHANGED <<storeVars, chatVars, answer, samples>>

ToolEnds(r) ==
  /\ at[r] = "tool_wait"
  /\ ToolReturns(r, AskedBy(r).payload) \/ ToolTimesOut(r, AskedBy(r).payload)
  /\ Enter(r, "reply")
  /\ UNCHANGED <<storeVars, chatVars, answer, samples>>

-----------------------------------------------------------------------------
(* A model's text, or the fixed one after all retries failed.              *)
Generated == {"clean", "blank", "copied", "unsafe", "fallback"}

(* Mutant: only the draft is looked at.                                    *)
AssessDraft(d, words, text) ==
  IF d.intent = "unsafe" \/ text = "unsafe" THEN {"hold"} ELSE {"send", "hold"}
(* SafetyGuard.assess, of the draft and of the words it replies to, which  *)
(* are reason enough to hold it, as is what the user wants.                *)
Assess(d, words, text) ==
  IF d.intent = "unsafe" \/ words = "objected" \/ text = "unsafe" THEN {"hold"}
  ELSE {"send", "hold"}

(* A draft that copies a style sample is replaced.                         *)
SafeText(text) == IF text = "copied" THEN "rewritten" ELSE text

(* _is_auto_memory_candidate *)
IsAutoMemoryCandidate(r) ==
  AskedBy(r).kind # "group" /\ decision[r].intent = "talk"

(* Mutant: a turn is kept whatever the verdict.                            *)
KeepsAny(r, v) == IsAutoMemoryCandidate(r)
(* Only what is sent at once is kept.                                      *)
Keeps(r, v) == v = "send" /\ IsAutoMemoryCandidate(r)

(* A blank text is not kept.                                               *)
AgentPart(text) == IF text = "blank" THEN "learn" ELSE "save_agent"
(* Where keeping a turn begins.                                            *)
TurnParts(r, text) ==
  IF WordsOf(message[r]) = "blank" THEN AgentPart(text) ELSE "save_user"

(* _generate_reply, _safety_check, and _finalize_reply up to its effects.  *)
(* A draft that is not kept is not read again.                             *)
Reply(r) ==
  /\ at[r] = "reply"
  /\ \E text \in Generated : \E v \in Assess(decision[r], WordsOf(message[r]), text) :
       /\ verdict' = [verdict EXCEPT ![r] = v]
       /\ IF Keeps(r, v)
            THEN draft' = [draft EXCEPT ![r] = SafeText(text)] /\ Enter(r, TurnParts(r, text))
            ELSE Enter(r, "answer") /\ UNCHANGED draft
  /\ UNCHANGED <<storeVars, registryVars, message, decision, answer, samples>>

(* _save_auto_chat_memory *)
SaveTurn(r) ==
  /\ call[Self(r)] = NoCall
  /\ \/ /\ at[r] = "save_user"
        /\ SaveMemory(Self(r), <<"chat-user", message[r]>>, WordsOf(message[r]))
     \/ /\ at[r] = "save_agent"
        /\ SaveMemory(Self(r), <<"chat-agent", message[r]>>, draft[r])
  /\ UNCHANGED <<registryVars, at, chatVars, answer, samples>>

Ends(r, command) ==
  /\ answer' = [answer EXCEPT ![r] = command]
  /\ Enter(r, "done")

(* A store call is over; an exception ends the request.                    *)
StoreReturns(r) ==
  LET result == call[Self(r)].step IN
  /\ result \in Result
  /\ Return(Self(r))
  /\ IF result = "raised" THEN Ends(r, "error")
     ELSE /\ Enter(r, CASE at[r] = "retrieve"   -> "tool"
                        [] at[r] = "save_user"  -> AgentPart(draft[r])
                        [] at[r] = "save_agent" -> "learn")
          /\ UNCHANGED answer
  /\ UNCHANGED <<registryVars, chatVars, samples>>

-----------------------------------------------------------------------------
(* learn_reply: the file is read, and the sample appended to it if it was  *)
(* not there.  Short and odd texts are not learned.                        *)
Learn(r) ==
  /\ at[r] = "learn"
  /\ \/ /\ draft[r] \notin {"fallback", "blank"}
        /\ \A s \in samples : s.message # message[r]
        /\ Enter(r, "append")
     \/ Enter(r, "answer")
  /\ UNCHANGED <<storeVars, registryVars, chatVars, answer, samples>>

AppendSample(r) ==
  /\ at[r] = "append"
  /\ samples' = samples \cup {[by |-> r, message |-> message[r], text |-> draft[r]]}
  /\ Enter(r, "answer")
  /\ UNCHANGED <<storeVars, registryVars, chatVars, answer>>

(* run_agent_chat: what a human is to see is not sent now.                 *)
Answer(r) ==
  /\ at[r] = "answer"
  /\ Ends(r, IF verdict[r] = "send" /\ ~decision[r].review THEN "send" ELSE "silent")
  /\ UNCHANGED <<storeVars, registryVars, chatVars, samples>>

(* Knowledge or style retrieval, the file, or the review store fails.      *)
Fails(r) ==
  /\ at[r] \in {"retrieve", "learn", "append", "answer"} /\ call[Self(r)] = NoCall
  /\ Ends(r, "error")
  /\ UNCHANGED <<storeVars, registryVars, chatVars, samples>>

(* The service ends, and is started again. *)
Dies ==
  /\ \E r \in Chat : at[r] \notin {"idle", "done"} \/ job[r] # "none"
  /\ StoreDies /\ RegistryDies
  /\ at' = [r \in Chat |-> IF at[r] = "idle" THEN "idle" ELSE "done"]
  /\ answer' = [r \in Chat |-> IF at[r] \in {"idle", "done"} THEN answer[r] ELSE "error"]
  /\ UNCHANGED <<chatVars, samples>>

-----------------------------------------------------------------------------
ChatStep(r) ==
  \/ Retrieve(r) \/ RouteTool(r) \/ ToolEnds(r) \/ Reply(r) \/ SaveTurn(r)
  \/ StoreReturns(r) \/ Learn(r) \/ AppendSample(r) \/ Answer(r) \/ Fails(r)

StoreStepOf(t) ==
  /\ StoreStep(t)
  /\ UNCHANGED <<registryVars, at, chatVars, answer, samples>>

HandlerStep(r) ==
  /\ job[r] # "none"
  /\ HandlerStarts(r, AskedBy(r).payload, WordsOf(message[r]))
     \/ HandlerReturns(r, AskedBy(r).payload)
  /\ UNCHANGED <<at, chatVars, answer, samples>>

Next ==
  \/ \E r \in Chat : (\E m \in Message : Receive(r, m)) \/ ChatStep(r)
  \/ \E r \in Chat : HandlerStep(r)
  \/ \E t \in Thread : StoreStepOf(t)
  \/ Dies

Spec == Init /\ [][Next]_workflowVars

(* A request's own thread goes on, and so do the calls it makes, which     *)
(* return or raise; a tool's handler may hang.                             *)
Fairness ==
  \A r \in Chat : /\ WF_workflowVars(ChatStep(r))
                  /\ WF_workflowVars(StoreStepOf(Self(r)))

FairSpec == Spec /\ Fairness
=============================================================================
