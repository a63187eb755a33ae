------------------------- MODULE AgentWorkflowProps -------------------------
(***************************************************************************)
(* What the chat service promises about what it stores.                    *)
(***************************************************************************)
EXTENDS AgentWorkflow

(* Types of the stores, the registry and the requests.                     *)
TypeOK == MemoryTypeOK /\ RegistryTypeOK /\ WorkflowTypeOK

(* What can be retrieved is in the table, which is written first: a        *)
(* retrieved memory can be listed and forgotten (memory_store.py:102-127). *)
IndexedWasStored ==
  \A k \in Memory : index[k] # NoRecord => rows[k] # NoRecord

(* Table and index say the same of a memory that no call is writing now,   *)
(* text and whether it is forgotten, unless two calls wrote it at once or  *)
(* one stopped between the two (memory_store.py:100-143).                  *)
StoresAgree ==
  \A k \in Memory \ overlapped : Unindexed(k) = {} => rows[k] = index[k]

(* A call that is answered from the cache was done once: its handler       *)
(* returned a result, whatever timed out, failed or was abandoned          *)
(* (registry.py:114-124, 179).                                             *)
CachedToolWasDone == cache \subseteq effects

(* Nothing is kept of a chat unasked - turns, their index entries, style   *)
(* samples - that the safety check objects to: no draft it blocked or      *)
(* rewrote, and not the words of a message it held for them.  What a user  *)
(* orders to remember is stored before the check, in whatever words        *)
(* (graph.py:579), and is excepted; no draft is ever stored so             *)
(* (graph.py:799-856, guard.py:50-170).                                    *)
Objectionable(k) ==
  IF k[1] = "mem" THEN {"copied", "unsafe"} ELSE {"copied", "unsafe", "objected"}

KeptTurnsPassedSafety ==
  /\ \A k \in Memory : /\ rows[k].text \notin Objectionable(k)
                       /\ index[k].text \notin Objectionable(k)
  /\ \A s \in samples : s.text \notin {"copied", "unsafe"}

(* What is kept of a chat and what is sent go together.  A reply is kept   *)
(* only by a private request that was found fit to be sent at once, in the *)
(* same words and beside the message it replies to, unless that is blank;  *)
(* by the rules such a request sends it or ends in an error, which does    *)
(* leave a reply that nobody got.  (With a model's decisions it may also   *)
(* be left to a human.)  A reply that was sent in a private talk has both  *)
(* its parts in the table and the index, but for a blank one.  A reply is  *)
(* learned only after it was kept (graph.py:256-270, 799-856).             *)
UserPartKept(r) ==
  WordsOf(message[r]) # "blank" => index[<<"chat-user", message[r]>>] # NoRecord
AgentPartKept(r) ==
  draft[r] # "blank" => index[<<"chat-agent", message[r]>>] # NoRecord

TurnIsKeptWhole ==
  /\ \A m \in Message :
       rows[<<"chat-agent", m>>] # NoRecord =>
         /\ WordsOf(m) # "blank" => rows[<<"chat-user", m>>] # NoRecord
         /\ AskOf(m).kind # "group"
         /\ \E r \in Chat : /\ message[r] = m /\ verdict[r] = "send"
                            /\ PolicyMode = "rule" => answer[r] # "silent"
                            /\ draft[r] = rows[<<"chat-agent", m>>].text
  /\ \A r \in Chat :
       (answer[r] = "send" /\ IsAutoMemoryCandidate(r)) => UserPartKept(r) /\ AgentPartKept(r)
  /\ \A s \in samples : /\ rows[<<"chat-agent", s.message>>] # NoRecord
                        /\ s.text = draft[s.by]

(* A forgotten memory is retrieved again only through a save that wrote    *)
(* the row after the forgetting did, made by a request that is still under *)
(* way or by a tool that timed out.  Such an abandoned save may well begin *)
(* to write when the forgetting was answered long ago, and undoes it;      *)
(* nothing else that is late does, a forgetting that overtakes another no  *)
(* more than a save that was overtaken, unless two calls are between row   *)
(* and index at once (memory_store.py:100-143, registry.py:128-131).       *)
OnlyASaveBringsBack ==
  [][\A k \in Memory \ overlapped' :
       (index[k] # NoRecord /\ ~index[k].active /\ index'[k].active) =>
         /\ rows[k].active
         /\ \E t \in Thread : /\ call[t].memory = k /\ call[t].op = "save"
                              /\ at[t[1]] # "done" \/ job[t[1]] = "abandoned"]_workflowVars

(* Every request is answered, even if a tool's handler hangs               *)
(* (registry.py:130).                                                      *)
ChatEnds == \A r \in Chat : at[r] # "idle" ~> at[r] = "done"

-----------------------------------------------------------------------------
(* The inductive invariant of the safety properties, in named parts.       *)

(* What a store call relies on at each step: the row it is about is there, *)
(* and it has a record to write.                                           *)
StepInv ==
  \A t \in Thread : LET c == call[t] IN
    /\ c.step \in {"update", "reread", "upsert", "saved", "deactivated"}
         => rows[c.memory] # NoRecord
    /\ c.step \in {"insert", "upsert"} => c.record # NoRecord
    /\ c.step = "saved" => index[c.memory] # NoRecord
    /\ c.op = "save" => c.step \in {"insert", "upsert", "saved", "raised"}
    /\ c.step = "insert" => c.op = "save"

(* Of a memory written by one call at a time: that call will make its      *)
(* index entry equal to its row.                                           *)
AgreeInv ==
  \A k \in Memory \ overlapped :
    /\ Unindexed(k) = {} => rows[k] = index[k]
    /\ \A t, u \in Unindexed(k) : t = u
    /\ \A t \in Thread :
         (call[t].memory = k /\ call[t].step = "upsert") => call[t].record = rows[k]
    /\ \A t \in Unindexed(k) : call[t].op = "deactivate" => ~rows[k].active

(* No text the safety check objected to is stored or about to be.          *)
CleanInv ==
  /\ \A k \in Memory : /\ rows[k].text \notin Objectionable(k)
                       /\ index[k].text \notin Objectionable(k)
  /\ \A t \in Thread : call[t] # NoCall =>
                         call[t].record.text \notin Objectionable(call[t].memory)

StoreInv == MemoryTypeOK /\ StepInv /\ IndexedWasStored /\ AgreeInv /\ CleanInv

(* What was decided for a request fits what its message asks for.          *)
AskInv ==
  \A r \in Chat :
    /\ at[r] # "idle" => message[r] \in Message
    /\ at[r] = "idle" => ~decision[r].tool /\ ~decision[r].memory
    /\ decision[r].tool => AskedBy(r).kind = "tool"
    /\ decision[r].memory => AskedBy(r).kind \in {"remember", "forget"}
    /\ (PolicyMode = "rule" /\ decision[r].review) => decision[r].intent = "unsafe"
    /\ verdict[r] = "send" => /\ decision[r].intent # "unsafe"
                              /\ WordsOf(message[r]) # "objected"

(* Where a tool call and its handler can stand.                            *)
JobInv ==
  \A r \in Chat :
    /\ job[r] # "none" => message[r] \in Message /\ AskedBy(r).kind = "tool"
    /\ at[r] \in {"idle", "retrieve", "tool"} => job[r] = "none"
    /\ at[r] = "tool_wait" => AskedBy(r).kind = "tool"
    /\ at[r] # "tool_wait" => job[r] \in {"none", "abandoned"}
    /\ job[r] = "ok" => KeyOf(AskedBy(r).payload) \in effects

(* What the store call of a tool's handler is about.                       *)
HandlerInv ==
  \A r \in Chat :
    /\ job[r] \notin {"running", "abandoned"} => call[Handler(r)] = NoCall
    /\ call[Handler(r)].op = "save" => call[Handler(r)].memory[1] = "mem"

(* What a request's own store call is about.                               *)
CallInv ==
  \A r \in Chat : LET c == call[Self(r)] IN c # NoCall =>
    /\ at[r] \in {"retrieve", "save_user", "save_agent"}
    /\ (at[r] = "retrieve" /\ c.op = "save") => c.memory[1] = "mem"
    /\ at[r] = "save_user" => c.op = "save" /\ c.memory = <<"chat-user", message[r]>>
    /\ at[r] = "save_agent" => /\ c.op = "save" /\ c.memory = <<"chat-agent", message[r]>>
                               /\ c.record.text = draft[r]

(* What is known of a request on its way through the effects of its reply. *)
KeepOf(r) ==
  /\ at[r] # "done" => answer[r] = "none"
  /\ at[r] \in {"idle", "retrieve", "tool", "tool_wait", "reply"} => verdict[r] = "none"
  /\ at[r] \in {"save_user", "save_agent", "learn", "append"} =>
       Keeps(r, verdict[r]) /\ draft[r] \in {"clean", "rewritten", "fallback", "blank"}
  /\ at[r] = "save_user" => WordsOf(message[r]) # "blank"
  /\ at[r] \in {"save_agent", "append"} => draft[r] # "blank"
  /\ (at[r] \in {"save_agent", "learn", "append", "answer"} /\ Keeps(r, verdict[r]))
       => UserPartKept(r)
  /\ (at[r] \in {"learn", "append", "answer"} /\ Keeps(r, verdict[r])) => AgentPartKept(r)
  /\ answer[r] = "send" => verdict[r] = "send"
  /\ (PolicyMode = "rule" /\ verdict[r] = "send") => answer[r] # "silent"
  /\ \A s \in samples : s.by = r => verdict[r] = "send"

KeepInv == \A r \in Chat : KeepOf(r)

IInv == /\ TypeOK /\ StoreInv /\ AskInv /\ JobInv /\ HandlerInv /\ CallInv /\ KeepInv
        /\ CachedToolWasDone /\ KeptTurnsPassedSafety /\ TurnIsKeptWhole
=============================================================================
