----------------------------- MODULE MemoryStore -----------------------------
(***************************************************************************)
(* The memories of one user (agent_service/memory/memory_store.py): a row  *)
(* in SQLite and an entry in the vector index for each.  Requests and tool *)
(* handlers call the store in threads of their own; every statement on     *)
(* either of the two is atomic, and a call is a sequence of them.          *)
(* Memories of different users have different ids and are never retrieved  *)
(* together.                                                               *)
(***************************************************************************)
CONSTANTS
  Chat,     \* POST /chat requests, each made once
  Message,  \* the messages they are made for
  WordsOf(_),  \* what the words of a message are to the safety check
  Earlier   \* memories an earlier run of the service may have stored

Thread == Chat \X {"chat", "tool"}

(* Ids of memories: what a message said to remember, and its chat turn.    *)
Memory == {"mem", "chat-user", "chat-agent"} \X Message

(* Words of the user - the safety check objects to some - and of replies.  *)
Words    == {"plain", "objected", "blank"}
Kept     == {"plain", "objected", "clean", "rewritten", "fallback", "copied", "unsafe"}
NoRecord == [text |-> "none", active |-> FALSE]
Record   == [text : Kept, active : BOOLEAN]

ASSUME StoreAssumption ==
  /\ \A m \in Message : WordsOf(m) \in Words
  /\ Earlier \subseteq {"mem"} \X {m \in Message : WordsOf(m) # "blank"}

VARIABLES
  rows,        \* the table memories
  index,       \* the collection of the vector index
  call,        \* the store call a thread is in
  \* history
  overlapped   \* memories written by two calls at once, or by half of one

storeVars == <<rows, index, call, overlapped>>

Step    == {"none", "insert", "require", "update", "reread", "upsert",
            "saved", "deactivated", "not_found", "raised"}
NoCall  == [step |-> "none", memory |-> <<>>, op |-> "none", record |-> NoRecord]
Call    == [step : Step \ {"none"}, memory : Memory, op : {"save", "deactivate"},
            record : Record \cup {NoRecord}]
Result  == {"saved", "deactivated", "not_found", "raised"}

MemoryTypeOK ==
  /\ rows \in [Memory -> Record \cup {NoRecord}]
  /\ index \in [Memory -> Record \cup {NoRecord}]
  /\ call \in [Thread -> Call \cup {NoCall}]
  /\ overlapped \subseteq Memory

MemoryInit ==
  /\ \E stored \in SUBSET Earlier : \E active \in SUBSET stored :
       rows = [k \in Memory |-> IF k \in stored
                                  THEN [text |-> WordsOf(k[2]), active |-> k \in active]
                                  ELSE NoRecord]
  /\ index = rows
  /\ call = [t \in Thread |-> NoCall]
  /\ overlapped = {}

-----------------------------------------------------------------------------
(* A call is made.                                                         *)
Begin(t, op, k, record) ==
  call' = [call EXCEPT ![t] = [step   |-> IF op = "save" THEN "insert" ELSE "require",
                               memory |-> k, op |-> op, record |-> record]]

SaveMemory(t, k, text) ==
  /\ Begin(t, "save", k, [text |-> text, active |-> TRUE])
  /\ UNCHANGED <<rows, index, overlapped>>

DeactivateMemory(t, k) ==
  /\ Begin(t, "deactivate", k, NoRecord)
  /\ UNCHANGED <<rows, index, overlapped>>

Goto(t, step) == call' = [call EXCEPT ![t].step = step]

(* Calls that have written the row and not the index yet. *)
Unindexed(k) == {t \in Thread : call[t].memory = k /\ call[t].step \in {"reread", "upsert"}}

WriteRow(t, record) ==
  LET k == call[t].memory
  IN /\ rows' = [rows EXCEPT ![k] = record]
     /\ overlapped' = IF Unindexed(k) = {} THEN overlapped ELSE overlapped \cup {k}
     /\ UNCHANGED index

(* Mutant: ON CONFLICT DO NOTHING.                                         *)
InsertOnce(t) ==
  /\ call[t].step = "insert"
  /\ WriteRow(t, IF rows[call[t].memory] = NoRecord THEN call[t].record
                 ELSE rows[call[t].memory])
  /\ Goto(t, "upsert")
(* INSERT ... ON CONFLICT DO UPDATE: a forgotten memory is active again.   *)
Insert(t) ==
  /\ call[t].step = "insert"
  /\ WriteRow(t, call[t].record)
  /\ Goto(t, "upsert")

Require(t) ==
  /\ call[t].step = "require"
  /\ Goto(t, IF rows[call[t].memory] = NoRecord THEN "not_found" ELSE "update")
  /\ UNCHANGED <<rows, index, overlapped>>

Update(t) ==
  /\ call[t].step = "update"
  /\ WriteRow(t, [rows[call[t].memory] EXCEPT !.active = FALSE])
  /\ Goto(t, "reread")

(* Mutant: the record read before the update is indexed.                   *)
RereadStale(t) ==
  /\ call[t].step = "reread"
  /\ call' = [call EXCEPT ![t].step = "upsert",
                          ![t].record = [rows[call[t].memory] EXCEPT !.active = TRUE]]
  /\ UNCHANGED <<rows, index, overlapped>>
Reread(t) ==
  /\ call[t].step = "reread"
  /\ call' = [call EXCEPT ![t].step = "upsert", ![t].record = rows[call[t].memory]]
  /\ UNCHANGED <<rows, index, overlapped>>

Upsert(t) ==
  LET k == call[t].memory IN
  /\ call[t].step = "upsert"
  /\ index' = [index EXCEPT ![k] = call[t].record]
  /\ Goto(t, IF call[t].op = "save" THEN "saved" ELSE "deactivated")
  /\ UNCHANGED <<rows, overlapped>>

(* SQLite, the embedding or the index fails.                               *)
StoreFails(t) ==
  /\ call[t].step \in {"insert", "require", "update", "reread", "upsert"}
  /\ overlapped' = overlapped \cup {k \in Memory : t \in Unindexed(k)}
  /\ Goto(t, "raised")
  /\ UNCHANGED <<rows, index>>

StoreStep(t) ==
  \/ Insert(t) \/ Require(t) \/ Update(t) \/ Reread(t) \/ Upsert(t) \/ StoreFails(t)

(* The caller has the result. *)
Return(t) ==
  /\ call' = [call EXCEPT ![t] = NoCall]
  /\ UNCHANGED <<rows, index, overlapped>>

(* The process ends: what is on disk remains. *)
StoreDies ==
  /\ overlapped' = overlapped \cup {k \in Memory : Unindexed(k) # {}}
  /\ call' = [t \in Thread |-> NoCall]
  /\ UNCHANGED <<rows, index>>
=============================================================================
