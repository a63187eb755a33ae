---------------------------- MODULE ToolRegistry ----------------------------
(***************************************************************************)
(* ToolRegistry.execute (agent_service/tools/registry.py) with the tools   *)
(* of builtin.py: a handler runs in a thread of its own, which execute     *)
(* stops waiting for after a while and cannot stop.  Tools without side    *)
(* effects touch no shared state and are not told apart.                   *)
(***************************************************************************)
EXTENDS MemoryStore

CONSTANT IdempotencyKey

ToolName == {"save_memory", "deactivate_memory"}
(* The save tool has no say in the id of what it saves.                     *)
Payload  == {p \in [name : ToolName, memory : Memory, key : IdempotencyKey] :
               p.name = "save_memory" => p.memory[1] = "mem"}

VARIABLES
  cache,   \* _idempotent_results: (tool, key) of the calls that succeeded
  job,     \* where the handler of a request's tool call is
  \* history
  effects  \* (tool, key) of the handlers that returned

registryVars == <<cache, job, effects>>

Job == {"none", "queued", "running", "ok", "failed", "abandoned"}
CacheKey == ToolName \X IdempotencyKey

RegistryTypeOK ==
  /\ cache \subseteq CacheKey /\ effects \subseteq CacheKey
  /\ job \in [Chat -> Job]

RegistryInit ==
  /\ cache = {} /\ effects = {}
  /\ job = [r \in Chat |-> "none"]

KeyOf(p) == <<p.name, p.key>>
Handler(r) == <<r, "tool">>

(* Execution starts unless the call is answered from the cache.            *)
Cached(p) == KeyOf(p) \in cache

Submit(r, p) ==
  /\ ~Cached(p)
  /\ job' = [job EXCEPT ![r] = "queued"]
  /\ UNCHANGED <<cache, effects>>

-----------------------------------------------------------------------------
(* The handler's thread *)

HandlerStarts(r, p, words) ==
  /\ job[r] = "queued"
  /\ job' = [job EXCEPT ![r] = "running"]
  /\ IF p.name = "save_memory"
       THEN SaveMemory(Handler(r), p.memory, words)
       ELSE DeactivateMemory(Handler(r), p.memory)
  /\ UNCHANGED <<cache, effects>>

(* A memory that is not found is an error of the tool.                     *)
HandlerReturns(r, p) ==
  LET done == call[Handler(r)].step IN
  /\ done \in Result
  /\ Return(Handler(r))
  /\ job' = [job EXCEPT ![r] = IF @ = "abandoned" THEN "none"
                               ELSE IF done \in {"saved", "deactivated"} THEN "ok"
                               ELSE "failed"]
  /\ effects' = IF done \in {"saved", "deactivated"}
                  THEN effects \cup {KeyOf(p)} ELSE effects
  /\ UNCHANGED cache

-----------------------------------------------------------------------------
(* execute, which waits for it *)

(* Mutant: a call that timed out is taken for done.                        *)
ToolTimesOutCached(r, p) ==
  /\ job[r] \in {"queued", "running"}
  /\ job' = [job EXCEPT ![r] = IF @ = "running" THEN "abandoned" ELSE "none"]
  /\ cache' = cache \cup {KeyOf(p)}
  /\ UNCHANGED effects
(* Mutant: only a handler that did not start is given up.                  *)
ToolTimesOutQueued(r, p) ==
  /\ job[r] = "queued"
  /\ job' = [job EXCEPT ![r] = "none"]
  /\ UNCHANGED <<cache, effects>>
(* A handler that did not start yet is cancelled; one that did goes on.    *)
ToolTimesOut(r, p) ==
  /\ job[r] \in {"queued", "running"}
  /\ job' = [job EXCEPT ![r] = IF @ = "running" THEN "abandoned" ELSE "none"]
  /\ UNCHANGED <<cache, effects>>

ToolReturns(r, p) ==
  /\ job[r] \in {"ok", "failed"}
  /\ cache' = IF job[r] = "ok" THEN cache \cup {KeyOf(p)} ELSE cache
  /\ job' = [job EXCEPT ![r] = "none"]
  /\ UNCHANGED effects

RegistryDies ==
  /\ cache' = {}
  /\ job' = [r \in Chat |-> "none"]
  /\ UNCHANGED effects
=============================================================================
