# PersonaAgent in TLA+

A model of PersonaAgent: the LiteIM bot (`bot_client/`) and the service that
decides what it says (`agent_service/`). The modules are written from the code;
each definition that models code is tied to its lines in `PROJECT.json` ("map").

## The system

| component | state | operations | interacts with |
|---|---|---|---|
| Wire protocol: `bot_client/protocol/` (codec, parsers, builders, frame decoder) | decoder buffer and sticky error | encode, decode, feed | connection |
| Connection: `connection/client.py` | writer, pending requests by sequence id, identity, state, receive and heartbeat tasks, push queue | connect, login, logout, request, close, heartbeat, receive loop | LiteIM, runtime |
| Supervisor: `connection/supervisor.py` | task, delay | start, stop, connect/login/wait/retry with back-off | connection; no runtime uses it |
| Durable bot state: `messages/state.py` | processed ids, friends, policy events, group messages, receipts, reply events, in one JSON file | mark, record, replace, upsert | handler, friend policy |
| Friend policy: `access/friend_policy.py` | friend cache (in the durable state) | sync after login, FriendAcceptedPush | connection, state |
| Message handler: `messages/handler.py`; processors `messages/echo.py`, `agent/api.py` | progress of one coroutine | offline sync, one packet | connection, state, AgentService |
| Runtimes: `runtime/app.py`, `scripts/runtime/run_bot_client.py` | push loop task | start, stop | all of the above |
| Chat API and workflow: `api/routes/chat.py`, `workflow/` | state of one graph run | dialogue policy, context, tools, reply, safety, finalize | everything below |
| Human review: `review/`, `api/routes/review.py` | SQLite: checkpoints, reviews, audit log | create, edit, approve, reject, resume, complete, expire | workflow, human reviewers |
| Tools: `tools/` | idempotency cache, traces | execute with timeout | workflow, memory |
| Memory: `memory/` | SQLite rows and a vector index | save, deactivate, retrieve | workflow |
| Style and consent: `style/`, `governance/` | raw records, consent manifest, samples, pairs (files); the style index | import, redact, index, replace, learn, retrieve | workflow, data scripts, evaluation |
| Safety: `safety/`, dialogue policy, persona, generation, LLM, RAG | none, or read-only indexes | pure decisions and calls of external models | workflow |
| Evaluation: `eval/` | results file, reports | select, run the cases on threads, resume, write | workflow, style index |
| Assembly: `container.py`, `main.py`, `config.py` | lazily built container | build | AgentService |
| Scripts: `scripts/data`, `scripts/demo` | files | capture, OCR, import, demo | style store |

Hard behaviour, and what makes each part correct:

- The bot is a single coroutine, but the server, the line and the process act
  between any two of its awaits: messages are pushed twice and stored for the
  next login, requests time out and are still served, connections end, the
  process is killed between two saves. Correct means: a message with an outcome
  is never answered again, a run never answers twice, nothing is acknowledged
  that has no outcome, only friends are answered, the bot itself never while it
  knows who it is, and the records tell the truth about what was sent.
- The connection's tasks (receive loop, heartbeat, requests) share the pending
  table and the identity. Correct means: each waiting request ends exactly once,
  with its own response, and after a disconnect nobody waits and nobody is
  logged in.
- Human review is used by several reviewers and by the workflow at once, each
  request in a thread of its own and each store call in a transaction of its
  own. Correct means: a review is sent at most once and only after approval, and
  the audit log says what happened.
- Chat requests run side by side, each in a thread of its own, and tools in
  threads that nobody can stop. A memory lives in two stores that are written
  one after the other, a tool's timeout does not undo its effect, and a reply
  is kept and learned from before it is sent. Correct means: what can be found
  is stored, what was forgotten comes back only when it is saved again, a cached
  tool result was obtained, nothing is kept unasked that the safety check held,
  a turn that is sent is kept whole, and every request ends.
- The style dataset is five files and a vector index, written one after the
  other by scripts that may die anywhere, edited by an operator, and read by
  every process that starts; the agent's own answers may be appended to one of
  the files. Correct means: what gets into a prompt as style was asked for in an
  import under its consent, without personal data and never the agent's own
  answer, and a completed import leaves one whole dataset. The index is only
  added to, so revocation does not reach it.
- An evaluation runs its cases on threads, and an exception in one ends it.
  Correct means: it writes one row for each case, keeps the rows of an earlier
  run it resumes, and writes nothing if it fails.
- The bytes of a connection come in reads cut anywhere, and a list comes as
  parallel columns of values. Correct means: packets arrive whole, once and in
  order, none of an earlier connection, and no row has a value of another.

`PROJECT.json` lists the hazards at their lines, with the properties that cover
them; the section on hazards without a property has those that are left.

## Modules

| module | models |
|---|---|
| `JsonMessageState` | `messages/state.py`: each mutator is one atomic, durable step |
| `LiteIMServer` | external: the server and the wire, as the message handler sees them |
| `FriendPolicy` | `access/friend_policy.py` |
| `BotMessageHandler` | `messages/handler.py` with the echo and the AgentService processor |
| `BotRuntime` | composition: `runtime/app.py`, the script's process, server, users, failures |
| `MessageLedger` | abstract specification: what the bot promises about replies |
| `HumanReview` | `review/store.py`, `review/service.py`, `api/routes/review.py`, and the end of `run_agent_chat` |
| `ReviewLifecycle` | abstract specification: the life of a review, without requests and transactions |
| `BotClient` | `connection/client.py`: requests, receive loop, heartbeat loop, close |
| `BotClientSupervisor` | composition: `connection/supervisor.py`, its client, the server and the line |
| `PacketCodec` | `protocol/codec.py`: the header, TLV fields, packing and parsing |
| `PacketBodies` | `protocol/parsers.py`, `protocol/builders.py`: what the client reads in an answer or push and writes in a request |
| `FrameDecoder` | `protocol/frame_decoder.py`, fed by the receive loop over several connections |
| `FrameChannel` | abstract specification: packets arrive whole, once, in order |
| `BotWire` | composition: decoder, bodies, what the server says and the client asks; with its properties |
| `StyleSamples` | pure: what the import scripts and the importer make of an export, what the index accepts |
| `StyleDataset` | the files, the two import scripts, the operator, `style/style_store.py`, `pair_store.py`, `learning.py` and the start of the stores in `container.py` |
| `EvalRunner` | composition: `eval/runner.py` over that dataset |
| `MemoryStore` | `memory/memory_store.py`: the table and the vector index, statement by statement |
| `ToolRegistry` | `tools/registry.py` with the two tools of `tools/builtin.py` that write |
| `AgentWorkflow` | composition: `workflow/graph.py` with its decisions, safety verdicts, tools, memories and style samples |
| `BotRuntimeProps`, `HumanReviewProps`, `BotClientProps`, `AgentWorkflowProps`, `OfflineProps` | the properties and the inductive invariants |
| `BotRuntimeProofs`, `HumanReviewProofs`, `BotClientProofs`, `AgentWorkflowProofs`, `FrameDecoderProofs`, `BotWireProofs`, `OfflineProofs`, `ImportProofs` | theorems and proofs |
| `MCBotRuntime`, `MCHumanReview`, `MCAgentWorkflow`, `MCBotWire`, `MCOffline` | definitions the instances for TLC need |

A definition named `...Dropped`, `...Unguarded` and the like, under a comment
that begins "Mutant:", is a plausible mistake in the definition after it. No
other definition uses it; `PROJECT.json` ("mutants") says which property it
breaks when it takes the place of that definition.

### Bot runtime

`processed`, `friends`, ... are the collections of `JsonMessageState`; they
survive a crash, everything else of the bot does not. `phase` says where the
runtime is: `friends`, `requests_list`, `requests` (the sync of the friend
policy), `pull` and `offline` (the offline messages), `push` (the push loop),
`dead` (the push loop ended by an exception while the process lives on), `down`.
`pc` is the await, or the gap between two saves, at which the handler stands:
`ready`, `delivery_ack`, `processor`, `read_ack`, `send`, `mark`,
`offline_ack`. An action runs the code from one such point to the next, so that
every interleaving with the server, the line and the end of the process that
asyncio permits is a behaviour of the model.

A request is put into `inflight` and the handler waits for `answer`. The server
takes requests at any time, also after the client's 10 s timeout: a request that
failed for the bot may still be carried out. The server pushes messages it
stores, possibly several times; it forgets a message on a delivery ack or on an
offline ack. Message texts are not modelled: a reply is identified by the
message it answers, its client message id and the run that sent it; `sends`
(history) counts those of each message in this run. The processor's outcome is a
nondeterministic choice: a reply, nothing, or (agent mode) the fallback text for
an AgentService that is down or late.

The session is two things, as in the code: `identity`, by which the bot knows
its own messages and without which nothing reaches its tasks, and `connected`,
the writer requests go out on. `_mark_disconnected` drops the identity
(`client.py:476`), awaits the heartbeat task and drops the writer after that:
`LoseIdentity` and `Disconnect`. In between the handler goes on, and takes a
message of the bot's own for somebody else's: the echo bot can answer its own
group message out of an offline list. `OwnMessagesAreIgnored` says that it
happens there only.

### Human review

FastAPI runs each request in a thread of its own, and each use of the store's
connection (`with self._connect()`) is one SQLite transaction. `at[r]` is the
transaction request `r` runs next, and an action is one transaction, so that
requests interleave between their transactions as threads do. `status` and
`edited` are the review's row, `finalCommand` its checkpoint's, `audit` the log.
What a request read and carries to its next transaction is in `op`, `text`,
`command`, `before`, `after`. `Chat` and its successors are the end of
`run_agent_chat`, which saves the state, opens the review unless there is one,
and saves the command; `ChatDirect` is the same for a reply that needs no
human. `Abort` ends a request anywhere, as a crash of the service or a locked
database does. Threads of different reviews share no row, so there is one
review. `expire_pending_before` looks at rows with an `expires_at`; every row
the program writes has NULL there, and nothing calls it.

### Connection

`BotClient` has one action per stretch of a task from an await that really
waits to the next one: `at[t]` names it. The tasks are the supervisor's run
task, the receive loop, the heartbeat loop, the task that calls `stop()`, and
`User`, whoever else calls `request`. `cancelled` holds tasks that were
cancelled and have not run since. Where a method is run by several tasks
(`close`, `_mark_disconnected`), the definition takes the task as a parameter
and moves it along its awaits. `pending` and `future` are the pending table and
its futures, `seqOf` the sequence id of a task's request; `number` and `answers`
are history variables that say which request a response belongs to. The server
answers the requests it has in any order, correctly or with an error or a wrong
type; the line goes silent, ends, or is reset; a timeout may strike while the
answer is under way. Pushes are left to `BotRuntime`, the wait in `drain()` and
the lengths of the back-off delays are not modelled.

### Chat workflow, tools and memory

A request `r` of `Chat` is made once, for a message that may be asked about
several times; `AskOf` says what the message asks for, `WordsOf` what its words
are to the safety check: plain, objected to, or blank. `at[r]` is the node of the
graph, or the next access to a store or a file, at which the request stands; two
nodes that share nothing with others are one action. `decision[r]` is the
`DialogueDecision`, `verdict[r]` what the safety guard says, `draft[r]` the text
that is kept. Texts are kinds: the words of a user, a clean reply, one that
copies a style sample, the rewritten one, an objectionable one, a blank one, the
fallback. A blank text is not kept, so that a turn may have one part, or none
(`TurnParts`, `AgentPart`).

What the code does and no property denies: what a user orders to remember is
saved before the safety check sees it (`graph.py:579`), so `KeptTurnsPassedSafety`
is about the words of other messages and about drafts; a reply is kept before it
is sent, so an error in between leaves one that nobody got (`TurnIsKeptWhole`);
and a save whose tool timed out may write its row when a later forgetting was
answered, and undoes it (`OnlyASaveBringsBack`).

The store is called by two threads of a request: its own and its tool's handler
(`Thread`). `call[t]` is the call with the statement it runs next; `rows` and
`index` are the two stores. A statement on either is atomic, a call is not, and
any statement may fail. `overlapped` is history: the memories that two calls
wrote at once, or that one call wrote by half, for which the two stores may
disagree for good. `job[r]` is the handler's thread: `ToolTimesOut` leaves one
that runs `abandoned`, and its store call goes on. `cache` is the idempotency
cache, `effects` (history) what handlers have returned. `Dies` ends the process:
the stores and the samples remain, the cache and the threads do not.

What is only read (knowledge, memories) goes into prompts and changes nothing,
so its retrieval is not an action, and that of style is in `StyleDataset`; that
a forgotten memory is not retrieved is a statement about `index`, which
retrieval filters by `active`. Memories of the chat are on, as by default
(`config.py:98`); style learning is taken to be on too, though by default it is
off (`config.py:105`): without it the samples stay empty and nothing else
changes. Both stores may already hold memories of an earlier run of the service
(`Earlier`), and then agree on them.

### Wire

`stream` is what the peer wrote on the connection, in cells; a header is a cell
for each of its fields, a field of a body one for its type, one for its length
and its value. A read takes any number of the cells that are under way, up to
`ReadSize`; an iteration of the loop in `feed` is an action. `buffer`, `error`
and `readIndex` are the decoder's, `delivered` what was dispatched on this
connection, `sent` and `ends` (history) what the peer sent and where it ends.
A foreign header (another version, a body that is too long) ends the connection,
and with it the packets decoded in the same call. `connect` resets the decoder.
Values are integers and texts as short sequences of cells; `BadUtf8` is a cell
no text has. `answers` says what the packets mean, `requests` are the bodies the
client writes about what it read.

### Style dataset and evaluation

A text is told from another by what is said, whether it is style at all
(`Noise`), whether there are personal data in it (`Private`), and whether it
still is style once they are blotted out (`Spoilt`): the patterns of
`filters.py` and `pii_redactor.py` are these sets. A line has the speaker it
names, if it names one, and a date, if it has one. The script for copied text
asks for a speaker only if it is told one (`filtered`), lets a line pass in which
it recognises none (`import_wechat_style.py:288`) and takes a line without a date
to be in the range (259-261); all that passes is recorded as said by the subject.
What comes into a prompt is therefore not always an utterance of the person who
consented; `RetrievedIsAuthorized` says what it is. `script` is the import script
that runs, with the steps it has left; opening a file empties it, so that each
write is two actions, and `ScriptEnds` is its success, its error or its death at
any step. The two scripts differ in what they keep, in the pairs and in the
order of their writes. `collection` is the style index; it is numbered, since a
handle of a deleted collection no longer works. `service[p]` is the style store
of process `p`: opened, loaded with the samples file, filled into the index,
retrieving. The operator edits the consent and imports the records again while no
script runs, with `StyleDataImporter` as its tests use it.

`eval` is the evaluation that runs; its process has a style store of its own,
over the same files and the same index. Cases run one by one or on threads;
`verdict` says what came of each. When one raises, the others may still end, and
nothing is written. `before` and `resume` in it are history.

## Runs

| run | instance | shows |
|---|---|---|
| `runtime_agent` | one private message of an account that is not allowlisted, 2 pushes, 3 runs, receipts | type invariant; `OneSendPerRun`, `NoSendOnceProcessed`, `SentMeansAccepted`, `RepliesOfThisRunAreOnRecord`; refinement of `MessageLedger` |
| `runtime_people` | the echo bot, a message of one account and one of its own to a group, two accounts, the other one allowlisted, 2 runs, fair | `OnlyFriendsAreAnswered`, `FriendCacheCoherent`, `AckedOfflineWasProcessed`, `OwnMessagesAreIgnored`, `InHandIsWorkedOff` |
| `runtime_group` | a group message stored offline | violated: it is answered, contrary to the comment at `handler.py:93` |
| `runtime_idempotent` | one private message, 2 runs | violated: two replies under two client message ids, contrary to `README.md:24` |
| `runtime_reconnect` | one private message, 2 runs, fair | violated: a bot that lost its connection waits for ever, contrary to "reconnect" in `README.md:24` |
| `review` | two chat requests, three requests of reviewers | type invariant; `CreatedOnce`, `SendsAreAudited`, `LaterResumeSendsNothing`, `CompletedIsFinal`; refinement of `ReviewLifecycle` |
| `review_resume` | one chat request, three requests of reviewers | violated: two overlapping resumes both send, contrary to the name of a test, which tries them one after the other |
| `client` | login, heartbeats and one more requesting task, 3 requests a connection, 3 failures, fair | type invariant; `OwnResponseOnly`, `PendingIsAwaited`, `NobodyWaitsDisconnected`, `StoppedIsQuiet`, `StopTerminates`, `SilentServerIsNoticed`, `LoggedInAgain` |
| `service_stores` | two chat requests, eight messages that concern one memory or none, in plain, blank and objectionable words, fair | type invariant; `StoresAgree`, `CachedToolWasDone`, `KeptTurnsPassedSafety`, `TurnIsKeptWhole`, `OnlyASaveBringsBack`, `ChatEnds` |
| `wire` | thirteen answers and pushes, 2 packets on the first of 2 connections, reads of up to 14 cells, 2 foreign headers, fair | `ReadIsWhatWasSent`, `RequestsSayWhatIsMeant`, `EverythingArrives`; refinement of `FrameChannel` |
| `offline` | three exports of one person, one of them without a speaker's name, 2 imports, a service, 2 evaluations of two cases | type invariant; `RetrievedIsAuthorized`, `ImportIsWhole`, `EvalKeepsAndCompletes` |
| `style_revoked` | the same with one import | violated: a sample the service has loaded as revoked is retrieved, contrary to `README.md:180` |

Bounds. They bound the environment, not the program.

- Bot runtime: `MaxRuns` starts of the process, `MaxPush` pushes of one message,
  `MaxQueue` packets in the push queue, and `Receipt`, the messages a receipt
  may be pushed for. Two pushes and an offline copy already give every order of
  duplicates; three runs give a crash before and after a run that answered. Of
  the accounts the allowlist tells apart, one is in each of the two passing
  runs.
- Human review: each request is made once. Two reviewers' requests race for the
  row and a third one decides first or comes after; two chat requests race for
  the insert. `TwoChatsScope` leaves out three requests of reviewers beside two
  chat requests.
- Connection: `MaxRequests` on one connection, `MaxFaults` failures (of the
  line, of the server, timeouts of a slow server) in all. Two failures give a
  late response to a request that timed out on a line that breaks afterwards,
  three a failed login before and after a lost connection. Requests that a dead
  line swallows are not counted.
- Chat workflow: two requests make four threads, which meet in every order over
  the one memory that four of the eight messages concern, the same message twice
  included, and which may be stored, forgotten or neither at the start; one
  idempotency key makes every repeated tool call a replay. The two requests are
  alike in everything, so `InOrder` takes the one with the earlier message to be
  the first. The run
  has the default rule policy. With the LLM policy, where a model may decide
  anything, the instance is too large for a run; the theorems hold for both.
- Wire: two packets behind each other give every cut of a header, of a body and
  between packets, since a read of 14 cells holds two headers; the second
  connection starts with whatever the first one left. The answers have two rows,
  complete ones and ones that lack a value, have one too many or one that is not
  legible.
- Style dataset: the ids of the samples of the exports overlap and their texts
  differ; between them they have a repeated line, lines out of the range of
  dates and without one, lines of another speaker and of none, noise, personal
  data, and a line that redaction spoils. The export without a speaker's name is
  imported after one of the others, with nothing learned and the consent as the
  script wrote it, and a service indexes it (`ExportScope`). `MaxImports` runs
  of the scripts, so that a second import meets what the first one left when it
  died; a torn file has one line (`Torn`).
- Evaluation: `EvalScope` lets the first evaluation run beside or after the last
  steps of an import and the second after it, with the service down; two cases
  on two threads, which also take them one by one, or with fail-fast on one,
  every selection of them, and a second evaluation to resume the first.

The theorems hold for every value of the bounds. `CHECK_DEADLOCK FALSE` because
a bounded run stops: the process has ended and may not start again, all
requests are answered, or the supervisor has been stopped.

Symmetry: the reviewers' requests and the texts are interchangeable, and no
liveness property is checked with it.

Fairness.

- `runtime_people`, `runtime_reconnect`: `WF(HandlerStep \/ StartFails)`.
  asyncio resumes a coroutine that can go on and every request ends by its
  timeout; the server, the users and whoever starts the process owe nothing.
- `client`: weak fairness of each task (`RunStep`, `StopStep`,
  `ReceiveStep`, `HeartbeatStep`), since asyncio runs every task that is ready and
  every sleep and timeout expires, and of the server answering what it was
  asked on a line that holds (`ServerFairness`; `LoggedInAgain` needs it, as no
  client can log in with a server that never answers). Faults are bounded, so
  they end some day; nobody has to call `stop()`.
- `service_stores`: weak fairness of each request's own thread and of the store
  calls it makes, which return or raise, as do calls of a model, which have a
  timeout. A tool's handler owes nothing: it may hang.
- `wire`: weak fairness of the receive loop when there is something to read and
  of the iterations of `feed`; the peer owes nothing.

## Proofs

All theorems hold for all values of the constants, under the named `ASSUME`s
that every run evaluates. Hardly an invariant is inductive alone. The inductive
ones are conjunctions of named parts, in the `...Props` modules, `FrameDecoder`
and `BotWire`, or, for the dataset and the evaluation, beside their proofs; each
part has a lemma for its preservation with one step per action. The theorems
follow with PTL.

`BotRuntimeProofs`: `[]TypeOK`, `[]OneSendPerRun`, `NoSendOnceProcessed`,
`[]AckedOfflineWasProcessed`, `[]SentMeansAccepted`, `[]OnlyFriendsAreAnswered`,
`OwnMessagesAreIgnored`, `[]FriendCacheCoherent`,
`[]RepliesOfThisRunAreOnRecord`, and that `Spec` implements `MessageLedger`.
`IInv` adds `ControlInv`, where the coroutine can stand in which phase;
`AckInv`, that the list to be acked, acks on the wire and acks taken name
processed messages only; `SendInv`, that an admitted message has no outcome and
that a message without outcome which is not just being answered was not answered
in this run; `WireInv`, that each reply on the wire or taken
belongs to a run and, if to this one, to a message that is answered or being
answered; `RecordInv`, that the awaited answer is the answer to the reply the
record will name; `FriendInv` and `SelfInv`, what is known about the sender
past each check, and of an own message that the identity is gone, which within a
run never comes back. `FriendCacheCoherent` is inductive together with `FriendInv`:
a friendship made while the friends are fetched is in the response or in the push
queue, never in neither. `OnRecordInv` is stronger than what it proves: a reply of
this run, already while it is on the wire, is on record, or about to be recorded
by the coroutine that waits for it, or of a run that ended before its message was
marked.

`HumanReviewProofs`: `[]TypeOK`, `[]CompletedHasCommand`, `[]CreatedOnce`,
`[]SendsAreAudited`, `[]LaterResumeSendsNothing`, `CompletedIsFinal`, and that
`Spec` implements `ReviewLifecycle`. `IInv` adds `ControlInv`, which
transactions belong to which request; `DecisionInv`, what a request that read
the review knows of it later, although others wrote in between; `ApprovedInv`,
that the text a resume carries stood in the approved review; `CreateInv`, that
one request at most is on its way to audit the creation; `SendInv`, that a
request which began after a send was answered finds the review completed.

`BotClientProofs`: `[]TypeOK`, `[]OwnResponseOnly`, `[]PendingIsAwaited`,
`[]NobodyWaitsDisconnected`, `[]StoppedIsQuiet`. `IInv` adds `PlaceInv`, where
each task can stand; `ConnectInv`, that a new client is made only when the old
one's tasks are through; `EventInv`, that whoever sets the disconnected event
has closed the transport and failed the waiters, across the awaits in between;
`SequenceInv`, that the sequence id of a request, of its copy on the wire and of
its response is its number on this connection. `QuietInv`, for `StoppedIsQuiet`,
says who still owes what while `stop()` waits: a task that lost its handle is
being waited for by the one that took it, and once the run task is cancelled
nothing it still does opens a connection again.

`AgentWorkflowProofs`: `[]TypeOK`, `[]IndexedWasStored`, `[]StoresAgree`,
`[]CachedToolWasDone`, `[]KeptTurnsPassedSafety`, `[]TurnIsKeptWhole`,
`OnlyASaveBringsBack`, for any requests and messages, whatever the messages ask
for, and for both policies. `IInv` adds, about the stores alone, `StepInv`, what
a call has found or written before each statement; `AgreeInv`, that a memory
which one call at a time writes has at most one call that will make its index
entry equal to its row, and is equal if it has none; `CleanInv`, that no
objectionable text is in a store or a call. About requests: `AskInv`, that what
was decided fits the message; `JobInv` and `HandlerInv`, where a tool call, its
handler and the handler's store call can stand, abandoned ones included;
`CallInv`, which store call belongs to which node; `KeepInv`, that past the
verdict the message is private, the text passed, and the parts written so far
are in the index, so that by `IndexedWasStored` they are in the table. The first
part is proved of the store's steps alone, so the lemmas about requests only say
with which arguments they call it.

`FrameDecoderProofs`: the decoder, over any number of connections and for any
packets, implements `FrameChannel`, alone (`FramesAreAChannel`) and composed with
what the packets say (`WireIsAChannel`). The invariant, `FrameInv`, says that the
buffer is the end of what was read of the stream, that the read index stands
where a packet ends, that the packets taken are those sent up to there, and that
what is behind the last packet is a foreign header or nothing. It rests on
`ParsePacked` and `PacketOnWire`: what is packed is what is parsed, wherever it
lies in the stream.

`BotWireProofs`: `[]ReadIsWhatWasSent`, `[]RequestsSayWhatIsMeant`, for any
answers, rows, account and page limit that the assumptions admit
(`AnswerAssumption`: a row names what it is about and has no fields of another
type; any other field may be missing or not legible. `RequestAssumption`: texts
and page limit are what the builders accept). The first
half is about data. `ParsedAsWritten`: the fields parsed from a body are those it
was written with, for any number of fields; `Column`: the values of a field are
those of the rows that have it, in the order of the rows; `RowsAreRead`: so a list is
read as it was written, or is refused because a column is short. These need
induction over the fields and the rows. The library's induction theorems
cannot be used, since they take an operator; `SetInduction` says the same of a
set, and follows from the fact that the numbers are well-founded. The invariant
besides `FrameInv` is `AnswersAreSent`. Then `ReadIsWhatWasSent` follows for
each packet delivered, and so a number the client puts into a request
(`NumberOfRow`) is one the server wrote. `RequestsSayWhatIsMeant` is inductive
with both, one lemma for each kind of request.

`OfflineProofs`: `EvalKeepsAndCompletes`; and `[]RetrievedIsAuthorized`, for the
dataset with any number of processes (`DatasetIsAuthorized`) and with the
evaluation beside them (`AlwaysAuthorized`), which implements the dataset's
specification (`EvalIsOneMoreProcess`). `StyleInv` follows a text on its way to
a prompt: `RawAskedFor`, that the raw records were asked for in an export;
`FileSound` and `LoadedSound`, that a sample in the file or in a process is
authorized or an answer of the agent's own; `IndexSound`, that those in the
index are authorized; and `ScriptShape`, `ServiceShape` and `CollectionShape`,
the records these are kept in. `EvalInv` is about the evaluation alone:
`PlanInv`, that the selected cases are those left to do and those whose rows are
kept, each once; `WriteInv`, that until it writes the rows are as they were, and
that it writes when every case has ended or one failed. The cases are assumed to
have ids of their own (`CaseAssumption`), as those in `eval/datasets` do;
`cases.py:98-121` does not check it. It rests on `ThoseAreThere`, that the cases
picked out of a sequence come in their order, none twice.

`ImportProofs`: `[]TypeOK` (`OfflineTypeOK`, by `DatasetTypes` and `EvalInv`);
and `[]ImportIsWhole`, likewise alone (`DatasetIsWhole`) and with the
evaluation (`AlwaysWhole`). The property speaks of the moment success is
reported; `ImportInv` says what holds before, by the steps the script still owes.
`OrderInv`: it does its steps in their order and leaves none out. `FilesInv`: a
file it no longer owes has what the export gives. `HandleInv`: no process holds
a collection whose number is yet to come. `NewIndexInv`: once the old collection
is deleted, the samples in the new one, and those of any process that may still
write to it, are samples of the export: a process that opened it has read the
file after the script wrote it, and one that read before has a stale handle. The
lemmas it rests on are that a file is written to its last line (`PlaceBounded`)
and that one import gives two samples two ids (`PlaceInjective`, `ResultIds`), so
that adding the same samples twice changes none (`UpsertOfWhole`).

`CompletedHasCommand` and `IndexedWasStored` are proved and in no run.

Only model-checked: liveness (`InHandIsWorkedOff`, `StopTerminates`,
`SilentServerIsNoticed`, `LoggedInAgain`, `ChatEnds`, `EverythingArrives`), which
rests on fairness and is out of the prover's reach. Every invariant and action
property of the passing runs, and every refinement, is a theorem.

## Plan

Done: the bot runtime, human review, the connection and its supervisor, the
wire, the chat workflow with tools and memory, the style dataset, the
evaluation, and the proofs of their safety.

1. `AgentWorkflow` and `HumanReview` composed: what was kept of a reply that a
   human then edits or rejects.
2. The pairs of the style dataset, which are neither redacted nor bound to a
   consent: what, if anything, is promised of them.
3. Proofs about the pure parts beside the codec: what `style/filters.py` and the
   redactor promise of a sample is built into sets of texts.

## Hazards without a property

`PROJECT.json` lists those that matter most. These are real too, and no property
speaks of them, because nothing in the repository promises that they cannot
happen; the models have the behaviour unless it says otherwise.

- `handler.py:115`: the delivery ack comes before the processing, and what the
  server then still keeps is its own affair. `app.py:165`: at most
  `offline_message_limit` messages are pulled, once per login. `handler.py:90`:
  a push that cannot be parsed ends the push loop (`BotRuntime` takes packets
  that parse). `state.py:78`: memory changes before the file, and a failing save
  is not modelled.
- `client.py:355`: `drain()` is awaited outside the timeout (not modelled).
- `parsers.py:61`: a text that is not UTF-8 raises `UnicodeDecodeError`, which is
  no `ProtocolError` (the model has one kind of refusal).
- `review/store.py:344`: a review is completed before the resume is answered, and
  a request that ends in between loses the reply. `graph.py:579`: what is to be
  remembered is saved unchecked. `graph.py:257`: under the LLM
  policy a human may be asked after the reply was kept and learned.
- `registry.py:115`: the idempotency key stands for the whole payload.
  `learning.py:45`: two requests for one message may both append its sample.
- `import_wechat_style.py:288`: a line of somebody who is not recognised as a
  speaker is recorded as the subject's, and without `--speaker-name` everybody's
  are.
- `runner.py:431`: a torn results file cannot be resumed. `runner.py:159`: a run
  resumed with another selection drops the rows it did not select.
  `runner.py:249`: case ids with the same letters share a message id.
  `runner.py:375`: an evaluation learns and remembers in the configured stores.
  `container.py:182`: chunks of removed documents stay in the knowledge index (not
  modelled).

## Not modelled

Texts, prompts, formatting and HTML; the language and embedding models and the
nearness they give; features and summaries of style samples; the knowledge index
and the persona, which are only read; the metrics, the mock mode and the reports
of the evaluation, which are functions of its rows; the capture, OCR and demo
scripts, which drive a screen, an OCR engine or a server and keep no state of the
system; the state that chat requests, tools and reviews leave to what only lists
or exports it. I/O errors of the local disk. `register` and `logout` of the client,
which only tests call. Two processes on one state file.
