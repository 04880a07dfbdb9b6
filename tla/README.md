# TLA+ verification of free-claude-code

free-claude-code is a local proxy that lets Claude Code (and other Anthropic or
OpenAI Responses clients) talk to many model providers, and a messaging runtime
that drives Claude Code from Discord or Telegram conversations.  Everything runs
in one Python process on one asyncio event loop, plus a timer thread that writes
the session file.  Code between two `await`s therefore runs without
interference; what goes wrong in such a program goes wrong *at* the awaits: a
caller is cancelled there, a flag that was read before one is stale after it, a
callback never fires, an owner forgets a child.  That is what these modules are
about.

Source paths below are relative to `src/src/free_claude_code/`;
`ARCHITECTURE.md` is the repository's own `src/ARCHITECTURE.md`.

## 1. Inventory

### Messaging

| Component | State | Operations | What is hard, and what makes it correct |
|---|---|---|---|
| Conversation trees (`messaging/trees/`: node, graph, queue, runtime, repository, manager, processor, transitions) | per tree: reply graph, node states, FIFO queue, the active claim; repository: trees by root, reference -> tree; one asyncio task per claim | admit, stop one, stop all, clear a chat, clear a reply subtree, complete / fail / finish a claim | admissions, stops and finishing tasks interleave; a task may be cancelled before it enters its body.  At most one task per tree, FIFO, no stranded claim, the index resolves exactly the published messages, a stopped run has no late effects |
| Node runner (`messaging/node_runner.py`) | the CLI session of one claim | run, record session, complete, fail | may report success while it is being killed; may raise |
| Tree snapshots (`messaging/trees/snapshot.py`) | none | serialise, parse | a restored tree must have no runnable node |
| Messaging workflow (`messaging/workflow.py`, `turn_intake.py`, `command_dispatcher.py`, `commands.py`) | stop / clear generations, status messages in flight | inbound message, `/stop`, `/clear`, shutdown | a message whose status was posted before a `/clear` must not be admitted after it; shutdown drains in order |
| Session store (`messaging/session/`) | in-memory state, dirty flag, debounce timer, file | mutate, schedule, flush, close, load | writer thread against event loop; crash between mutation and write; a slow writer must not overwrite a newer file |
| Messaging delivery (`messaging/limiter.py`, `messaging/platforms/`, `messaging/ui_updates.py`) | queue of keys, dedup table, numbers of the background requests, pending text of an editor | enqueue, deduplicate, send, retry, recover, flood wait, close | edits of one message keep their last value; nobody waits for ever; nothing is sent after close |
| Voice registry (`messaging/voice.py`, `messaging/platforms/voice_flow.py`) | pending transcriptions by message | reserve, transcribe, cancel, finish | a cancellation may race the end of the transcription |
| Transcript and rendering | per-run event list | append, render | text layout; nothing concurrent |
| Managed Claude sessions (`cli/managed/`, `cli/process_registry.py`) | session pool, temporary -> real id, process table | get or create, register real id, stop, stop all | stop against start; an id registered for a session that is gone |

### Proxy

| Component | State | Operations | What is hard, and what makes it correct |
|---|---|---|---|
| Provider generations (`runtime/provider_manager.py`) | current and retired generations, lease counts, background refresh, cleanup tasks, replace lock | acquire, release, replace, refresh, close | requests hold a generation over its replacement; cleanups fail; callers are cancelled while they hold the lock.  A leased generation stays open; none is forgotten |
| Provider runtime and discovery (`providers/runtime/`) | providers of a generation, model cache | get, discover, publish, cleanup | a slow discovery against a newer one |
| Provider admission (`providers/admission.py`) | recovery episode per model, waiters, retry budget of each execution, concurrency slots | gate, open attempt, succeed, fail, reject, close | one probe per episode, no lost wakeup on cancellation, budgets, slots given back exactly once |
| Sliding rate window (`core/rate_limit.py`) | timestamps | acquire, retune | at most N acquisitions in any window |
| API key pool (`providers/key_pool.py`) | cooldown per key | choose, mark, wait | rotation under concurrent failures |
| Stream recovery, OpenAI chat provider, Codex provider and account (`providers/openai_chat/`, `providers/openai_codex/`) | one upstream stream, hold-back buffer, tokens | open, forward, retry, correct, refresh | a retry after visible output; a refresh by two callers |
| Native tool markup (`providers/nvidia_nim/native_tool_stream.py`) | a framer for each text field of a stream | feed, finish | markup is cut anywhere between chunks; it must never reach the client as text, and each call is made once |
| Anthropic stream ledger, message conversion (`core/anthropic/`) | open content blocks | append, close, convert | block events in order, each block closed once |
| Responses conversion and store (`core/openai_responses/`, `api/handlers/responses.py`) | items and slots of one reply; records in memory and in a file | translate, record, resolve a continuation | what is read may be broken; a response seen completed must be found again, after a restart too |
| Request execution, response lifetime (`application/execution.py`, `api/response_streams.py`, `api/request_lifetime.py`) | lease and body of one response | commit first chunk, stream, release | the lease is released exactly once, on every way out |
| Messages endpoint and web tools (`api/handlers/messages.py`, `api/web_tools/`) | one request: a buffered decision, the hops of a fetch | route, decide, search, fetch, fold | the provider's decision is read to its end before anything is shown, then replayed or replaced |
| Admin API and configuration (`api/admin_routes.py`, `api/admin_static/admin.js`, `config/`) | managed env file, table of context windows, live settings; in each page the values shown, polls and actions under way | load, edit, prepare, commit, publish; poll, restart, sign in | the file, the settings and the generation agree after a failure in the middle; a page is out of date when it applies; polls and actions overtake each other |
| Application runtime (`runtime/application.py`, `asgi.py`, `bootstrap.py`) | owned resources | start, shut down | ordered, retryable shutdown |
| Server supervisor (`cli/commands.py`) | run / restart / stop request | serve, restart, stop | a request that arrives while the server is starting |
| Desktop controller (`cli/desktop.py`) | the supervisor it drives | start, restart, stop, quit | a click while a server starts or winds down |
| Command bridge (`cli/bridge.py`) | the frame it serves, its child process | read a frame, run, time out, answer | output held open by descendants, frames that are cut or too large |
| Side panel (`cli/extension_assets/sidepanel.js`) | the conversation, the turn, a timer that saves | send, stop, clear, approve, run a tool, restore | stops, clears and saves between a call and its result |
| Context scan (`cli/context_scan.py`) | the table of context windows | read, resolve, probe, write | rewrites a file that others edit; rate limits |
| Launchers, installation, editor extension | OS processes | - | process launch; not modelled |

Interactions.  The workflow calls the tree manager (under its lock), gets back
UI targets and snapshots, writes the snapshots to the session store and edits
platform messages through the outbox.  The tree processor starts claim tasks,
whose node runner takes a managed Claude session; that CLI process calls the
proxy like any other client.  A proxy request leases a provider generation,
asks its provider to open an upstream stream through the admission controller,
and keeps the lease until the response body has been sent.  The admin API
prepares a configuration, and the application runtime replaces the provider
generation as part of its commit.

`PROJECT.json` lists the same components with what is modelled of each, and the
hazards of the code at the lines where they bite.

## 2. Modules

| Module | What it is |
|---|---|
| `MessagingTrees` | the conversation trees, their repository, the manager's locked operations and the claim tasks |
| `ClaimQueue` | abstract: one tree is a first-come first-served server of claims |
| `MessagingTreesProofs` | theorems about `MessagingTrees`, the refinement of `ClaimQueue` included |
| `ProviderGenerations` | the provider generations, the replace lock, refresh, cleanup and shutdown |
| `LeasedResource` | abstract: one generation is a resource that is leased, retired, cleaned up |
| `ProviderGenerationsProofs` | theorems about `ProviderGenerations`, the refinement of `LeasedResource` included |
| `ProviderAdmission` | the admission controller: recovery episode, probe, budget, slots |
| `FailurePolicy` | what an exception of a provider is taken for: worth an attempt or not, and the failure that is reported |
| `ProviderServicesProofs` | theorems about `ProviderAdmission`, `FailurePolicy`, `ModelCatalog` and `CodexAccount` |
| `SessionPersistence` | the session file: timer threads, flush, authoritative clear, failing writes, crash and restart |
| `DurableState` | abstract: a state in memory with a copy on disk that only moves forward |
| `SessionPersistenceProofs` | theorems about `SessionPersistence`, the refinement of `DurableState` included, `MessagingWorkflow` and `VoiceNotes` |
| `MessagingWorkflow` | prompts, their status messages, stops and clears of the messaging workflow around the trees and the store |
| `VoiceNotes` | the registry of pending voice notes and the flow that drives one |
| `MessageDelivery` | the limiter, the outbox, the editor of a status message and their close |
| `ManagedSessions` | the pool of Claude sessions, their subprocesses and the runners that use them |
| `ManagedSessionsProofs` | a theorem about `ManagedSessions` |
| `OpenAIChatStream` | one run of the chat-completion stream runner: ledger, holdback, replay, continuation, repair |
| `InferenceResponse` | extends it: the progress deadline, the HTTP response and the lease around the runner |
| `HedgedOpen` | the API key pool and the sequential and hedged opens |
| `ServerLifecycle` | desktop controller, supervisor, application runtime and admin updates |
| `ServerProcessProofs` | theorems about `ServerLifecycle`, `InferenceResponse` and `HedgedOpen` |
| `ModelCatalog` | the model cache, discovery and the published catalog |
| `CodexAccount` | the ChatGPT account: sign-in, refresh, disconnect, across processes |
| `ChatHistory` | the replay of a conversation to a chat provider: the converter, its ledger of calls and results, and the coalescing of what comes out |
| `ReplayedReasoning` | the reasoning of earlier turns on its way back to the Codex backend, and the repair of a record that is rejected |
| `StreamContract` | the events of an Anthropic stream and what a client may receive of them |
| `CodexStream` | one run of the Codex backend's runner: items, replay, renewal, correction |
| `MessagesEndpoint` | a `/v1/messages` request: its way, the buffered search decision, web tools, streaming or folded |
| `ResponsesStream` | one reply of `/v1/responses`: the translation of Anthropic events, and its record |
| `ResponsesStore` | the records of completed responses, in memory and in their file, and their continuations |
| `NativeToolStream` | the normaliser of tool markup in NIM streams |
| `SidePanel` | the turn loop of the browser side panel |
| `CommandBridge` | the native messaging host that runs commands |
| `AdminEditor` | pages that edit the settings, and the files they change |
| `AdminConsole` | the page's poll of its server, and Restart and Stop |
| `AdminAccounts` | the page's card of a connected account |
| `ContextScan` | the command that fills the table of context windows |
| `RequestProofs` | the invariants of `ResponsesStore`, `MessagesEndpoint`, `CommandBridge` and `SidePanel`, and the lemmas about readers of a stream |
| `RepliesProofs` | theorems about them, as the run `replies` states them |
| `MC*` | instances for TLC; each `.cfg` is one run.  `MCReplies` extends `MCRequests`, the part of it that serves requests, which is all that `RequestProofs` needs to know |

Definitions marked *Slip* are defective variants of the operator they precede
(a dropped guard, a missing reset, a swapped order).  The specifications do not
use them.  They are there to show that each property can be broken: with the
Slip in place of the operator, TLC finds the property violated in the same run.

### MessagingTrees

One step is one section under the manager's lock, or one scheduling step of a
claim task.  The manager's lock is never held while another task can enter, and
the tree locks are only taken under it, so a locked section is atomic.

| Variable | Code |
|---|---|
| `trees`, `index` | `TreeRepository._trees`, `_reference_to_tree` |
| `root`, `state`, `status`, `replyTo`, `session` | the graph and the nodes of each `MessageTree` |
| `place` | the FIFO queue: arrival stamp of each waiting node, 0 for the others |
| `active`, `tombstoned`, `claim` | the active claim, its `cancellation_requested`, the `NodeClaim`s |
| `task`, `cancelled`, `reported` | the asyncio task of each claim, whether it was cancelled, whether its runner reported an end |

| Actions | Code |
|---|---|
| `AdmitRoot`, `AdmitReply`, `AdmitAgain` | `TreeQueueManager.admit` for a new root, a reply, a message delivered again |
| `TaskStarts`, `AnnouncementEnds`, `RunnerReturns`, `RunnerRaises`, `FailureCallback`, `FinishClaim` | `TreeQueueProcessor._run_claim` and the recovery of a task that never entered its body |
| `RecordSession`, `CompleteClaim`, `FailClaim` | the calls the node runner makes during a run |
| `CancelNode`, `CancelAll`, `ClearScope`, `RemoveSubtree`, `RemoveSubtreeRaises` | `/stop` and `/clear` in their forms, and the removal that raises half-way |

A tree object and the identity under which the repository publishes it are kept
apart: a detached tree may still have a running claim, and its root may be
admitted again as another tree object.  A reference is a pair of a prompt and
"prompt" or "status"; that is all the code tells apart.

### ProviderGenerations

`stage` says how a runtime is owned (candidate, current, retired, closed, or
dropped after a failed replacement); `lease` and `refresh` are the lease count,
split by holder; `lock`, `step` and `awaited` describe the holder of
`_replace_lock` at its awaits; `closer`, `targets`, `joined` and `clean` are the
progress of `close()`.

`Acquire`, `Release`, `RefreshBegins/Leases/Cancelled`, `BackgroundStarts/Ends`
are the leases; `ReplaceBegins`, `ReplacePrepares`, `CommitFails`, `Publish`,
`ReplaceEnds`, `ReplaceCancelled` the sections of `replace()`; `CloseBegins`,
`CloseRetires`, `CloseGenerations`, `CloseEnds`, `CloseCancelled` those of
`close()`; `CleanupEnds` the end of a cleanup task.  A runtime whose commit was
cancelled is "abandoned": no field of the manager refers to it any more.

### ProviderAdmission

`phase` is where each execution is, `permit` the generation of its probe permit;
`episode`, `created`, `leader`, `probing`, `due`, `terminal`, `waiters` are the
fields of the recovery episode of one model (`due` and `terminal` stand for the
comparison of its deadlines with the clock).  The `Gate*` actions are the turns
of `_wait_for_gate_loop`; `SleepEnds`, `RateAdmits` and `SlotAcquired` the rest of
`open_attempt`; `Succeeded`, `Rejected`, `Corrected`, `Failed`, `FailedFinally`,
`AcceptedEnds`, `AttemptCloses` the outcomes; `Cancelled*` what each suspension
point does when its caller is cancelled there.  `RunnerLost` is a stream runner
that ends between a failed attempt and the next one, or between closing its
stream and closing its attempt: in both places the code does not tell the
controller.  `run_with_retry` has no such place, so only members of `Runners` do
this.

### FailurePolicy

No state: the operators translate `providers/failure_policy.py` and the places that
override it.  An exception is a record of what is read of it: its class, its status, the
status in its body, the markers in its text, whether it speaks of the context window, and
whether its `Retry-After` is beyond the ceiling.  `RawErrors` excludes combinations the
SDK and httpx cannot raise (`StatusesOf`), and the text of connection, transport and protocol
errors is taken to be their own, not upstream's.  `Retryable` is the decision of the admission
controller, `StreamRetryable` that of a stream runner which has none, `Classified` the failure
that is reported, and `OfNIM`, `OfOpenRouter`, `OfCodex` what the providers put in the place of
an exception, as a choice, since they look at details of its body.  `ProviderAdmission` extends
the module: `Rejected`, `Failed` and `FailedFinally` are steps for which there are errors that
the policy does not retry, or does.

### SessionPersistence

The state is a version number: what matters is which change a snapshot contains.
`memory` is the store, `disk` the session file, `generation` and `timer` are
`_save_generation` and `_save_timer`; `phase`, `tag` and `snapshot` follow each
thread through a save (its place, and the generation and the snapshot of its
`_PendingWrite`).  The main thread is that of the event loop, the only one that
calls the store; a timer thread bears the generation that started it.
`acked` records the last version for which a flush or a clear returned normally.

Three locks: the store's, the timer's, the writer's.  Sections of the first two
are one step; the writer lock is held from `WriteBegins` to `WriteEnds`, and the
store's lock for the whole of a clear (`clearing`), which is why a timer thread
can only set the dirty flag or take a snapshot when `StoreFree`.  `Save` is a
change with `schedule_save`; `Flush` and `FlushClaims` are `flush`; `Clear` is
`clear_scope` up to the wait of `write_data`; `TimerFires` and `TimerClaims` are a
timer thread up to its claim; the other steps are common to both.  `Crash` is the
death of the process at any point, and the load by the next one.

### MessagingWorkflow

A handler is an asyncio task; `operation` is the stop or clear that holds
`_state_lock` across its awaits.  `turn` and `token` follow a prompt from its
arrival to its admission, `nodes` and `live` are what the workflow sees of the
trees, `stored` and `tracked` the prompts and the message ids in the store,
`chat` what is on the platform, `doomed` what a clear has still to delete.  A
stop and a clear first advance their generation and then reach the trees, the
store and the platform; any of these may fail.  `stopped`, `cleared` and
`leftBehind` are observers: the last boundary that succeeded, and the messages
that a failure excuses.

### VoiceNotes

`notes` is the registry, `handoff` the task that hands the text over, `flow` the
caller.  Each critical section of the registry is a step.  A text may itself be a
stop or a clear, so a claim can be a canceller: that is where two handoffs could
wait for each other.

### MessageDelivery

`task`, `text`, `number` and `attempts` are a request, its text and the background
task that sees it through; `numbers` is `_fire_and_forget_generations`, `queue`,
`func` and `futures` the compacting queue, `worker`, `current` and `active` the one
worker, `pending`, `recoveries` and `recovery` the throttled editor, `closing` how
far `close` has come.  `ready` is the event loop's order of what has become
runnable, which decides whether an older task looks at its number before or after a
newer request is numbered.  `shown` is the text on the platform; a call that fails
or is cancelled may have changed it all the same.  `Outlives` names the two ways in which
an older text passes a newer one: the recovery of an edit that failed, and the retry of
one whose number was given again; `LatestIsShown` lets it be shown in those cases only,
and only that one.  `Request` and `Update` are the two
ways in (a caller that waits, an edit of the status editor), `TaskProceeds`,
`Answered`, `Retries` and `GivesUp` the turns of `_wrapped`, `WorkerTakes` and
`CallEnds` those of `_worker`.

### ManagedSessions

`run` and `generator` are a runner and its `start_task` generator, which is
closed after its runner when the runner is cancelled outside it; `pending`,
`sessions`, `tempToReal`, `realToTemp` and `closing` are the manager's tables,
`process`, `alive` and `pids` the subprocesses.  The manager's lock is held over a
session's stop (`busy`).

### OpenAIChatStream and InferenceResponse

The runner's loop is modelled with the ledger it writes, the events it holds back
and the attempts it has left; an event keeps what
`assert_anthropic_stream_contract` looks at.  `client` is an observer that applies
that contract to what was delivered.  `InferenceResponse` adds the task that
pulls events, the first event's race with failure, the deadline that keepalives
do not renew, sends that wait for a client that does not read (`serving` is `"blocked"`:
the generator is suspended at its yield, so neither the runner moves nor is the deadline
tested), disconnects at any point, and the release of the lease.

### HedgedOpen

`stage`, `task` and `key` are an open and its two racers, `extra` the slot that a
hedge takes by hand, `losers` the racers left to the background cleanup; the key
pool keeps the order of last use, holds, strikes and retirement.  Time is
abstract: a hold or a window entry may end at any step.

### ServerLifecycle

Settings are the version of the file they were read from.  `worker` is the server
thread in `ServerSupervisor.run`; `scheduled`, `stopRequested` and `restarts` are
a supervisor's requests; `owned` and `cleanup` the application runtime and the step
its close is at; `update` an admin request.  The desktop controller makes a new
supervisor for each start.

### ModelCatalog

A list is present or absent.  `configured`, `connected` and `revision` are what
makes a provider usable, `available` and `cache` the fields of the cache, `catalog`
the file, `job` each discovery under way with what it was told to ask.  What
arrives is cached and published in one step, since there is no await in between.

### CodexAccount

Credentials are numbered as OpenAI issues them.  `saved` and `fileLock` are shared
by the processes of a user; `creds`, `login`, `admin`, `access` and `stateLock`
belong to one process.  Locking and writing the file run in threads: a cancelled
caller releases the lock and leaves its thread behind (`stray`).  `withdrawn` is a
history: the credentials granted to a sign-in that was detached before it began to
write them.  Nobody ever holds those; a write that had begun is not undone.

### StreamContract, CodexStream and NativeToolStream

`StreamContract` is the vocabulary between the modules that produce an Anthropic stream
and those that read one; `Receive` applies `assert_anthropic_stream_contract` event by
event.  `CodexStream` is `_run_stream` with its `ResponsesProviderStream`: `answer` is
the translator of the current attempt with its items and blocks, `held`, `committed` and
`begun` the hold-back, `renewed` and the correction what an attempt may do once.  A
refused history record is repaired (`Correct`) only before the stream is open: what an
open one reports leaves `_effective_error` with a status or a message that
`history_retry_body` does not take.  Upstream may interleave its items and say something
after its terminal event; `late` observes that it did.  In `NativeToolStream` a text is
a sequence of symbols, of which the namespace of the markup is two, so that a chunk may
end inside it; `Chunk`, `LastChunk`, `ChunkAfterLast` and `StreamEnds` are the turns of
the loop, `heard` and `shown` what went in and came out.

### MessagesEndpoint

`Route` decides by the request's tools and `tool_choice`; `at` is what the request
awaits.  A search decision of the provider is collected in `buffer` and then
replayed or replaced by a search made here (`of` tells the two apart); the events of
a body go to the client or to the aggregator that folds them into a message.
`hops` and `connector` follow a fetch through its redirects.

### ResponsesStream and ResponsesStore

`assembler` is the `ResponsesStreamAssembler`: active blocks, the slots of the items
that were announced, the sequence number.  Events come in any order, with any
index or none.  `reader` is a client that checks what it receives.  In `ResponsesStore`,
`memory` and `file` are the records, `loaded` whether the file was read; `Start` resolves
`previous_response_id`, `Completes` records the turn and tells the client, `Restart`
is the death of the process.

### SidePanel and CommandBridge

`at` is the await at which a turn gives way to other handlers, `history` what it
replays, `left` the calls of a reply that have no result yet, `card` and `timer` the
approval and the save that are pending; the user may stop, clear or close at every
one of them.  In `CommandBridge`, `pipe` is standard input in headers and payloads,
`shell` and `kin` a command and what it leaves behind, `drained` whether the reader
threads have come to the end of the output.  `Escapes` is an exception that no handler of
`handle` takes and that ends the host.

### AdminEditor, AdminConsole and AdminAccounts

`env` and `table` are the files; a `page` holds the values as it loaded them and as they
are shown, with what was touched; a `call` is an apply between its steps
`prepared` and `tabled`.  `AdminConsole` has the polls and clicks of one page, each an
asynchronous function at one of its awaits; `AdminAccounts` the card, its timers (of
which `authPollers` remembers one) and the requests under way.

### ChatHistory and ReplayedReasoning

In `ChatHistory` a message is its role, its blocks and, of an assistant, a
`reasoning_content` of its own (`top`).  `AddUser`, `AddSystem`, `AddAssistantText` and
`AddAssistant` are the turns of the loop of `AnthropicToOpenAIConverter.convert_messages`; `output`, `segments` and
`results` are the fields of the ledger: what was let out, what is held back behind a
call, and the results that have come for it.  `Wire` is what `build_base_request_body` makes
of the output.  A conversation may stop at any message, so every property is one of
every prefix.  In `ReplayedReasoning` a reasoning item is a carrier with what can be
seen of it: whose it is, whether it can be read, whether it is sealed, and whether its
id is one the backend takes.  `Keeps` and `KeepsPreface` compose the client's transcript,
`Send` turns it into input items and prepares them, `Repair` is the backend's refusal of
one record, which it may name by place, by id or not at all, and the repair that follows.

### ContextScan

`recorded` is the file, `scan` the run with the rows it has so far, `asked` the probe of
each NIM model with its rung and its try.  `Table` is the end of `run`: what was resolved
and what is carried over from the file.  `wanted` are the models that the run was asked
for, by name, pin or route; `LeftOut` those that it does not write a row for, because nobody
wants them or because it cannot measure their provider.

## 3. What is checked

A run may carry several components that do not interact in the model: a behaviour
chooses one of them at the start (`component` in the MC module) and leaves the
others alone, so the run's state space is the sum of theirs, each component's
properties are stated under its own choice, and its fairness is assumed only
while it is chosen.  The type invariant of the trees, the generations, the
admission and the store is a theorem (section 4); that of each further component is
part of its first property.

| Run | Instance | Shows |
|---|---|---|
| `trees` | one chat, 2 tree objects, 3 prompts, 3 claims, 3 admissions; symmetric prompts; 535,509 states | `OneTaskPerTree`, `NoStrandedClaim` (a granted claim has a live task that will release it), `ForestIsConsistent` (queue, reference index and reply graph agree, and no reply overtakes its parent), `ResumedSessionIsIdle` (no two runners drive one CLI session); the action properties `StoppedRunLeavesNoTrace` and `DetachedTreesStartNothing` |
| `trees_progress` | the same with one tree object and ordered arrivals; 43,989 states | `EachTreeIsAFifoServer` (refinement of `ClaimQueue`); liveness: `StoppedRunReleasesTree`, `QueuedPromptIsServed` |
| `trees_stop_all` | two chats | finding 1 |
| `generations` | provider generations: 2 users, 3 runtimes; 48,380 states | `LeasedStaysOpen`, `RetiredIsAccountedFor`, `ClosedMeansClean`; `EachGenerationIsLeased` (refinement of `LeasedResource`); liveness: `WaitsEnd` (shutdown ends although leases stay open, and the replace lock is always freed) |
| | response: 2 tools, 4 attempts, 2 chunks with content; 98,372 states | `ContractKept` (the stream contract, and once a client has seen content, the answer does not start again), `LeaseOutlivesStream`; liveness: `RequestEnds`, unless a send blocks for ever |
| | sessions: 2 runners, 2 ids; 289,651 states | `NoOrphans`: every process can still be stopped through the session that has it |
| | hedged opens: 1 open, 2 keys, 2 slots; 18,064 states | `HedgeSlotsReturn`: the slot taken by hand is returned once, after its racer |
| | server: 2 supervisors, 1 change of the file, 2 restarts; 117,165 states | `RestartsAreServed`: the serving runtime has the settings that were asked for and was built after the one before it closed, in order |
| `admission` | admission: 2 calls and 1 stream runner, 2 attempts each, 2 slots; 58,133 states | `ProbeLeadsEpisode`, `WaitersAreLed` (no lost wakeup: whoever is parked has a leader that is at work), `SlotsAccounted`; `StaleOutcomeIsInert`, `CoalescedFailTogether`; liveness: `EveryCallReturns` |
| | catalog: 2 providers, one of them an account, 2 syncs, 2 changes of the account; 171,825 states | `CatalogIsUsable`: a discovery that answers late never puts an unusable provider into the catalog |
| | account: 1 process, 3 credentials; 126,524 states | `CancelledLoginStaysOut`, with the exception it names; liveness: `EveryCallReturns` |
| | conversion: 4 messages; 32,148 states; history: 2 blocks, 4 attempts | `HistoryIsReplayed`: what a chat provider or the Codex backend gets of earlier turns is what was said, thought, called and answered, in order and in a form it accepts; a repair drops nothing that can be read, and repairs end |
| `admission_leader` | the admission alone | finding 2 |
| `admission_slots` | the admission alone | finding 3 |
| `persistence` | store: 3 timers, 3 versions, any number of flushes and crashes; 181,584 states | `StoreIsDurable` (refinement of `DurableState`); liveness: `ChangesReachDisk`, `CallsReturn` (no deadlock between the store's lock and the writer lock) |
| | workflow: 2 prompts of one chat, 1 global stop, 1 clear; 625,915 states | `BoundariesHold`: nothing received before a stop or a clear that succeeded runs or is kept, and no message on the platform is forgotten |
| | voice: 3 claims for 2 notes, 1 command; 37,092 states | `VoiceHasOneOwner`: completed or stopped, no stale reference, no two spoken commands that wait for each other |
| | delivery: 4 requests of one message (one waits for its answer, two may be recovered), 1 retry; 169,947 states | `DeliveryHolds`: every waiting caller is owed an answer, a key is queued once, the newest update that the platform took is the one shown, unless an older text `Outlives` it, and nothing is left after the close |
| `response_start` | the response alone, 1 tool, 1 chunk | finding 4 |
| `account_refresh` | 2 processes with one account | finding 5 |
| `replies` (1,521,065 states) | Codex: 2 items, 3 attempts, 3 events with content; Responses: 2 indices, 4 events; NIM markup: 3 pieces, blocks of 6 symbols | `StreamsAreLegal`: a Codex client gets one message of one answer, a Responses client can follow to the end, markup never passes as text, and a complete answer has the calls of its block or the structured ones |
| | endpoint: 2 blocks, decisions of 7 chunks, 2 redirects; bridge: 3 frames | `EachRequestIsAnswered`: one answer, of the form that was asked for, never mixed of two sources; while the bridge's host runs, an answer to each frame in turn |
| | store: 4 requests, 2 records | `ContinuationsAreServed`: a response that was seen completed can be continued, with all its turns, across restarts |
| | panel: 2 rounds, 2 calls a reply, 3 prompts | `RequestsAreReplayable`: each history that is sent is one a provider accepts, and nothing runs after a stop |
| | editor: 2 pages, 2 models, 2 edits, 1 by hand; console: 2 polls, 2 clicks, 3 servers; account card: 2 requests, 3 clicks; scan: 4 kinds of models, 2 rungs | `OperatorIsServed`: what is applied is what was edited, a restart that is reported has happened, the page goes on watching, a sign-in is followed to its end, a scan loses a recorded number only with a row that it leaves out |
| `panel_replay` | the panel alone | finding 6 |

### Bounds, and why they are enough

- *Trees.* Three prompts give a running node, two waiting ones and every shape
  of reply graph on three nodes; two tree objects give a detached tree next to a
  published one of the same identity.  Three claims let a claim have a successor
  and that one another, so that a late report meets a tree that has moved on.
  `MaxAdmissions` caps the arrival stamps; an admission after a removal counts,
  so prompts return with the bound still finite.  Prompts of one chat are
  interchangeable, hence the symmetry set; the liveness run has no symmetry and
  fixes the order of arrival instead (`InOrder` in `MCMessagingTrees`), which
  loses nothing for the same reason.
- *Generations.* (`WaitsEnd` joins the two waits of shutdown and of the lock.)  Three runtimes are two replacements, or one that failed and
  one that worked: there can be a current generation, a retired one that is
  leased and an unpublished one at once.  Two users make "the last lease"
  different from "a lease".
- *Admission.* Three executions are a leader, one that is parked and one with a
  stale attempt.  Two attempts have a first failure and a last one; two slots
  are fewer than executions, so that a permit can go stale in the queue for a
  slot.  Episodes need no bound: each failure spends an attempt.
- *Persistence.* Three generations are a timer whose write is under way, a newer one
  that is cancelled or superseded, and the flush or clear that overtakes both.
  `MaxVersion` bounds the changes (a restart starts the generations anew but not
  the versions), `Timers` the changes between two restarts.

- *Workflow.* Two prompts are one that is answered by the other, or two of which a
  boundary separates the handlers; a prompt may be in flight at each of its awaits
  when the stop or the clear runs, and the startup notice beside it.
- *Voice.* Two deliveries of one note make an older generation, a third claim for
  another note makes two handoffs that could drain each other; a typed command is
  a canceller that is not itself a note.
- *Delivery.* Four requests of one message are a first edit somebody waits for, two
  updates and the recovery of one of them: enough for an older text to be asleep, in
  the queue and with the worker while newer ones pass it.  One retry stands for the
  two of the code: it has a first failure, a pause, and a last failure.  Keys share
  nothing but the worker, which one message already finds busy.
- *Sessions.* Two runners and two ids give an id that is reused, refused or
  reported late by the other's session.  Three runners with one id were checked
  separately (1,480,593 states).
- *Response.* Four attempts are the opening, a replay, another replay and a
  recovery; two chunks put content before and after a break; two tools can both be
  open when the stream ends.
- *Hedged opens.* One open has the whole race, since keys and slots are taken by
  hand; two slots are the attempt's and the hedge's.  Two opens with two keys and
  three slots were checked separately (9.8 million states).
- *Server.* Two supervisors are a desktop start after a stop.  Two versions with
  two restarts were checked separately (561,787 states).
- *Catalog and account.* Two syncs can overlap with two changes of the account.
  Three credentials are the ones a process was started with, the ones a sign-in or
  a refresh gets, and their successor; finding 5 needs the second process.
- *Conversion and history.* Four messages are a call, something said in between, its
  result and what follows; turns have one call or two, thinking before and after them, and
  results in one message or apart, in either order, among texts and images.
  Two blocks are two records, of one backend or of two; four attempts allow three
  repairs, so that one record is repaired twice, or one and then the other.
- *Streams.* Two items or two indices are one that overlaps another; three attempts a
  replay and a failure after it; three events put content on both sides of a failure.
  Three pieces of a NIM answer are text, a block with an invocation in it and what
  follows it, and each symbol may be the last of a chunk.
- *Requests.* Seven chunks are a decision that just fits, a longer one is too large.
  Four requests with two records are a chain whose beginning was evicted while its
  end is continued.  Two rounds of two calls have a turn cut off by
  the limit, and calls of which one has a result; three prompts a conversation that is
  cleared or restored between turns.  Three frames have a fault between two answers.
- *Operator.* Two pages are one that applies under the eyes of another; two models one that
  a route keeps and one that a pin does.  Two polls and two clicks overlap pairwise.
  The scan starts from any table, so one run shows what it keeps.

### Fairness

- *Trees.* The event loop runs a ready task (`SchedulerFairness`: weak fairness
  of the steps of a claim task that need nothing from outside), and an unstopped
  CLI run ends with a result or an error (`RunnerFairness`; the CLI session has a
  process whose end closes its event stream).  Nothing is assumed of a run that is
  being killed, of users or of the platform.
- *Generations.* Tasks that were created run; commits, cancelled discovery
  requests and cleanups return.  Nothing is assumed of a request: it may keep its
  lease for ever, and `ShutdownEnds` (part of `WaitsEnd`) holds all the same, because the drain has
  a time limit.
- *Admission.* Ready callers resume, deadlines pass, the upstream answers or
  times out (weak fairness).  The semaphore serves waiters in order, so a waiter
  for whom slots become free again and again does get one: strong fairness of
  `SlotAcquired`.  `EveryCallEnds` (part of `EveryCallReturns` in the run) is conditional on what findings 2 and 3 show
  may fail, and on nothing else.
- *Persistence.* Threads run, timers fire, file writes end.  `ChangesReachDisk`
  assumes besides that no write fails; and since the changes are bounded it says
  what happens when they stop.  While they keep coming within the debounce
  interval, each cancels the timer of the one before it, and the code promises
  nothing.

- *Response.* The deadline timer fires, a finished wait is noticed, and cleanup
  proceeds (`RequestFairness`).  Nothing is assumed of the upstream: it may stay
  silent with keepalives going out for ever, which is why the deadline must not be
  renewed by them.  Nor is anything assumed of the client: `RequestEnds` leaves out, in so
  many words, a request whose send blocks for ever, since no timeout of this server bounds
  a send.  The deadline is a time on the clock, tested when the next event is pulled, so weak
  fairness is enough: between two sends it has either passed or will.
- *Replies.* No fairness: these properties say what may not happen.  That the page is
  still watching, or that a card is quiet only when it is right, is a statement about
  what is pending in a state, not about what follows.
- *Account.* Ready tasks run; a sign-in, a request to OpenAI and the wait for the
  file lock each have a time limit in the code, so each of them ends somehow (weak
  fairness of the disjunction, failure included).  `asyncio.Lock` is first come,
  first served: a new refresh does not start while somebody waits for `_state_lock`
  (`Queued`).

Deadlock is not checked where a component may really have come to its end: a closed
manager, executions that have all ended, an over request, notes and prompts that
are all handled.  In the store, a death of the process is possible everywhere
anyway; that its locks do not block each other is what `CallsReturn` says.

## 4. What is proved

TLAPS proves the following for all values of the constants that satisfy the named
`ASSUME`s of the module and of the instance it extends (names are distinct, runtimes and
supervisors are numbers, the sets of executions, opens and keys are finite, budgets are
positive, attempts are counted by a number, a prompt is of one chat, every handoff of one note); TLC evaluates them in the
runs.  A theorem about a component of a sum is about the specification of the run, `MCSpec`: a
behaviour that chose another component leaves the variables of this one alone, so its
invariant is kept by every step.  Every theorem follows the same path: an inductive invariant, a lemma per
action that preserves it, and a final temporal step.

`MessagingTreesProofs`
- `TypeCorrect`, `OneTaskCorrect`.  The inductive invariant is `TypeOK` together
  with `OneTaskPerTree` itself.  Type correctness already needs facts about the
  graph that are not evident: a reply subtree consists of prompts, and the parent
  through which a session is found is a node.  One task per tree holds because a
  claim is granted only to a tree with no active claim, or by the very step that
  ends the task of the one it replaces, and under an id that no task has had.
- `NoStrandedCorrect`, `ForestCorrect`, `ResumedCorrect`, `StoppedCorrect`,
  `DetachedCorrect`, and `FifoCorrect`: every tree object implements `ClaimQueue`.
- One inductive invariant, `Agreement`, carries them all, because each structure is
  kept right only by what holds of the others.  `Graph`: the index holds exactly the
  references of the published trees, a reply's parent is live, and every node is
  reached from the root (`Rooted`, stated as: a set that contains the root and is
  closed under replies contains the tree).  Without `Rooted` the removal of a root
  could leave nodes behind that nothing indexes.  `Order`: the queue holds exactly the
  pending nodes, at distinct places that some admission gave, a reply waits behind its
  parent, and only a published tree has something to run.  `ClaimShape`: a stopped
  claim's node runs no more, nor does that of a claim whose task has come to its end,
  and a claim that cannot be addressed has been cancelled already; without it a
  successor could be granted while the node of its predecessor is in progress.
- `ForestCorrect` and `NoStrandedCorrect` are conjuncts of it; `ResumedCorrect` adds
  `SessionShape`, that a recorded session comes from a run of the same tree.  The
  action properties and the refinement follow step by step: an admission is an
  arrival, the end of a claim is a release that serves the oldest, and every stop,
  clear, removal and failure withdraws prompts and does nothing else to the queue.

`ProviderGenerationsProofs`
- `TypeCorrect`, `LeasedCorrect`, `RetiredCorrect`, `ClosedCorrect`, and
  `GenerationsAreLeased`: the manager implements `LeasedResource` for every
  runtime.
- The inductive invariant adds four parts to these properties.  `LockShape`: who
  holds the lock in which step, that nobody holds it for a request or a replacement
  once shutdown has begun, and that no refresh task is registered from then on.
  `StageShape`: exactly the generation in `current` is current until shutdown
  retires it, and only the runtime being committed is a candidate.
  `RefreshShape`: only the current generation's refresh can still start, and only
  retired generations are cleaned up.  `ShutdownShape`: while `close()` drains,
  its targets are all the retired generations, and while it waits, unless a
  cleanup failed, the retired generations are those it has joined.  Without
  `RefreshShape` a background refresh might lease a generation that is being
  cleaned up; without `ShutdownShape` the end of the last joined cleanup would
  not show that nothing is left.
- The refinement theorem uses the invariant in the same way: a step of the
  manager changes, for each runtime, at most what one action of
  `LeasedResource` changes.

`ProviderServicesProofs`
- `TypeCorrect` (with it: no execution exceeds its attempt budget),
  `ProbeCorrect`, `ParkedCorrect`, `LeaderCorrect` and with them `LedCorrect`,
  `StaleCorrect`, `CoalescedCorrect`, `SlotsCorrect`.
- The inductive invariant adds `EpisodeShape` (an episode that is closed or
  cooling has neither leader nor waiters, and a probe has a leader), `LeaderPlace`
  (where the leader may be), `WaitersPlace` and `ExhaustedPlace` (where those may
  be who wait for an episode or failed with it, and that neither is the leader) and
  `BudgetLeft` (a caller inside the gate has an attempt left).  They are needed
  because the properties speak of a caller at the gate, and what threatens them
  comes from elsewhere: an attempt that was opened before the episode, a leader
  that is outside the controller between two attempts, a waiter that is woken by
  one episode and meets the next.
- `SlotsCorrect` counts: each action moves at most one execution in or out of the
  set of holders, and the lemmas relate that to one step of `slots` with the
  cardinality theorems of the library.

`SessionPersistenceProofs`
- `TypeCorrect`, `ConfirmedCorrect`, `DiskCorrect`, and `StoreImplementsDurable`: the
  store implements `DurableState`.
- The inductive invariant adds `PendingShape` (a pending write of the store's
  generation has the store's state, and what is being written is not older
  than the file), `OneWriter` (the writer lock) and `MainShape` (a flush or clear
  is never superseded, and the file has its state once it is written).  The heart is
  `PendingShape`: generation and state change together, so the check of the
  generation under the writer lock is a check of the snapshot's age.

- `WorkflowCorrect`: the boundaries of stops and clears hold for any number of prompts,
  chats and overlapping commands.  A boundary is drawn under the workflow's lock, and
  what is admitted is compared with it under the same lock; the invariant says what the
  lock's holder may rely on at each of its awaits.  `HeldShape`: what a stop has cancelled or a
  clear detached stays so until it lets go, since the tokens it made stale stay stale.
  `StatusShape` and `ClearShape` follow a status message: posted by a handler that is still at
  work, tracked, doomed, or left behind by a failure, so that a clear which forgets the chat at
  its end has deleted it.  `OwnedShape` is that sum for every message on the platform.
- `VoiceCorrect`: a note is completed or stopped and never both, and commands that drain
  handoffs never wait for each other.  `ReferenceShape`: a reference leads to a claim whose
  flow is under way; `TakenShape`: a claim that was taken has no reference left and starts no
  handoff.  A command drains what it took before its own text is taken, so whoever is
  drained drains nothing, and the graph of waits has no cycle.

`ServerProcessProofs`
- `RestartsCorrect`: a granted restart is served with the settings of
  its moment, and no run begins beside a runtime that was left open.
- Its invariant follows the version of the settings through the loop.  `CacheShape`
  and `PublishedShape`: from the moment a restart is granted, either what the loop
  has cached, loaded or published is not behind the file of that moment, or the loop
  will see that the number it took is not the current one; `ServedShape` ties the
  second case to `should_exit`.  `CloseShape` says what a closing runtime has let go
  of by each step, and `RunShape` that `is_closed` of a server that has returned
  tells the truth.
- `LeaseCorrect`: `LeaseShape` says that only a runner that reads has an upstream stream,
  and that the body is done, and with it the stream, before the lease is due.
- `ContractCorrect`.  The client has not seen what is held back, and what is held may still be
  dropped, so the invariant speaks of two clients: the real one, and the one that would have
  received all that is held too.  `RunnerShape`: as long as the runner goes on, the second
  `Mirrors` the ledger, that is, the blocks it has open are those that are open there, those
  it has seen are all that are there, and its content is of this ledger.  `ClientShape`: before
  the commit the real client is one that has seen no content, so it mirrors a new ledger as
  well, which is why a replay may start over; after the commit nothing is held, and the two are
  one.  `Usable`: a tool call that can grow is open, and one that was closed is whole, without
  which a repair could send a delta into a closed block.  The lemmas then say of each operator
  of the ledger that it `Extends` it: its events take every client in step with the ledger
  before to one in step with the ledger after.  Extensions are put together by `BothExtend`, as
  the code puts together their events.  That a sorted list of blocks names each of them once is
  proved from a definition of the order by ranks (`AscendingLists`).
- `HedgeCorrect`: every slot is free or held by an open that gives it back.  `OpenShape` ties
  the stage of an open to the racers that run, to those left to the cleanup and to the
  extra slot; the sum over all opens is carried through each step by a lemma that
  changes the share of one open (`Respects`).

`ManagedSessionsProofs`
- `SessionsCorrect` (`NoOrphans`).  `TablesOK`: a session is in one table under one id, and the
  two maps of ids are inverse.  `RunnerShape`: what a runner looks up is the session it was given,
  unless that was closed; `Apart`: no two active runners have the same.  `Answered` follows from
  these: a process that is alive is that of a session in the tables.  `LockShape` is what the end of
  a stop of all sessions needs, that what is left in the tables is left to do.

`ProviderServicesProofs`, the failure policy
- `DecisionsAgree`.  Three functions decide about the same exception, each by a chain of
  type tests of its own, and a fourth time when an outer layer gets the finished failure.  For
  every class, every status, every text and every override: the flag `retryable` that the client
  is told is the controller's decision; the runner's differs from it on connect, write and pool
  timeouts only, which reading a stream that is open does not raise; and a failure that is raised again
  keeps its status, its kind and its decision.  That a `Retry-After` beyond the ceiling ends the
  attempts of an error that is still reported as retryable is meant so, and is not part of the
  theorem.  The proof goes by class; `Finished` lists what a finished failure can be, and for
  these the policy is shown to be the identity.

`ProviderServicesProofs`, the catalog and the account
- `CatalogCorrect`.  The invariant adds that a job's revision is never
  ahead of the account's and that nothing works on a closed manager: an answer that
  started under a former state of the account is recognised by its revision, however
  long it takes.
- `CancelledCorrect`.  The invariant adds who holds `_state_lock` in
  which step and that a sign-in task that has not come to its end is the current one:
  to detach a task and to cancel it is one step, so nothing else has to be checked
  between the write of the file and the adoption.  `GrantShape` carries the rest of the
  theorem, that a withdrawn grant is in no file, account, request or thread and never
  will be: a grant that is not written yet is held by its own sign-in alone, no two
  sign-ins have the same one, and no step but that sign-in's own write could bring it
  out.  A sign-in detached after its write had begun is the exception that the property
  names.

`RequestProofs` and `RepliesProofs`
- `ContinuationsCorrect`.  `TrueRecords`: a record has the turns of its response, and its
  distance from the end of the store is at most the number of responses recorded since, in
  memory and in the file alike.  `SeenIsKept`: what a client has seen is in the file, and in
  memory once that is read, or has made way.  `TurnShape`: what a request stands for.
- `AnswersCorrect`, of the Messages endpoint and of the bridge.  `Follow`, which a client is
  made of, is a recursive function over a sequence.  What it computes is never needed: a reader
  `Leads` from one state to another over some events if every prefix keeps it legal, with one
  message of one source, and such runs are put together by concatenation.  `BodyShape` then says that
  from what the client has seen, what is still pending leads to a message that has its end; in
  a decision, the same of what is buffered.  `PipeShape` says that the pipe holds the frames that
  were not taken, one after the other, of which only the last may be cut.
- `ReplaysCorrect`, the action property of the side panel.  `Neat`: a history begins with a
  prompt, each message with results follows the reply whose calls they answer, and each reply
  with calls has them.  `HistoryShape`: it is neat between rounds, and in a round of tools all
  but its last reply is (`InRound`).  `SavedShape` says the same of what is saved, from which a
  panel that is opened again starts.  A conversation that is cleared under its turn is let off
  by `cleared`, and its saved copy by `savedCleared`.
- That a recursive function has the values its definition says takes induction.  The
  library's induction theorems have an operator as a parameter and cannot be used;
  `SmallestNumber`, a least counterexample by `WFMin`, takes their place.

Only model-checked: the liveness properties (temporal reasoning under fairness
is out of the prover's reach), and these safety properties: `StreamsAreLegal`
(the events that two more translators emit, through folds and flattened sequences of items),
`DeliveryHolds` (the queue of the event loop and the order of what it made ready),
`HistoryIsReplayed` (folds and filters of sequences of any length, most of which would need
induction over data of their own) and `OperatorIsServed`.

## 5. Findings

1. *A global stop may not drain every queue* (`trees_stop_all`,
   `messaging/trees/runtime.py:247`).  When the status message of the running
   prompt was cleared and its task has not ended yet, `cancel_all` raises for
   that tree and skips it and the later ones.
2. *A cancelled stream runner may stay the leader of a recovery episode*
   (`admission_leader`, `providers/openai_codex/provider.py:403`), after which
   every later caller of the model parks for ever.
3. *A stream runner may lose its concurrency slot* (`admission_slots`,
   `providers/openai_codex/provider.py:469`) when the close of its stream is
   interrupted.
4. *`message_start` may be sent twice* (`response_start`,
   `providers/openai_chat/provider.py:1434`).  A keepalive commits the response, the
   second attempt fails before it releases anything, and the third gets a ledger
   that has not started, because the runner asks only the last holdback whether
   anything was delivered.
5. *A refresh may spend a token twice and lose the account* (`account_refresh`,
   `providers/openai_codex/auth.py:435`).  Of two processes, the one that was idle
   posts its own old token when the other's successor in the file is about to expire
   too.
6. *A cleared conversation may go on with an orphaned result* (`panel_replay`,
   `cli/extension_assets/sidepanel.js:962`).  The Clear button does not stop the turn:
   the result of a tool that returns afterwards is the first message of the next
   request, which the provider rejects, and so are all later ones.

Observations: behaviour that the models show and that no sentence of the repository
clearly rules out, or that the modules name as an exception.

- *Generations.*  A replacement that is cancelled during its commit leaves the file
  written and its candidate neither published nor cleaned up
  (`provider_manager.py:285`); `close` does not know of it, so `ClosedMeansClean`
  exempts it by name (`"abandoned"`).  A shutdown waits for leases for a limited time
  (`provider_manager.py:345`), where `ARCHITECTURE.md:319-321` says that it waits every
  one.  The behaviour is sensible; the sentence is not exact.
- *Persistence.*  The store may be marked clean while a change is unsaved
  (`persistence.py:127`, against `ARCHITECTURE.md:1525-1526`): a change between the check
  of the generation and the reset of the flag is saved by its own timer, but `dirty` is
  wrong until then.  Only tests read it.
- *Workflow.*  A command's reply that is recorded while a clear drains is dropped
  from the message log without being deleted; a rejected turn forgets its status
  message even if the deletion failed; `cancel_node` may save an older snapshot
  after its successor's newer one.
- *Delivery.*  The numbers of a message's requests start again at one when the newest
  is done (`limiter.py:365`).  An edit that still sleeps before a retry then finds its
  own number on a newer edit (`limiter.py:311`), goes on, and replaces or overwrites
  it.  The recovery of a forced edit queues its text as a new request
  (`ui_updates.py:148`) without looking whether a newer update has been made meanwhile,
  so it can be shown last.  In both cases the older text is processed although a newer
  version exists, where the class comment (`limiter.py:42`) says that only the latest
  version of a message update is processed.  `Outlives` names exactly these two
  exceptions of `LatestIsShown`; without either of them TLC finds the property violated.
- *Sessions.*  A runner that is cancelled while it feeds its process and once more
  while it removes its session leaves a process that runs on (`unremoved`), until
  the next runner of that session replaces it.  `ARCHITECTURE.md:1260-1266` reads
  otherwise.
- *Hedged open.*  When its caller is cancelled, the attempt's own slot is free while
  the racers are still being torn down, so for a moment more calls are in flight
  than slots.  The branch that returns the slot after `get_next_key` found no key
  cannot be reached.
- *Server.*  A desktop restart after an incomplete shutdown builds a new graph
  beside the one that did not close; a restart that is clicked while a stopped
  server winds down is dropped; one granted between the last look of `_run_once` and
  its `finally` is lost; quitting may race with a restart and leave a server; a bind
  retry serves the settings that were cached before a hand edit; a hand edit
  between the preparation and the commit of an admin update is overwritten.
- *Account.*  A sign-in that is cancelled or disconnected while its credentials are
  being written, or after they were, does not adopt them itself, but they stay in the
  file: the next refresh or recovery of any process, its own too, takes them as the
  account, and the write thread may recreate a file that was just disconnected.  The
  docstrings say that `cancel_login` preserves the current credentials (`auth.py:272`)
  and that `disconnect` removes them always (`auth.py:282`); the test of that
  (`test_openai_codex_auth.py:210`) disconnects while nothing is being written.
  `CancelledLoginStaysOut` names this exception.  A client that leaves during the
  refresh request can lose the token that OpenAI has rotated.
- *Catalog.*  An explicit refresh that leased the former generation may overwrite
  newer lists with older ones.  A replacement that fails has cancelled the
  background discovery and does not start it again.
- *Codex stream.*  The runner reads past its terminal event, so a finished message may be
  followed by a ping, by an error or, after a late failure, by another answer (`late`).
- *Responses.*  A message that breaks off without `message_stop` is reported as
  completed.  A read error at the first use of the store counts as an empty store, and
  the next record overwrites the file.
- *Conversion.*  Coalescing two assistant messages (`conversion.py:369`) drops the empty
  `reasoning_content` that line 673 sets for a turn with calls.  Of content in blocks,
  `THINK_TAGS` drops a message's own `reasoning_content`, which `HistoryIsReplayed`
  exempts.  A second result for a call that is
  pending replaces the first.
- *Messages endpoint.*  With an automatic search the checks of the model run inside the
  body, so an `ApplicationError` that would be a 400 or a 503 becomes a terminal error
  of status 500.  A provider's empty body is an empty message when folded and an error
  when streamed.  A provider that fails after `message_stop` adds an error frame to a
  finished message.
- *NIM markup.*  A chunk with content, an empty one too, after the one with the
  `finish_reason` raises `RuntimeError`; a second `finish_reason` generates the calls of
  the block again.  Malformed markup fails the answer even when structured calls were
  seen, where `ARCHITECTURE.md:819-823` says that these remain authoritative.
- *Side panel.*  `pinActiveTab` is awaited outside of the `try`, so its failure leaves the panel
  busy.  An approved tool acts on the tab that is pinned by then.  The timer may save
  calls whose results are not there yet.  Two panels share one storage key.
- *Bridge.*  The output is empty when a descendant holds the pipe open for more than
  five seconds.  `handle` is called outside of the `try` (`bridge.py:421`): a folder
  such as `~nosuchuser`, or one with a NUL or a lone surrogate, raises past it and
  ends the host with the pipe open and the frame unanswered; so every frame is
  answered only while the host runs.  A host that ends while its command runs leaves
  it unlogged, although the module's comment (`bridge.py:20`) says that every command
  is, and an audit record that cannot be written is lost without an error: no property
  is about the log being complete.
- *Settings editor.*  A boolean that is spelled otherwise than `true` or `false` counts as
  changed as soon as it is shown (`respelled`), and a select whose value is no option
  submits the empty one; what is typed during an apply or a load is lost; a window typed
  for a model that another page has unpinned is ignored; the fields that wait for a
  restart are those of the last apply only (`application.py:251`).
- *Server controls.*  A failing load after a restart leaves the page without a poll
  (`admin.js:1287-1317`); when the instance could not be read before a restart, the old
  server counts as the restarted one; a poll that is under way enables the buttons, so
  that actions overlap.
- *Account card.*  A poll, a cancel or a disconnect that fails leaves the card as it was,
  without a poll.
- *Context scan.*  The next run drops the rows, hand-written ones too, of pinned models
  whose provider cannot be measured, because `selected_models_by_provider` (621-646)
  keeps only measurable ones and `_in_scope` rejects the others, where the command's
  comment (`context_scan.py:17-20`, 26-30) and the text of the table (373-375,
  385-388) say that any row with a number, a hand-written one too, stays as it is;
  `--models` drops every other row likewise.  `LeftOut` names the rows;
  `ScansKeepNumbers` says that no number is lost with any other. A number that is
  entered during the scan is overwritten, and the file is emptied before it is
  written.  `--refresh --no-probe` replaces recorded and curated NIM numbers by a note.
  A rate limit on one rung goes on to smaller ones at once.

## 6. What is abstracted or left out

- Texts: status wording, queue positions, transcripts and logging.  The one
  effect of a missing status message that matters, that no UI target can be
  built, is modelled (`Unaddressable`).
- Trees: trees restored from a snapshot.  The workflow's calls before an admission
  are in `MessagingWorkflow`, with the trees reduced to who is live.
- Generations: the content of a configuration; the model lists are in
  `ModelCatalog`.
- Admission: the retuning of the rate window by response headers; the window itself
  is a wait of any length.  The second slot of a hedged open is in `HedgedOpen`.
  Deadlines are booleans that the clock sets, so the lengths of backoffs do not
  appear.
- Persistence: the content of snapshots and of the message log; an unreadable file,
  which is set aside before the store starts empty.  Taking a snapshot cannot fail
  in the model: it copies strings.  The replace of the file is atomic and
  durable, as `fsync` and `os.replace` are meant to be.
- Workflow: the replies to commands, and the UI updates of a run.
- Delivery: the rate window and flood waits, which keep the worker busy for a while;
  the platforms' own retries and formatting, which the call includes; throttling and
  rendering, which decide when an update is made and whether its text is new.
- Sessions: command lines, the parsing of CLI output, diagnostics.
- Response: texts, tokens and usage; the parsing of tool calls from text is a
  choice of what it emits.  How a failure is classified is a choice here; `FailurePolicy` says
  what the choices are.
- Hedged opens: the length of holds, windows and idle times.
- Server: fields and validation of the configuration, migrations, the browser.
- Streams: texts, arguments, usage and citations; an item, a block or an index stands
  for its content.  Whether an upstream request is refused, and as what, is a choice.
- Endpoint: the choice of a model and its preflight; the parsing of pages and
  search results; the egress checks of each hop are one verdict.
- Responses store: the content of records, which may be damaged only as a whole file.
- Side panel and bridge: what a tool does to a page; the bytes of a frame and the size of the output.
- Conversion and history: tools, sampling parameters and the system prompt; texts; a model of the
  Codex backend never reaches the chat branches of `prepare_history`.  Carriers are
  decoded as they were encoded.  A message that has thinking blocks and a `reasoning_content`
  too is left out.
- Admin page: three fields stand for the manifest, one of each kind; validation, which
  rejects an update before anything is written; layout.
- Context scan: the numbers themselves, of which the origin is kept; waits between
  probes.
- Catalog: the content of a list.  Account: damaged files, what `status` reports of
  an attempt, admin calls that are cancelled after their start.

Not modelled, and why:

- *The conversion of tools and requests, transcript and rendering,
  request shaping of the upstreams, the wording of failures, doctor*: pure functions
  over strings and JSON.  A model that stayed shorter than the code would
  say nothing about them that a unit test does not.
- *Admin manifest and settings fields*: data.
- *Launchers, page tools, editor extension, installation and smoke scripts, and
  the tests*: operating system integration, or code that drives the product from
  outside.  Much of the repository's bulk is of these two kinds, which is what
  limits the share that the map can cover.

## 7. Plan

Done: `MessagingTrees` with `ClaimQueue`, `ProviderGenerations` with
`LeasedResource`, `ProviderAdmission`, `SessionPersistence` with `DurableState`,
and their proofs; `MessagingWorkflow`, `VoiceNotes`, `MessageDelivery`, `ManagedSessions`,
`OpenAIChatStream` with `InferenceResponse`, `HedgedOpen`, `ServerLifecycle`,
`ModelCatalog`, `CodexAccount` with their proofs where section 4 has them; and the
modules of the run `replies`.

What could follow, in this order:

1. A composition of `InferenceResponse` with `ProviderGenerations`: a lease of the
   first is one of the second.
2. Proofs: `StreamsAreLegal`, with the lemmas about `Follow` that `ContractCorrect` rests on;
   `OperatorIsServed`; `DeliveryHolds`.
3. Trees that are restored from a snapshot, and the dispatch of chat commands.
