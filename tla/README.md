# Verification of chatml's conversation core

This directory holds TLA+ models of the part of chatml that runs AI agents, keeps what
they say and shows it: the child process behind a conversation, on both sides of its
pipes; the manager that starts and stops such backends; the way messages reach the
database across crashes; and the state that the frontend keeps of conversations, files,
places and connections. TLC checks the models on small instances. TLAPS proves all
their safety properties, for every value of the constants.

Paths below are relative to the repository root. The Go backend is `backend/`, the Go
agent libraries are `core/`, the TypeScript child process is `agent-runner/`, the React
frontend is `src/`, the desktop shell is `src-tauri/`.

## 1. Inventory

chatml is a desktop application. A Tauri shell starts the Go *sidecar*, which serves
HTTP and WebSocket to a React frontend. A conversation is driven by a *backend*:
either a child process (`agent-runner`, TypeScript around the Claude SDK) or an agentic
loop in Go (`core/loop`). Events of a backend flow

    agent-runner stdout -> Process.output -> handleConversationOutput -> store, WebSocket hub -> frontend

and user messages flow the other way, from an HTTP handler through
`SendConversationMessage` into the child's stdin.

| Component | State it keeps | Operations | What is hard | What makes it correct |
|---|---|---|---|---|
| Agent process (`backend/agent/process.go`) | `running`, `stopped`, stdin, output and done channels, drop counter, turn flags | Start, Send*/Set*, Stop, TryStop, two readers, a waiter, an escalation goroutine | blocking pipe writes under a mutex, a full channel, exit racing reads, stop before start | ordered and counted output; channels close once, in order; one owner of a stop; a stopped child ends |
| Conversation manager, backends (`backend/agent/manager.go`) | `convProcesses` map under `m.mu`, conversation status in the store | StartConversation, Send, Resume, Stop, Complete, Ollama preparation, completion handler | the lock is released for database reads and for Start; late completion handlers | no running backend out of reach; the status matches what runs; dead backends leave the map |
| Conversation manager, turns (same file) | per-handler turn state, `inActiveTurn`, `pendingUserMessage`, the snapshot timer | output handler, deferring and storing user messages, final flush | shutdown, kill, two handlers sharing one snapshot row | every answer and every acknowledged message stored once, in order, and never lost again |
| Store (`backend/store/sqlite.go`) | SQLite tables | CRUD, snapshot set/clear/convert, stale clean-up | read-modify-write without a transaction, recovery after a crash | recovery is idempotent |
| WebSocket hub (`backend/server/websocket.go`) | client set, broadcast queue, per-client queue and eviction flag | register, unregister, broadcast, timed retry | slow clients, bounded queues, a retry beside the queue | a connected client gets its events in order, or is told |
| Go agent loop (`core/loop/runner.go`, `streaming_executor.go`) | `running`, `stopped`, cancel functions, a message queue of 32 | the same interface as the agent process | stop before or during Start, full queue, interrupt | implements the same contract |
| Tool executor, permission engine, hooks (`core/tool`, `core/permission`, `core/hook`) | rules, pending approvals | check, approve, run | parallel read-only tools, approvals that arrive late | a denied tool never runs |
| MCP (`core/mcp`) | connected servers, pending requests | connect, call, close | request/response matching, concurrent registration | a response reaches its request |
| Task list (`core/task/manager.go`) | tasks and their block edges | create, update, delete, stop | edges in both directions | edges stay symmetric |
| Scheduler (`backend/scheduler/scheduler.go`) | `next_run_at`, runs | tick, missed schedules, trigger | crash between a run and the next date | at most one run per date |
| Server caches, GitHub client (`backend/server/*_cache.go`, `backend/github`) | TTL maps, in-flight calls, breaker state | get, set, invalidate, allow | a fetch that began before an invalidation | an invalidated value is not served again |
| PR and branch watchers (`backend/branch`) | watched sessions | watch, check, callbacks | callbacks after unwatch | no event for an unwatched session |
| Relay, Ollama manager (`backend/relay`, `backend/ollama`) | connection, subprocess | connect, reconnect, ensure running | reconnect racing disconnect | one live connection |
| Agent runner, main loop (`agent-runner/src/index.ts`) | `messageQueue`, the generator's waiter, the text held back, active tools, recovery attempts | read stdin, pull, stream, recover from a crash of the CLI, clean up | stop, cancel and signals at every wait; crashes in mid-turn | a message is served once or reported; text goes out in order; a stop ends the loop |
| Agent runner, approvals (`index.ts`, `rules.ts`) | requests with their timers, the permission mode, session approvals, persistent rules | ask, answer, time out, enter and leave plan mode, match rules | three copies of the mode; late answers; a query that dies while it waits | a request is settled once; the copies agree; a rule matches what it says |
| Frontend, conversation feed (`src/hooks/useWebSocket*.ts`, `appStore.ts`, `ChatInput.tsx`) | streaming state, queued messages, the message list, the batcher | send, stop, receive an event, reconcile after a reconnection | lost and swapped events; snapshots that arrive late | what is shown is what is stored, in order, once; streaming ends |
| Frontend, pages of messages (`ConversationMessagePane.tsx`, `appStore.ts`, `useMessagePrefetch.ts`) | the list of a conversation, its cursor, requests under way | load, scroll back, prefetch, reload, trim | pages that arrive after the list changed | the list has no gap, and what is before it can be reached |
| Frontend, file tabs (`appStore.ts`, `useAutoSave.ts`, `useFileWatcher.ts`) | tabs, the editor's debounce, a cache, requests under way | open, type, save, close, evict, reload | saves and loads that return late; a limit on tabs | edits are not lost; a clean tab shows the disk |
| Frontend, navigation (`navigation.ts`, `navigationStore.ts`, `tabStore.ts`) | a back and a forward stack per tab, the selection | navigate, back, forward, jump, tabs | entries whose target is gone; several ways to do one thing | the history of a browser; a selection that exists |
| Frontend, connection (`useWebSocket.ts`, `useSidecarLifecycle.ts`, `connectionStore.ts`) | socket, retry timer, cached port and token, recoveries | connect, retry, recover | a backend restarted with a new token in the middle of a connect | one socket, to the living backend |
| Desktop shell (`src-tauri/src/sidecar.rs`) | the sidecar process, restart attempts | spawn, kill, restart after a crash | a manual restart during an automatic one | the backend comes back, or the user is asked |
| Frontend, views (`src/components`, `src/lib/action-templates.ts`) | what React keeps of a view | rendering | | |

`PROJECT.json` lists every component with its status, and under `hazards` each
place in the code where something could go wrong that a test would hardly reach, with the
property that watches it or the reason why none does yet.

## 2. Plan

Written so far, in this order:

1. `BackendContract`: what the manager relies on when it drives a backend.
2. `AgentProcess`: the child process, shown to implement the contract.
3. `ConversationManager`: the manager, using a backend only through the contract.
4. `TurnPersistence`: messages, snapshots, shutdown, crash and recovery.

5. `AgentRunner`, `AgentApprovals`, `WildcardMatch`, composed by `MCRunner`: the child's
   side of the pipes.
6. `ConversationFeed`, `MessagePages`, `FileTabs`, `Navigation`, `Connection`, composed by
   `MCFrontend`: what the user sees.

Proved so far (section 5): every invariant and every safety action property that the
passing runs check.

To be written:

7. `LoopRunner`: the Go loop as a second implementation of `BackendContract` (stop before
   Start, full queue, interrupt). The contract may have to be weakened where the loop does
   less than the process.
8. `Hub`: broadcast, per-client queues, the retry goroutine and eviction. Per client:
   order, at most one retry, drops are counted, and an evicted client's channel is
   closed once. It would replace `HubFaults` of `ConversationFeed`.
9. `StatusWrites`: `UpdateConversation` as a read and a write, with the session-id
   update, `CleanupStaleConversations` at start, and the status of a conversation across a
   restart. Refines the atomic status writes of `ConversationManager`.
10. `SingleFlightCache`: fetch, store and invalidate, against an abstract register.
11. `TaskGraph` and the permission decision as pure operators against reference definitions.

Abstract specifications worth stating besides the contract: a message table as a
sequence of turns (for `TurnPersistence`), and a per-client FIFO with counted loss (for the
hub).

## 3. Modules

### Filter

`Only(s, S)`, the elements of a list that are in a set: `Array.prototype.filter` and the
loops that do the same. It means what `SelectSeq` means, which takes a test as an
operator, and the prover cannot reason about that. `AgentProcess`, `ConversationFeed`,
`MessagePages`, `FileTabs` and `Navigation` use it.

### BackendContract

The life of one backend as a phase (`new`, `failed`, `running`, `exited`, `closed`, `done`)
and the owner of its stop. It comes from the comments and signatures of the interface
`ConversationBackend`: `Start` succeeds or fails; the first `TryStop` wins; `IsRunning`
turns false, then `Output` closes, then `Done`; a backend that was stopped must get there.
One that nobody stops may run for ever. A stop may come before `Start`, since the
manager publishes a backend before it starts it.

### AgentProcess

| Model | Code |
|---|---|
| `StartSucceeds`, `StartFails` | `Start`, all of it under `p.mu`; a cancelled context makes `cmd.Start` fail |
| `ReaderScans`, `ReaderRecords`, `ReaderQueues`, `ReaderDrops`, `ReaderEnds`, `LineTooLong` | the two reader goroutines: scan, keep stderr lines under `p.mu`, send or time out |
| `WaitReturns`, `WaiterClearsRunning`, `WaiterClosesOutput`, `WaiterClosesDone` | the goroutine around `cmd.Wait` |
| `BeginWrite`, `WriteReturns` | `sendInput`: `p.mu` is held across the write, which returns when the pipe has room or its reader is gone |
| `BeginStop`, `TryStop`, `doStopLocked`, `KillerFires` | `Stop`/`TryStop`, SIGTERM, and SIGKILL after 5 s |
| `ChildWrites`, `ChildReads`, `ChildExits`, `ChildKilled` | the child: it does as it likes, and only SIGKILL obliges it to exit |

`mu` is a lock variable because a critical section can block in one place, the stdin write.
Every other critical section is one action that needs the lock to be free. Time is
abstracted: a timeout may fire whenever its condition holds. The 10 lines of stderr kept for
diagnostics, the temp files and the command line are left out.
`cmd.Wait` closes the read ends of the pipes while the readers may still be at work: from
then on a reader may stop with lines unread (`ReaderEnds`) or go on with what it has
buffered.

Properties: `ShutdownOrder` (no send on a closed channel, nothing closed too early),
`StreamOrder` (lines of one stream arrive once and in order, with drops in between),
`LossIsCounted` (each line read is delivered, on its way, or counted),
`StopHasOneOwner`, `NoInputAfterStop`, and `ImplementsContract`, the refinement with
liveness: a started and then stopped process ends and closes its channels, even if the child
ignores SIGTERM and nobody reads `Output`.

### ConversationManager

One conversation: its map entry, its status, the API calls in progress and the completion
handler of every backend. A call is cut where the code releases `m.mu` or writes to the
database: look-up, insertion (`Insert`, with the double-check), `Start`, undo, status.
`op` names the call (`createLocal` and `local` are the Ollama paths, which run in a
goroutine of their own). `Backend(b)` is an instance of the contract for each backend.

| Model | Code |
|---|---|
| `CreateIdle`, `BeginCreate` | `StartConversation` up to `AddConversation` |
| `BeginSend`, `BeginResume`, `PrepareFails` | the first look at the map, then the unlocked reads |
| `InsertFindsRunning`, `Insert` | the double-check under `m.mu` |
| `StartSucceeds`, `StartFails`, `UndoInsert`, `Activate` | `backend.Start()`, handlers, clean-up, status `active` |
| `BeginStop`, `TryStop`, `SetIdle`, `BeginComplete`, `SetCompleted` | `StopConversation`, `CompleteConversation` |
| `CompletionRemoves`, `CompletionSetsIdle` | `handleConversationCompletion` after `Done` |

Sends to a backend that already runs change nothing here and are left out. They are
in `TurnPersistence`. The status read-modify-write of the store is one step.

Properties: `OrphanHasCause` (a running backend can always be found or has been stopped,
unless starts overlapped), `BuriedLeavesMap`, `StuckActiveHasCause` (a quiet conversation is
active only after one of two named accidents), `BackendsFollowContract` and the liveness
property `DeadAreBuried`. Two history variables, `overlapped` and `misreported`, name the
accidents. They are written by the actions in which the accident happens and read by none.

### TurnPersistence

One conversation again, now with its messages. A user message is a number, the turn that
answers it has the same number, and text is the number of text events. The actions follow
the code from one database write, or one critical section of `p.mu`, to the next:

| Model | Code |
|---|---|
| `SendFindsBackend`, `SendRestarts`, `Defer`, `StoreNow`, `Store`, `Deliver`, `DeliverFails` | `SendConversationMessage` |
| `RecordSession`, `HandleText`, `HandleWork`, `FlushSnapshot`, `HandleTurnEnd`, `StoreTurn`, `ClearSnapshot` | the loop of `handleConversationOutput` |
| `LeaveLoop`, `FinalStore`, `CheckStale`, `FinalClear` | its end, also at shutdown |
| `Bury` | `handleConversationCompletion`, with the error row it may add |
| `Shutdown`, `GoDown` | SIGTERM; the end of the process at any moment |
| `Restart`, `ConvertSnapshot`, `NothingToConvert`, `ClearConverted`, `KilledInInit` | `Manager.Init` and `ConvertSnapshotsToMessages` |

`NativeLoop` says which kind of backend the conversation has. The child process reports its
session id before anything else, and the Go loop never reports it; the recovery query asks
for it. Thinking-only and plan-only snapshots behave like text ones and are not told
apart. Database errors other than a cancelled context are left out, and so are user stops
(see `ConversationManager`). How an agent ends is open, so the error row is a choice.

Properties: `StoredOnce` (of answers and of user messages), `UserBeforeAnswer`,
`AckedIsKept` (an acknowledged message is stored or about to be, except in the cases the code
gives up, which `excused` records), `DurableStays` (what a kill right now would leave of an
answer never shrinks while one handler is at work), `SnapshotIsRecovered` (liveness).

### AgentRunner

The other end of the child's pipes. JavaScript runs a callback and its promise
continuations before the next callback, so an action is a callback up to its next wait for
the outside world. The SDK and its CLI process are external.

| Model | Code (`agent-runner/src/index.ts`) |
|---|---|
| `ReceiveMessage`, `CancelMessage`, `ReceiveStop`, `CloseStdin` | the line handler of stdin, and its `close` |
| `Pull` | the message generator: the head of `messageQueue`, a wait, or its return |
| `TextDelta`, `BlockStop`, `ToolUse`, `ToolResult`, `TurnResult` | the stream: text is held back until a block is complete, a tool starts or a turn ends |
| `StartQuery`, `QueryEnds`, `QueryCrashes`, `QueryFails` | `main`: the query, its end, the silent restart with backoff, giving up |
| `Signal`, `FinishCleanup`, `Exit` | `cleanup` and `drainAndExit` |

Properties: `MailboxKept` (each message is waiting, was handed to the SDK in order and once,
or was cancelled, across any number of crashes; a generator that waits has nothing to wait
past), `OutInOrder` (text is emitted in its order, once, unless a turn was overtaken or
crashed), `ToolsEndOnce`, `MessagesSettle` and `StopEndsLoop` (liveness).

`ToolResult` has the three branches of the code. The result of an active tool ends it and
remembers it; one of a tool that is remembered is a replay and is dropped; one of a tool that
is neither is reported ended and *not* remembered, so its replay is reported again. Nothing
limits how often; `MaxEnds` bounds it in the model. `ToolsEndOnce` therefore counts: a tool is
reported ended no more often than it was reported started, and results that came before any
start (`untracked`) are counted apart.

### AgentApprovals

Questions, plan approvals and tool approvals, and the permission mode they depend on. The
mode exists in the runner, in the SDK and in what the application was last told; calls and
status messages between them take time. `Timeout`, `UserAnswers` and `Crash` race for a
request. Cooldowns of 30 s are flags that may expire at any time.

| Model | Code (`agent-runner/src/index.ts`) |
|---|---|
| `SetPermissionMode`, `CallReturns`, `SDKReports`, `StatusArrives` | the mode command and the SDK's status messages |
| `EnterPlanMode`, `WritePlan`, `CallExitPlanMode`, `ExitPlanModeDone`, `CooldownEnds` | the hooks around plan mode |
| `AskQuestion`, `UseTool`, `UserAnswers`, `Timeout` | the hook before a tool, its requests and their timers |
| `Crash`, `NewQuery` | the end of a query; pending requests stay registered |

Properties: `RequestsSettle` (liveness, also for the requests of a dead query) and
`ModesAgree` (at rest the three copies agree if no changes overlapped or failed, and the
runner tracks a plan that was written in this plan mode). A tracked plan does not always
bring the user in: when its file cannot be read or is empty, `ExitPlanMode` is approved by
the hook itself (`index.ts:1811`), and `CallExitPlanMode` has that choice.

### WildcardMatch

The matcher of permission rules (`rules.ts`), an iteration a step, against the meaning of a
pattern: `WildcardCorrect`. `BeginMatch` is the call of the matcher; the checks before it
(another tool, a rule or a call without specifier) are not in the model.

### ConversationFeed

What the frontend makes of the events of one conversation. The backend, its message table
and its snapshot are external and behave as `TurnPersistence` has them. A chunk of text is a
number and so is a user message; a list of messages is the sequence of what it shows.

| Model | Code |
|---|---|
| `Accept`, `StoreTurn` | `StoreOrDeferMessage` and the end of a turn in the backend: one message is kept for the turn's end, and a later one overwrites it |
| `BeginTurn`, `Speak`, `RequestApproval`, `PromptExpires`, `EndTurn`, `EndProcess` | external: the agent, and the events of `handleConversationOutput` |
| `HubFaults` | `backend/server/websocket.go`: a broadcast that timed out, a retry that was overtaken |
| `ReceiveText`, `FlushFrame` | `useStreamingBatcher.ts` |
| `ReceiveInit`, `ReceiveResult`, `ReceiveTurnComplete`, `ReceiveEnd`, `ReceiveIdle`, `ReceiveAsk`, `ReceiveQuestionOver` | the event handler of `useWebSocket.ts`, with `finalizeStreamingMessage` |
| `Submit`, `LoadFails`, `PlanDenied`, `AddMessageOrQueue`, `PostReturns`, `PostFails` | `handleSubmit` of `ChatInput.tsx`, cut at its awaits |
| `Stop`, `RemoveQueuedMessage` | `handleStop`, and the queue |
| `Answer`, `AnswerReturns` | `handleApprovePlan`, `ToolApprovalPrompt.tsx` and the prompt for questions |
| `Disconnect`, `ClientReconnects`, `ServerAnswers`, `ReconFails`, `FinalizeInactive`, `BeginSnapshot`, `RestoreSnapshot`, `NoSnapshot`, `SetMessagePage` | reconciliation after a reconnection, cut at each await |

Three things in it are easy to get wrong.

* *Sending.* `handleSubmit` decides on the view it was rendered with: whether to queue the
  message, to add it to the list, or to deny the plan that is shown. It does what it decided
  after the attachments are loaded, or the denial has been answered, when the view may be
  another (`post` is "denying", "queueing" or "adding" in between). A message that denies a
  plan is added to the list even if others are queued ("overtaken"), and one may be queued
  when nothing streams any more ("stale").
* *Prompts.* `pending` holds the prompts shown. A plan's stands beside the composer; a
  question or a tool's replaces it, so nothing can be sent. Events clear some of them and not
  others (`Questions`), and a restored snapshot replaces the plan's, adds a question and leaves
  the tool's.
* *Reconciliations.* Every reopening of the socket starts one, so they overlap. Each has its
  own state and answer, under the number of faults before it; text is suppressed while any of
  them has asked for a snapshot (the reference count of `useWebSocketReconciliation.ts`).

Properties: `ShownInOrder`, `SentOnce`, `ShownIsStored` (at rest, if nothing went wrong) and
`StreamingSettles` (liveness). `mishaps` records what excuses each, and the module says what
every one means: faults of the hub, turns that overlap in the frontend, events or snapshots that
came late or were missed, a page put over newer messages, a message that overtook a queued
one, was queued too late, or was overwritten in the backend before it was stored.

### MessagePages

The list of one conversation as pages of it are loaded. A message is its position, and a row
that the frontend shows and nobody stores is 0.

| Model | Code |
|---|---|
| `AddMessage`, `SetMessagePageOf`, `PrependMessages`, `EvictConversationMessages` | `appStore.ts` |
| `AddAnswerAndQueued` | `finalizeStreamingMessage` with a queued message: two rows, and `totalCount` grows by one, since the second is shown in the timeline of the first |
| `AddLocalRow` | the error row of `handleSubmit`, the notice of `handleStop` |
| `StoreUnseen` | `handleGitActionMessage`: a message that is sent and not shown |
| `Select`, `UnmountPane`, `SelectOther`, `SelectOtherSession` | `selectConversation`, `selectSession`, the cache of panes, the pane's effect |
| `HandleStartReached`, `ReadFails` | `ConversationMessagePane.tsx` |
| `Prefetch`, `Reload` | `useMessagePrefetch.ts` and `sessionPrefetch.ts`; `reconcileStreamingState` and start-up |
| `ServerReads` | `GetConversationMessages` of `sqlite.go` |

Property: `PagesContiguous`. The stored rows are a stretch without gap or repetition up to the
last message, the cursor is at its beginning, and `totalCount` exceeds the rows that stand
alone (those not embedded in a timeline) by the messages before the list, which is what the
index of the first row is computed from. `holes` records the five ways in which that breaks until a
page replaces the list: "unloaded" (a row was appended to a list that was never loaded),
"unseen" (a message was stored and not appended), "evicted", "outdated" (a page older than the
list replaced it) and "raced" (an older page for a cursor that was replaced meanwhile).

### FileTabs

The files a user edits while the agent writes them too.

| Model | Code |
|---|---|
| `OpenFileAsTab`, `OpenByName`, `CloseFileTab`, `DontSaveAndClose`, `SaveAndClose`, `SaveAndCloseReturns`, `RemoveSession` | `openFileTab` with previews and eviction, `page.tsx`, `FilePicker.tsx`, `ChangesPanel.tsx` |
| `Type`, `UpdateFileTabContent` | the editor's debounce and the store |
| `Save`, `BackendSaves`, `SaveReturns`, `RequestFails` | `useAutoSave.ts` |
| `BackendLoads`, `LoadReturns`, `InvalidateCache` | loading and `fileContentCache.ts` |
| `AgentWrites`, `HandleFileChange`, `BackendReconnects` | the worktree, the watcher, `useFileWatcher.ts` |

Properties: `EditsKept` (what was typed and not saved is in the editor, in a dirty tab or on
its way), `CleanShowsDisk`, both unless a cause in `causes` is to blame, and `TabsFollowDisk`,
which fails (section 6). Two of the causes are about the texts of several saves: "overtyped"
(the text was changed, undone or typed again while a save of it was on its way) and "overtaken" (a
save was carried out, or answered, after a later one of the same file).

### Navigation

| Model | Code |
|---|---|
| `Navigate`, `DeferNavigate`, `NavigateTimer`, `GoBack`, `GoForward` | `lib/navigation.ts` |
| `GoToBackEntry`, `GoToForwardEntry`, `MenuBack`, `MenuForward` | jumps in the history's menu, `useMenuHandlers.ts` |
| `SwitchToTab`, `NewTab`, `OpenInNewTab`, `DuplicateTab`, `CloseTab`, `MenuCloseTab` | `BrowserTabBar.tsx`, `tabStore.ts` |
| `SelectConversation`, `RemoveConversation`, `ArchiveSession` | `appStore.ts` |

Properties: `HistoryIsABrowsers` compares the stacks with `past` and `future`, which record
where a browser's buttons would lead, except in tabs that are `scrambled` (a jump in the
menu of such a tab can go further back than its `past` reaches);
`SelectionConsistent` (the conversation on the screen exists and is the session's, and the
history is the active tab's, except as `strayed` records).

### Connection

| Model | Code |
|---|---|
| `Crash`, `CapturePort`, `HandleTerminated`, `KillStored`, `Spawn`, `SpawnFails` | `src-tauri/src/sidecar.rs` |
| `Connect`, `RetryConnect`, `OpenSocket`, `OnOpen`, `OnClose`, `NetworkDrops`, `Reconnect` | `useWebSocket.ts` |
| `OnSignal`, `BeginRecovery`, `RecoverToken`, `CheckHealth`, `FinishRecovery` | `useSidecarLifecycle.ts` and the two caches |
| `ManualRestart`, `ManualReconnect` | `ConnectionBanner.tsx` |

Property: `ConnectionRestored` (liveness): in the end one socket is open, to the living
backend and with its token, or the user is asked to restart; unless a restart could
not spawn, two connects overlapped, or all attempts are used up (`flaws`).

## 4. Runs

| Run | Module, config | Result | Shows |
|---|---|---|---|
| `process` | `MCAgentProcess`, `AgentProcess.cfg` | pass | all properties of the process, and the refinement |
| `stop_hang` | `MCAgentProcess`, `AgentProcessStopHangs.cfg` | violation | `Stop` can wait for ever behind a blocked stdin write |
| `manager` | `MCConversationManager`, `ConversationManager.cfg` | pass | all properties of the manager |
| `double_start` | `MCConversationManager`, `ConversationManagerDoubleStart.cfg` | violation | two sends start two backends |
| `stuck_active` | `MCConversationManager`, `ConversationManagerStuckActive.cfg` | violation | the agent completes, the conversation stays active |
| `persistence` | `TurnPersistence`, `TurnPersistence.cfg` | pass | the safety properties and the recovery of snapshots, with two shutdowns or kills |
| `duplicate_answer` | `TurnPersistence`, `TurnPersistenceDuplicate.cfg` | violation | the dedup of the recovery misses a stored answer |
| `shutdown_loss` | `TurnPersistence`, `TurnPersistenceShutdown.cfg` | violation | an orderly shutdown destroys a durable answer |
| `native_loss` | `TurnPersistence`, `TurnPersistenceNative.cfg` | violation | interrupted turns of the Go loop are never recovered |
| `runner` | `MCRunner`, `AgentRunner.cfg` | pass | messages, stops and crashes in the runner's loop; approvals and modes; rules match what they mean |
| `frontend` | `MCFrontend`, `Frontend.cfg` | pass | what is shown, paged, edited, selected and connected, with the lapses of the code named and all else excluded |
| `tabs_follow_disk` | `FileTabs`, `FileTabsFollowDisk.cfg` | violation | a change on disk that the watcher reports does not reach a clean tab |

`MCRunner` and `MCFrontend` put machines that share no variable side by side: `focus` is
chosen at the start and never changes, one machine runs, and the others keep an initial
state. So one run explores the sum of the models and not their product, and the fairness of
a machine is asked for only while it runs.

Every property of a passing run comes with a mutant in `PROJECT.json`: a definition of the
model changed the way a plausible bug would change the code, under which TLC finds the
property violated. The operators for this stand next to what they replace ("Mutant of ...").

### Bounds

* `AgentProcess`: two callers and one slot in each pipe and in the channel, so that every
  queue fills, a write blocks, a line is dropped and both callers race for the stop. Three
  lines over two streams give a line delivered, one queued and one held or dropped; two
  messages give one in the pipe and one blocked.
* `ConversationManager`: two callers, each with any number of calls one after the other, and
  two backends. Every accident the model knows involves one backend and its replacement, or
  two callers. `Insert` stops at the bound, and a caller then waits there or gives up.
* `TurnPersistence`: two messages (one deferred behind the turn of the other), turns of at
  most two events (one flushed and one not), two backends (one and its replacement).
  `persistence` has turns of one event and two times down, so that the second kill can hit
  the recovery; `duplicate_answer` and `shutdown_loss` have two events and one time down,
  and `native_loss` needs one of each.
* `AgentRunner`: two messages (one served, one waiting), three events (two texts with a tool
  between them), two crashes with one recovery allowed, so that both the silent restart and
  giving up occur. `AgentApprovals`: one request, one call and one restart at a time
  bound; a request races its timer, a mode change its report, and a crash each of them.
  `WildcardMatch`: every pattern up to four and value up to three characters over two
  letters and `*`, which fits two wildcards with text before, between or after them.
* `ConversationFeed`: two chunks, three user messages (served, in the inbox, queued), two
  prompts and two faults, of which at most four in all: a cause, its consequence and two
  faults in between, which is enough for two overlapping reconciliations. A larger instance
  (five in all, with two messages and one prompt) was checked apart from this run, with the
  inductive invariant of section 5.
* `MessagePages`: four messages, three of them old, one row that is not stored, pages of one,
  lists trimmed to two above three, two requests: an older page that races a first one, and a
  list that grows in each way while either is under way.
* `FileTabs`: two files, one permanent tab, two texts, four moves, two requests: one file
  evicts the other while it is being saved or loaded. A lapse that takes two saves of one
  text and a third of another needs more moves; one file with eight moves and three requests
  was checked apart from this run, and the proofs cover any number.
* `Navigation`: two sessions with three conversations, three entries of history and two
  tabs, so that the fourth step can exceed the cap on the history. Going forward to find
  that no entry is left takes five; the proofs cover that.
* `Connection`: one automatic restart, two attempts to connect, three sockets and two upsets:
  a second crash while the first one is being recovered from, up to giving up.

`CHECK_DEADLOCK FALSE` is set in every config: the child may exit, the application may be
down for good, and no caller has to call again, so the system really may stop.

### Fairness

* `AgentProcess`: goroutines that can run do, and Go's mutex is starvation-free (a waiter
  gets it after at most 1 ms of barging). So steps that need `p.mu` are strongly fair. The
  kernel delivers SIGKILL. The child, the consumer of `Output` and the users are under no
  obligation, and neither is `Start`.
* `ConversationManager`: weak fairness of each call in progress, of each completion handler
  and of what the contract obliges a backend to do. `m.mu` is not held across a step.
* `TurnPersistence`: weak fairness of the recovery alone. A kill may always intervene,
  within its bound.
* `AgentRunner`: the timers of `main` and of `drainAndExit` fire, and the SDK does its part:
  it pulls, ends the turns it began and ends a query that has no input left. `AgentApprovals`:
  timers fire; users and the SDK owe nothing.
* `ConversationFeed`: an event on an open socket is handled, a frame is painted, a request
  returns. The agent may stay silent and the network may stay down.
* `Connection`: timers, requests and events between the shell and the page happen. Crashes
  and clicks need not.

## 5. Proofs

The theorems hold for every set of callers, files, sessions and conversations, every
capacity and every bound, from the assumptions named in the modules: a "nobody" or "nothing"
value is not one of the things it stands beside, capacities are positive naturals, bounds
are naturals. `PROJECT.json` lists them with the properties they state.

| Module | About |
|---|---|
| `AgentProcessProofs`, `ConversationManagerProofs`, `TurnPersistenceProofs` | the backend |
| `AgentRunnerProofs`, `AgentApprovalsProofs` | the agent runner, and `MCRunner` with its three machines |
| `FilterProofs` | lemmas: what filtering and extending a list preserve |
| `WorkspaceProofs` | `FileTabs` and `Navigation` |
| `FrontendProofs` | `MessagePages`, `ConversationFeed`, `Connection`, and `MCFrontend` with its five machines |

`AgentProcess`. The inductive invariant is `TypeOK /\ Lifecycle /\ Lock /\ Stops`.
`Lifecycle` ties the waiter, the readers, the child and `running` together: it is needed
because `ShutdownOrder` speaks of a closed channel, and a step knows only that the waiter is
about to close it. `Lock` says that the holder of `p.mu` is exactly the caller that writes.
`Stops` says that a stop leaves stdin closed with nobody writing to it, and that a process
stopped before its child was spawned cannot spawn it any more: without it a write in
progress during a stop, or after a late start, could not be excluded. From it follow
`ShutdownOrder`, `StopHasOneOwner`, `NoInputAfterStop`, and `ContractSteps`: initial
states map to initial states of `BackendContract` and every step to a step of it or a
stutter.

`StreamOrder` and `LossIsCounted` need two more facts. `Flows`: per stream, what was received
followed by what of it is still in the channel is rising, ends before the line the reader
holds, and together with that line and the drops makes up the lines read.
`ReadersEnd`: a reader that ended has read everything or was cut off. The channel mixes two
streams, so the proof rests on the lemmas about filtering: taking the head of the channel
moves it from the second half of one flow to the first and leaves the other as it is.

`ConversationManager`. The invariant is the conjunction of `TypeOK`; `Fresh` (backends that
have not been created are untouched); `Locals` (what a caller's `proc` refers to at each
`pc`); `Handlers` (a backend's completion handler agrees with its phase);
`BuriedLeavesMap`; `Orderly` (without overlap every running backend can be reached, and
starts exclude one another); and `Responsible` (an active conversation has a caller, a
running backend or a handler that will still write the status, or was misreported). The last
two are the strengthenings of `OrphanHasCause` and `StuckActiveHasCause`, which are not
inductive: both speak of states in which the caller responsible has already returned.
`BackendsFollowContract` is proved from the same invariant, one action at a time.

`TurnPersistence`. `AckedIsKept`, `UserBeforeAnswer` and `StoredOnce` constrain each other
through everything a message passes on its way. The invariant says where a message can be:

* `Order` (`Pipe`, `Pace`): in a backend's output the events of a turn are together and its
  end comes last; behind them come the messages not begun; the handler is in the turn at the
  front, and a deferred message belongs to a later one.
* `Sent`, `OneBackend`: what is not acknowledged is in no backend yet, except as deferred, and
  a message passes through one backend only.
* `NotYetStored`, `AnswerIsOver`: a deferred message has no row and neither has its answer; a
  stored answer is not met again by a handler that still reads. These give `StoredOnce`,
  which `StoredAtOne` states without counting.
* `SendIsKept`, `Covered`: a sent message is stored, deferred or excused; the snapshot is also
  in a handler or in the log. These give `AckedIsKept` and `DurableStays`.
* `Room`, `Fresh`, `Holding`, `AllDown`: bounds on a turn, and what is empty when.

`AgentRunner`. `MailboxKept` and the types are inductive together. `ToolsEndOnce` becomes
`ToolsTracked` (before the clean-up a tool that was reported started is active or in
`completedToolNames`, so that a replayed result is dropped, and an active one has a report of
its end to come), `OutInOrder` becomes `TurnTracked` (what
was emitted and what is held back are all the text so far, in order; between turns nothing is
held back; in a turn the runner knows whether the agent has spoken).

`AgentApprovals`. `ModesAgree` speaks of rest, so `ModesTracked` says it of every state in
which changes have not overlapped: at most one call is under way and it is about the runner's
mode.

`WildcardMatch`. The invariant of the two-pointer loop. Before the first `*`, the pattern
matches the value exactly if the rest of one fits the rest of the other. After it, the value
matches if and only if the pattern behind the last `*` fits somewhere from `matchVi` on
(`LastStar`): earlier wildcards need not be reconsidered, which is why the code may forget
them. It holds for patterns and values of any length.

`MessagePages`. The list may be trimmed and reloaded, so "no gap" needs to know what requests
bring. `PagesInv` says that an answer under way is a page of the table as the server saw it
(`AsRead`), the table having grown since, and that the stored rows of a list without a hole are
the end of the table, with as many more in `totalCount` as are before them (`Whole`). Rows that
are not stored count in both, and embedded ones in neither, so each way of appending keeps the
difference. An older page for the cursor that the list has now then ends right before the
list; one that reaches into it leaves out what is there already, and the rest again ends right
before it. For any other page the model records a hole.

`ConversationFeed`. `ShownInOrder` and `SentOnce` hold because of what the backend says and
stores, which neither mentions. The invariant, `FeedInv`, has a part for each place:

* `FeedTyped`: which lists are of text, which of user messages and which of both.
* `Told`: the text of the table and then that of the turn is all the text so far, in order;
  the user messages of the table and then the deferred one are in the order of sending.
* `Restored`: the answer of every reconciliation is a stretch of text in that order.
* `Ordered`: what is shown is in order, and the text on the wire comes after it, and is
  text that was said. `ShownInOrder` alone is not inductive: the wire might bring old text.
* `Sent`: no message is shown before it is sent, nor the first one before its request returns;
  and what is shown and then queued is in the order of sending. The last is `SentOnce`.

`ShownIsStored` says that nothing is missing, which takes a second invariant, `StoredInv`. An
order is kept when something is lost and a whole is not, so it says where every chunk and
every message is while nothing has gone wrong (`mishaps = {}`):

* `Waiting`: between turns nothing is said.
* `Away`: while the client is away, the reconciliation to come has a number of its own.
* `Paced`: on the wire the text of the turn is behind what began this turn or ended others,
  and other text is before an event that makes a message of it.
* `Streaming`: text is streamed and messages are queued only while `isStreaming` is set: an
  idle status finalizes a conversation that streams, and no other.
* `Listed`: the messages shown or queued are those stored or deferred, save the one whose
  request is under way.
* `Fetching`, `Empties`: while reconciliations are under way, the text of the turn is in the
  stream, on the wire or in an answer, unless one has yet to ask for its snapshot; and one
  that found no snapshot has an empty answer.
* `Watching`: when none is under way, all text is shown or on the wire; what is streamed is of the
  turn, or the end of that is on the wire; and for each queued message there is something that
  will take it out (`Due`): a message in the inbox, the turn, the request or a result under
  way; or an idle status is on the wire, which takes them all.

At rest the wire, the turn and `Due` are empty, so all text is in the list, no message is
queued, and two rising lists of the same numbers are the same list (`RisingSame`).
A snapshot may be restored when the wire has lost the events that would have taken messages
from the queue. Then the queue holds no message but the deferred one (`QueueIsDeferred`), of which
there is one at most, and only in a turn, whose end will take it out.

`Connection` and `MCFrontend`. Only types are claimed of `Connection`; its one other property
is liveness. The five machines take turns, and the invariant of the composition is the
conjunction of theirs.

`FileTabs`. `FilesInv` is the types, `TextKept` and `TabTracksDisk`, which are `EditsKept` and
`CleanShowsDisk` per file with the causes that excuse each, and `SaveHasText`: a save under
way has a text, and one that closed its tab has none typed after it.

`Navigation`. `HistoryIsABrowsers` is inductive with the types, among them the bound on the
two stacks of a tab together, which no push keeps by itself: a push must be seen to clear the
other stack, and going back to move what it takes. `SelectionConsistent` is not: going back
selects whatever conversation an entry names. The invariant adds that, while nothing has
strayed, every entry of every stack names a conversation of its own session.

Proving found three mistakes in earlier versions of these models. `EditsKept` and
`CleanShowsDisk` held in the run and failed in larger instances: a text saved twice, with
another saved between the two and the first save answered last, marks the tab clean although
the disk has the other text. "overtyped" and "overtaken" now cover this lapse of the code,
and `EditsKept` says more than it did. And a jump in the menu of a scrambled tab took more
entries from its `past` than there were. `ShownInOrder` also held in the run only: a chunk is
lost in a disconnection, the user stops in the middle of the turn, which makes a message of a
later chunk, and the snapshot with the lost chunk is restored behind it. "overlap" now covers
a finished message with text of the turn.

Induction over data is possible where the property fits in a set: `FilterProofs` starts from
"every non-empty set of naturals has a least element", for sets instead of predicates, and
derives what `Only`, a recursive function, computes for every list.

Only model-checked:

* Liveness (`DeadAreBuried`, the fairness part of `ImplementsContract`, `SnapshotIsRecovered`,
  `MessagesSettle`, `StopEndsLoop`, `RequestsSettle`, `StreamingSettles`,
  `ConnectionRestored`): the prover has no support for liveness under fairness or for ENABLED.

## 6. What the violations say

* **`Stop` need not return** (`process.go:779`). `sendInput` writes to the pipe with `p.mu`
  held. A child that has stopped reading blocks the write, and `Stop`, `TryStop` and
  `IsRunning` wait for the lock, so SIGTERM is never sent. The manager calls `IsRunning` with
  `m.mu` held, so every conversation can be affected.
* **Two sends start two backends** (`manager.go:1836`). The double-check tests `IsRunning`,
  which is false until `Start` has run, and `Start` runs after the lock is released.
* **A finished conversation stays active** (`manager.go:1855`). The handlers are launched
  before the status is written.
* **An answer is stored twice** (`sqlite.go:2289`). The dedup looks at the last row only, and
  a deferred user message or an error row may stand behind the answer.
* **A shutdown loses a stored snapshot** (`manager.go:1443`). A turn that ends after the
  context was cancelled fails to store its rows, and its state is reset all the same.
* **The Go loop's interrupted turns are not recovered** (`sqlite.go:2197`). The query asks
  for a session id that only `session_id_update` records, and the loop never emits it.
* **Open files do not follow the disk** (`src/hooks/useFileWatcher.ts:59`). Sessions are
  registered with the watcher under the session's id, and the handler of its events looks
  tabs up by the workspace's, so it never finds one.

The passing runs of the frontend excuse further lapses by name, in history variables that no
action reads (`mishaps`, `holes`, `causes`, `scrambled`, `strayed`, `flaws`). The clearest is
in `MessagePages`: trimming a list keeps the cursor of the page loaded last
(`appStore.ts:118`), although the list now begins later. The comments at `appStore.ts:57` and
`appStore.ts:1266` say that what was trimmed is fetched again on scrolling up. What is fetched
is what lies before the old cursor; the messages between the cursor and those kept stay out
of reach until a page replaces the list.

## 7. Not modelled

The components with status `not_modelled` in `PROJECT.json`, with the reason there. Most of
the TypeScript is rendering: components that read a store and hold no state that a second
event could find out of date. Nothing of it is modelled, and `map` names only the handlers,
stores and hooks that carry the behaviour above, so it covers a small share of the lines.

Of the modelled components:

* `AgentProcess`, `ConversationManager`, `TurnPersistence`: the contents of messages,
  timelines, tools, plans and attachments; configuration calls; session naming and
  suggestions; the legacy one-agent-per-repository calls; the restart of the application in
  `ConversationManager` (`CleanupStaleConversations` resets most stuck conversations then);
  and `SendStop` in `StopConversation`, whose effect is that of a write and whose blocking is
  what `stop_hang` shows. The contract's liveness is shown for the agent process only; for
  the Go loop it is an assumption until `LoopRunner` is written.
* `AgentRunner`, `AgentApprovals`: the contents of messages and tool inputs, subagents,
  configuration commands, hooks other than those of approvals, and loading the settings files.
* `ConversationFeed`: `auth_error`, and the early end of the handler of errors after one;
  `interrupted`; events about tools, thinking, todos, budgets and checkpoints; batches of tool
  approvals as distinct from single ones, and elicitation prompts;
  `reconcileInitialStreamingState` (at start-up), and switching conversations. The local rows of
  `handleStop` and of a failed request are in `MessagePages` only. The reconciliations of
  several conversations, which the code does one after the other, are not told apart.
* `MessagePages`: the fetch of a compact message's details, the removal of a conversation and
  its restoration from the recently closed ones.
* `FileTabs`: reordering tabs, closing others or those to the right, diffs, and
  `useTabPersistence`, which saves tabs to the backend. (It saves the tabs of loaded sessions
  only, and the backend replaces all.)
* `Navigation`: start-up, closing the last tab, reordering tabs, closing others or those to the right,
  and the workspace, which goes with the session.
* `Connection`: the fallbacks of caches that were never filled (`DEFAULT_PORT`, no token); the web build, which has no shell; the ports and tokens as two caches (they
  are cleared and filled together); and unmounting the hook.
