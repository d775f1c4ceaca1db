# A verification project for omne_foundation

TLA+ models of `omne_foundation` (the Rust crates under `crates/` and the bots beside
them), model-checked with TLC on small instances, with theorems about the core that the
TLA+ proof system (TLAPS) checks for every instance. `PROJECT.json` lists, for every
definition of a model, the lines of the source it stands for, and the hazards with the
properties that would show them; this file says what the models mean, what the checks show
and what they do not.

## 1. Inventory

The workspace is a set of kits that a host program links, and a few programs. The state
that outlives a call, and the tasks and threads that share it, is in a few files; most of
the models are there. The rest is rules: what may be asked of whom, what is kept of what
came, what a request means. Where such a rule is subtle it is modelled too, as a
question that is put and answered.

| Part | State it keeps | Operations | Interacts through |
|---|---|---|---|
| mcp-jsonrpc client (`mcp-jsonrpc/src/lib.rs`) | pending map, cache of cancelled ids, `closed` and close reason, writer, reader task | request, notify, close, wait, drop; the reader's dispatch | async mutexes, oneshot channels, a detached clean-up task |
| mcp-jsonrpc batch responses (same file) | slots left, finished bit, collected responses, `responded` per request, owner count | dispatch, refuse, clone, drop, respond, finish, flush | atomics, an async mutex, detached tasks |
| mcp-jsonrpc detached spawner (`background_runtime.rs`) | the shared worker thread and its queue | `spawn_boxed` | channels, a fallback thread |
| mcp-jsonrpc streamable HTTP (`streamable_http.rs`) | session id, SSE connection, backoff | POST pump, SSE pump, reconnect | a pipe to the client, HTTP |
| mcp-jsonrpc stdout log (`stdout_log.rs`) | current part, parts on disk | append, rotate, prune | the file system |
| mcp-kit manager (`manager/`) | five maps keyed by server: connection, initialize result, cwd, configuration, mismatch; handler tasks and their count of time-outs | connect, request, initialize, disconnect, wait | the JSON-RPC client, child processes |
| mcp-kit shared manager (`shared_manager.rs`) | the manager behind a mutex; per server a lifecycle gate and a count of I/O in flight | request, notify, disconnect, inspect, clean up after an error | async mutex, read/write gate, `Notify`, handlers that call back |
| mcp-kit configuration and trust | trust mode, policy, what a connection is recorded as | expand, check, look up, connect, share | the environment, DNS, HTTP, child processes |
| notify-kit hub (`hub.rs`) | permits, sink states | notify, try_notify, send | tokio semaphore, `FuturesUnordered` |
| notify-kit sinks (`sinks/`) | the tenant token of Feishu | send, upload | HTTP, the file system |
| notify-kit bots (`bots/`) | sessions on disk, chains of messages, a limiter, a replay cache, a subscription | take, answer, report, flush, restart | chat services, an opencode server |
| text-assets-kit lazy values (`lazy_value.rs`) | state of a value, waiters, a process-wide graph of waits | get_or_init, set | mutexes, condition variables, nested initializers |
| text-assets-kit bootstrap (`bootstrap_lock.rs`, `resource_bootstrap.rs`, `managed_bootstrap.rs`) | roots held by the process, lock files, the report of what an attempt created | bootstrap, load, roll back | condition variable, advisory file locks, the file system, other processes |
| text-assets-kit trees (`secure_fs.rs`, `text_tree_scan.rs`, `text_directory.rs`, `data_root.rs`) | handles of directories | scan, load, resolve a root | the file system that others change |
| i18n-kit, i18n-runtime-kit | catalogs behind locks, a handle that is swapped | reload, replace, resolve, look up, render | read/write locks |
| secret-kit (`command.rs`, `lib.rs`) | a child process and its output; a cache with one fill per key | run; resolve | pipes, signals, a worker thread, mutexes |
| http-kit (`sse.rs`, `body.rs`, `outbound_policy.rs`, `client.rs`) | the decoder's buffer; sockets a client is pinned to | feed, read, check, select | HTTP, DNS |
| github-kit (`release.rs`, `client.rs`) | - | fetch the latest release | http-kit |
| config-kit, prompt-kit, structured-text-kit, error-kit, log-kit and their protocols, policy-meta, mcpctl | none that outlives a call | parse, merge, convert, print | - |

Who uses whom: mcp-kit's `SharedManager` owns a `Manager`, which owns one JSON-RPC
`Client` per server; the client's transport is a child's stdio, a socket or the
streamable HTTP bridge, its closes without a runtime go through the detached spawner, and
what a server prints may go to the stdout log. Everything that reaches a host asks http-kit
first. i18n-runtime-kit and prompt-kit load their resources through the bootstrap
transaction and publish them through lazy values. The hub calls the sinks; the bots are
programs of their own.

### What is hard, and what makes each part correct

* **JSON-RPC client.** Many callers register, write, wait, time out or are dropped while
  the reader answers and several agents close. *A caller that waits must be answerable*:
  nobody may be left in the pending map after its drain, no sender may be dropped unused,
  no entry may leak, and a close ends the reader and wakes the waiters.
* **Cancelled ids.** A bounded cache with generations and lazy eviction. *An id cancelled
  again must not be forgotten with its older mention.*
* **Batch responses.** The end of a batch races its last answer; clones of a request race
  each other's answers and drops. *One answer per request, one line per batch, with all of
  them.*
* **Detached spawner.** The worker may die with jobs in its queue, and its tasks call
  back. *A task runs exactly when its caller is told so.*
* **Streamable HTTP.** Two writers on one pipe, one of them dropped in the middle of a
  write; sessions that change while a stream is open. *Lines do not mix, and every request
  is somewhere.*
* **Stdout log.** Writes, renames and removals with a client that stops between any two.
  *The newest bytes are kept, in order.*
* **Trust.** Checks, lookups and reads of the environment at different times. *An
  untrusted manager keeps its policy, and a refusal comes before anything happens.*
* **Manager.** Five maps that must speak of one connection; futures dropped at any await;
  a server that dies at any moment. *No child is lost, no request is checked against
  another connection's records, no time-out of a handler is forgotten.*
* **Shared manager.** Connects and disconnects run outside the mutex, calls borrow the
  connection, handlers call back in. *Cold starts and tear-downs exclude each other, no
  live connection goes while it is borrowed, nobody waits for nobody.*
* **Lazy values.** Initializers need each other's values, panic, fail, and are overtaken by
  `set`. *One initializer at a time, no circle of sleepers, no lost wake-up, the error of
  an attempt reaches all that waited for it.*
* **Bootstrap.** Threads and processes find the place of their lock by looking at
  directories that they themselves make and remove; every system call may fail. *One
  attempt at a time, and a rollback that takes what is its own and nothing else.*
* **Trees, catalogs.** Each is read in several steps while others change it. *A scan never
  leaves its root, and one of a quiet tree is whole; a look-up misses nothing that was
  there throughout.*
* **Hub and sinks.** Futures are dropped at any await; sinks fail, panic and time out; one
  token serves concurrent uploads. *No permit is lost, no sink skipped, "sent" means
  taken, no upload sleeps through its token.*
* **Bots.** Messages, limits, evictions, restarts and failing calls of two services.
  *The messages of a chat take turns, the maps agree, an answer goes where it was
  asked, the file of sessions never goes back.*
* **Secrets.** A deadline, an exit, two pipes and helpers that outlive the leader; a cache
  read before an await and used after it. *Nothing of the tree is left behind, a value is
  that of its key and whole.*

The forty hazards behind these sentences that weigh most are in `PROJECT.json`, each at
its line; section 9 lists the others.

## 2. Modules

| Module | Models | Source |
|---|---|---|
| `RecentIds` | abstract: a window over the last cancellations | what `remember_cancelled_request_id` and `take_cancelled_request_id` promise |
| `CancelledIds` | the cache of cancelled ids | `mcp-jsonrpc/src/lib.rs`, `CancelledRequestIdsState` |
| `JsonRpcClient` | extends `CancelledIds`: callers, reader, owner, closes | `mcp-jsonrpc/src/lib.rs`, `close_lock.rs` |
| `BatchResponse` | one incoming batch and its answers | `mcp-jsonrpc/src/lib.rs` |
| `DetachedSpawner` | calls, the shared worker, its replacements, the fallback | `background_runtime.rs` |
| `StreamableHttp` | POST bridge, SSE task, one pipe, the session | `streamable_http.rs` |
| `StdoutLog` | append, rotate, prune, restart | `stdout_log.rs` |
| `ServerConnection` | one server name of a `Manager` | `mcp-kit/src/manager/mod.rs`, `lifecycle.rs` |
| `ServerHandlers` | drivers and handler tasks of a connection, the count of time-outs | `manager/handlers.rs`, `manager/mod.rs` |
| `SharedManager` | one server of a `SharedManager`, with what it does to the `Manager` | `shared_manager.rs`, parts of `manager/` |
| `TrustGate` (over `Outbound`) | from a configuration to a connection | `manager/connect.rs`, `placeholders.rs`, `streamable_http_validation.rs` |
| `Outbound` | operators: the policy for hosts, the selection of addresses | http-kit `outbound_policy.rs`, `ip.rs`, `public_ip.rs`, `client.rs` |
| `HttpBody` | the six ways to read a body, with and without a limit | http-kit `body.rs` |
| `SseReader` | the decoder of server-sent events | http-kit `sse.rs` |
| `GithubFetch` (over `Outbound`) | the latest release over a list of bases | github-kit `release.rs`, `client.rs`; redirects of http-kit `client.rs` |
| `NotifyHub` | `Hub` | notify-kit `hub.rs` |
| `SinkSend` (over `Outbound`) | one delivery by each of the twelve sinks | notify-kit `sinks/` |
| `TenantToken` | the tenant token of Feishu | `sinks/feishu/media.rs` |
| `NotifyRules` | texts, markdown, posts, edits, image roots, paths, the environment | `sinks/text.rs`, `markdown.rs`, `feishu/payload.rs`, `feishu/media.rs`, `event.rs`, `env.rs`; http-kit `url.rs` |
| `BotSessions` | the Telegram bot: poll, chains, limiter, sessions | `bots/opencode-telegram`, `bots/_shared/limiter.mjs`, `session_store.mjs` |
| `SessionStore` | the bots' file of sessions and the process around it | `bots/_shared/session_store.mjs`, `bootstrap.mjs` |
| `EventLoop` | the subscription to OpenCode's events | `bots/_shared/opencode.mjs` |
| `PushedBots` | what the Slack, Discord, Feishu, WeCom and DingTalk bots do in their own ways | their `index.mjs`, `_shared/log.mjs` |
| `WecomInbox` | which envelopes the webhook of WeCom lets through | `bots/opencode-wecom` |
| `ActionRun` | one run of the GitHub action | `bots/opencode-github-action` |
| `LazyValue` | `LazyValue` and `LazyWaitGraph` | text-assets-kit `lazy_value.rs` |
| `BootstrapTransaction` | lock, creation, load, rollback | `bootstrap_lock.rs`, `resource_bootstrap.rs`, `managed_bootstrap.rs`, the parts of `secure_fs.rs` they call |
| `TextTree` | scans, lists of files, the data root | `secure_fs.rs`, `text_tree_scan.rs`, `text_directory.rs`, `data_root.rs`; `i18n.rs` of i18n-runtime-kit |
| `Catalogs` | static, dynamic, composed and global catalogs | i18n-kit, `global_catalog.rs`, `runtime_handle.rs` |
| `LocaleRules` | tags, resolution, the locale of a command line, templates | i18n-kit `locale.rs`, `locale_resolution.rs`, `catalog_json.rs`; `locale_selection.rs` |
| `SecretCommand` | a secret command with its deadline, limits and process tree | secret-kit `command.rs` |
| `SecretCache` | the caching resolver | secret-kit `lib.rs` |
| `McpClientProofs`, `JsonRpcPartsProofs`, `ValuesProofs`, `SafetyProofs`, `SharedManagerProofs`, `NotifyKitProofs`, `PeerPartsProofs`, `PeersProofs` | theorems (section 6) | - |

### Composition and configurations

`JsonRpcClient` takes the state and the operations of `CancelledIds` into its own steps,
`StreamableHttp` has the client's end of the pipe (a request sent, settled, answered, the
close), and `TrustGate`, `GithubFetch` and `SinkSend` decide with the operators of
`Outbound`. The others share no state in the code: the client and the batches of one
connection share `closed` and the write lock, which `BatchResponse` takes as an event
(`CloseElsewhere`) and a write that may end or not.

Parts that share nothing are checked in one configuration where they ask the same
question. `MCPeers`, `MCTransport`, `MCSafety` and `MCKits` have a variable `part` that is
chosen at the start; the part runs and the others rest in an initial state. A property
of such a run is the conjunction of the parts', each guarded by its part, so that a
behaviour of the run is a behaviour of one module and nothing is said of products of
states that no program has. The batch and the spawner of findings 1 and 5 run in
`MCTransport` with that part alone (`Parts`). `LazyValue` and `StreamableHttp` (findings 2
and 6) and `JsonRpcClient` (its liveness; its safety is a part of `MCPeers`) also run as they
are, with their constants in the configuration; `MCBootstrapTransaction` and
`MCSharedManager` run one module each, with definitions for its constants.

### How the models stand for the code

A step is what runs between two points where another task, thread or process can come in:
an await, the acquisition of a lock, an atomic operation, a system call. Each agent has a
program counter; its labels name such points. What is under one lock is one step. Names
are those of the source where one function is one step.

* **`CancelledIds`**: `order` and `latest` are the queue and the map, `nextGeneration` the
  counter. `Remember` evicts, then inserts; `Take` removes from the map alone.
* **`JsonRpcClient`**: `pending` is the key set of the map, `answer[id]` what was sent on the
  id's oneshot channel. `Start`, `Register`, `WriteCheck`, `AcquireWrite`, `WriteDone`,
  `TakeAnswer` are the awaits of `request_optional_inner` and `write_line`; `ExpireWrite`
  and `ExpireWait` are the time-out, `Cancel` is the caller's future being dropped, after
  which `GuardRemoves` and `GuardRemembers` are `PendingRequestGuard::drop`. `BeginClose`
  wins or loses the close reason, `DrainAndSchedule` / `DrainAndFinish` take the map,
  `FinishClose` and the `Cleanup...` actions replace the writer and abort the reader.
  A message is its id and whether it fits its request.
* **`BatchResponse`**: `pending` and `finished` are the two halves of `completion_state`.
  `Dispatch` and `RefuseRequest` reserve a slot, `Respond` wins the compare-and-swap, the
  `AnswerStep`s push the response, give back the slot and flush. An owner is one clone;
  `DropOwner` counts it out and `ReleaseFields` frees its `Arc`s, in two steps as in
  `Drop::drop`.
* **`DetachedSpawner`**: `callTx[j]` is the sender a call has cloned, `taskState[j]` where
  the envelope is. A worker takes an envelope, confirms it and runs it; `ParentOf` says
  which task makes which call, from the thread it runs on.
* **`StreamableHttp`**: `pipe` is what the client has not read, a text and a `LineEnd` per
  line; `pipeOwner` the lock of the writer. `postPc` and `ssePc` are the two tasks,
  `wakes` the channel between them; `sessionId` is the shared one, `announced` the newest that
  any answer has named, `streamSession` whose the open stream is. The answer to a GET may name
  its session or not, and what it names replaces the shared one (`Names`). `fate` is how a
  request of the client ended.
* **`StdoutLog`**: the disk is the base file and the numbered segments, each a sequence of
  byte numbers; the client has an open file, a length and a next number of its own. As in
  the code, a length that cannot be read is taken for 0 and a listing that fails for an empty one
  (`OpenLog`, `ListParts`); any other failed call stops the log. `misnumbered` is history:
  after such a listing a segment got a number below one that was there.
* **`ServerConnection`**: the five maps are `conn`, `initOf`, `cwdOf`, `configOf` and the
  mismatch; a connection is its number, `kid` its child process. `manOp` is the operation that has the manager
  borrowed; dropping its future ends it at that await.
* **`ServerHandlers`**: an item goes from its queue into a slot of its driver, is handled,
  and is answered; `TakeSwaps`, `TakeLoads` and `TakeCounts` are the three looks
  of `take_and_reset`. `lookedAt` is history: how many handlers had timed out when
  `TakeLoads` read the counter.
* **`SharedManager`**: `table` is the `Weak` reference in `server_states`, `state[t]` the
  `Arc` a task has; a state nobody holds is forgotten, and the next operation makes a new
  one, gate and counter included. `inside[t]` is `is_reentrant_handler_call`. The number of
  a connection is `connection_id`.
* **`Outbound`, `TrustGate`**: an address is its class; a name is looked up anew each time
  and may give another answer each time. `gating.todo` is what is still to be done on the
  way to a connection, in the order of the code; `reached` and `looked` are whom it has
  talked to, `recorded` what the connection is later compared by.
* **`HttpBody`, `SseReader`**: a body is the sizes of its chunks, a stream its bytes, cut
  wherever the connection likes, which may also break (`ResponseEnds`, `ReadFails`). Of the
  six readers the one that writes the body out may do so without a limit and has a writer that may
  fail, and the one that drains it to its end has none. The reference of `SseReader` is what
  the bytes mean whole.
* **`GithubFetch`**: one step for each lookup, request and redirect; `asked` says who was
  sent what, token included. A redirect leads to any scheme and host, another port, and a URL
  with credentials or without; the policies look at scheme, host and port.
* **`NotifyHub`**: `outcome[e][s]` follows one send from being pushed into the
  `FuturesUnordered` to its end; `FirstPoll` is where the sink's state is read.
* **`SinkSend`**: a delivery goes from the configuration over the lookup, the images and the
  post to the provider's answer; a `fault` says what is wrong with its configuration. A sound
  may fail before it is heard and after: at the second bell or its flush, or in the wait for the
  command that was started.
* **`TenantToken`**: `UploadGoesOn` is the await-by-await course of an upload; the drop of a
  fetch leaves a reset that runs some time later. Each fetch gives a token of its own.
* **`NotifyRules`, `LocaleRules`**: one question, one answer. The operators are the code's
  algorithms, with folds for its loops; the properties compare them with what they are for. A
  time-out of the environment is a number, unset or malformed.
* **`BotSessions`**: `roomOf` is the chat of a message, chosen when it is sent; the chain of
  a chat, the limiter's queue and the store are as in the code. `BotRestarts` stops the
  process anywhere and loads what the store had flushed.
* **`SessionStore`**: the map is the order of its keys and an edition; the file is a copy of
  it, written through a temporary one. Timers, failing writes, signals and exits are
  actions.
* **`EventLoop`**: a round is a subscription; `next()` is asked for one event ahead of
  handlers that run beside the loop, up to `MaxConcurrent`.
* **`PushedBots`**: a bot is a record of its choices: what it takes, what its key is, who is
  replied to, what survives a restart. Posts run through the same awaits as in the
  five files.
* **`WecomInbox`**: an envelope is a stamp and a nonce; the server may deliver it again at
  any time, and its clock may be ahead of the bot's by the whole window. `remembered` is the
  replay cache with its times and its cleaning; `early` (history) are the envelopes let through
  with a stamp just a window ahead.
* **`ActionRun`**: one job, call by call; each may fail. Texts are lengths.
* **`LazyValue`**: one step per critical section of a value's mutex. `stack[t]` is the nest
  of `get_or_init` calls a thread is in. The graph (`graphOwner`, `waitingOn`) is kept
  beside the states it mirrors, since the code keeps both and they can disagree.
* **`BootstrapTransaction`**: directories are the levels of one path, of which only the depth
  that exists matters; `lockHolder` is the advisory lock of each level's file. `Begin` to
  `AcquireLock` take the lock, `OpenRoot` to `FilesDone` create, `Load`, `UndoFile`,
  `UndoDirectory` and `UndoDone` end the attempt, `Unlock` and `Leave` release. `OthersCome`
  and `OthersGo` are another root's bootstrap that makes a directory on the path and rolls
  it back; `Crash` ends a process anywhere.
* **`TextTree`**: directories are nodes, a handle keeps its node wherever it is moved; others
  make, remove and swap entries, a symlink among them, between any two looks.
* **`Catalogs`**: each dynamic catalog has its lock and is loaded from sources that change
  under the loading; a reader resolves a locale and asks the catalogs in turn, one
  lock after the other, through the handle it took.
* **`SecretCommand`**: the leader, the helpers and the pipes are the environment; `secretCall`
  is where the select loop is, `ward` what the clean-up worker still tries.
* **`SecretCache`**: entries, LRU list and in-flight table as in the code; a lookup has a
  hint, may be prepared to another key, leads or follows, and may be dropped anywhere.

What a module marks as history, and `madeFor`, `disturbed` and the `borrowed` of a clean-up
that is over, is read by no guard.

Left out throughout: wording and layout, the content of messages and files where no property
asks for it, statistics.

## 3. Fairness

Each specification with fairness assumes only what the code's runtime gives. Where the
steps of a module end in any case (nothing can go round for ever), one weak fairness of
their disjunction says the same as one for each, and is stated so.

* `FairClientSpec`: a task that can run is polled, a timer fires, a mutex that keeps coming
  free is granted (tokio's is first come, first served), and the sink that replaces the
  writer swallows what is written to it. The peer owes nothing: it need not answer, read
  or hang up, and nobody has to start or close anything. `WriteDone` is therefore fair
  only on a sink.
* `TransportFairness`. *Batch* (`BatchSteps`): tasks run, detached tasks meet their
  deadline, a drop that has begun ends; the application need not answer what it holds,
  and a write need not end. *Spawner* (`SpawnerSteps`): threads run and a task ends;
  workers die when they like. *Lazy* (`ThreadGoesOn`, `SetGoesOn`): a thread that competes
  for a mutex gets it, initializers and `set` end; a sleeper moves only when it is notified
  (spurious wake-ups may happen and are not assumed). *HTTP*: the tasks run (`PostWorks`,
  `SseWorks`), the client reads (`ReadLine`), a POST is answered or times out
  (`PostIsAnswered`), and a stream that answers a POST ends (`ServerStreams`). A GET
  need never be answered.
* `KitsSpec`. *Hub* (`HubSteps`): tasks run and each send ends, by its time-out at the latest.
  *Token* (`TenantTokenSteps`): tasks run, a fetch ends, a reset that was spawned runs.
  *Bots* (`BotSteps`): the event loop of JavaScript runs, and every call ends by its
  time-out; nobody has to write. *Store* (`FlushGoesOn`): a flush that runs ends, its timer
  fires. *Command* (`SecretCommandSteps`): the runtime, timers and the clean-up worker run,
  `/proc` shows a helper in the end, a pipe that nobody holds ends; no process has to
  exit by itself. *Cache* (`SecretCacheSteps`): lookups are polled and resolutions end.
  *Connection* (`ServerConnectionSteps`): the bound of a wait is reached, a process that has exited is
  reaped. *Handlers* (`HandlersSteps`): tasks and time-outs run and a write ends; a
  handler may hang. *Loop* (`EventLoopSteps`): as for the bots; the stream need not say
  anything.

The bootstrap and the shared manager have no liveness property. Their question is who
waits for whom, and it is asked as an invariant of every state: `WaitersWaitForWorkers`
says that every waiter waits for an attempt that waits for nobody, `SomebodyGoesOn` that
while an operation runs, some step of one is enabled. The latter counts neither
time-outs nor cancellation as a way out and takes the worst server, one that answers
nobody else while a handler of its own runs. `RollbackSparesLoads`, `LiveConnectionsGoUnborrowed`
and `NoStepBack` are properties of steps and need no fairness.

`CHECK_DEADLOCK FALSE` is in every configuration: these systems stop when all calls are
over, and the bounds on ids, calls and connections end a behaviour too.

## 4. Runs

Distinct states and times are those of two TLC workers.

| Run | Instance | Shows |
|---|---|---|
| `peers` (`MCPeers`) | twelve parts: the client, what is around it, the way out and the bots; 3.8 million states, PEERS s | `NoStrandedRequest`, `AwaitedSenderIsSafe`, `RequestsAreOwned`, `MessagesAreKept`, `StreamFollowsSession`, `InputIsTakenOnce`, `OutboundIsKept`, `TextsSayTheirSource`, `PushedChatsAnswered` |
| `client_liveness` (`JsonRpcClient`) | 2 callers, 1 id; 95 s | `TimedRequestReturns`, `CloseEndsWhatRuns` |
| `transport` (`MCTransport`) | four parts, with fairness; 131 s | `BatchIsWhole`, `OutcomeIsTrue`, `InitializersServeWaiters`, `WorkEnds` |
| `safety` (`MCSafety`) | six parts: bootstrap, cancelled ids, Telegram bot, catalogs, locales, trees; 140 s | `AttemptsAreWhole`, `RollbackSparesLoads`, `ChatsAreInOrder`, `ReadsAreTrue`, `AnswersAreExact`, `RecentIdsSpec` |
| `shared` (`MCSharedManager`) | 3 callers, each with its possible clean-up task, 2 configurations, 2 connections; 1.1 million states, 221 s | `OneConnectionAsAsked`, `CallsGoOn`, `LiveConnectionsGoUnborrowed` |
| `kits` (`MCKits`) | nine parts, with fairness; about 180 s | `CallsAreAccountedFor`, `RefreshHasItsFetch`, `ChangesAreKept`, `CommandIsInHand`, `CacheServesItsKeys`, `ConnectionsAreTracked`, `HandlersServeAll`, `LoopServesItsRound`, `NoStepBack`, `KitCallsEnd` |
| `batch_clone_drops` (`MCTransport`) | 2 requests, one with a clone | finding 1 |
| `lazy_failure_after_panic` (`LazyValue`) | 3 threads, 1 value | finding 2 |
| `bootstrap_shared_parent` (`MCBootstrapTransaction`) | the bootstrap without faults and crashes | finding 3 |
| `shared_deferred_cleanup` (`MCSharedManager`) | 3 callers, 1 configuration, 1 connection | finding 4 |
| `spawner_nested` (`MCTransport`) | 2 jobs, one made by the task of the other | finding 5 |
| `session_switch` (`StreamableHttp`) | one request of each side, two sessions | finding 6 |

Every passing run checks the types of its modules as well. For every property
there is a mutant in `PROJECT.json`: a plausible bug in a definition that stands for code,
with which TLC finds the property violated. The mutated forms stand in the modules, right
before the definition they could replace, and nothing else uses them.

### What the properties join

A property of a run is often a conjunction of named ones:

| Property | Its parts |
|---|---|
| `RequestsAreOwned` | `PendingHasOneOwner`: an id in the map belongs to one caller that will remove it; `SettledIdsAreGone`: an id that was settled is in the map no more |
| `CloseEndsWhatRuns` | `CloseWakesWaiters`, `CloseStopsReader` |
| `MessagesAreKept` | `LinesDoNotMix`, `RequestIsSomewhere`: a waiting request is posted, being served, answered or owed, or the stream with its answer broke |
| `InputIsTakenOnce` | `NewestBytesKept` of the log: what its segments must hold is there, in order, unless a part was misnumbered after a listing that failed; `EnvelopesAreTakenOnce` of WeCom; `ActionAnswersOnce`: what the action is asked it answers once, and whole |
| `OutboundIsKept` | `GateIsKept` = `UntrustedKeepsThePolicy`, `RefusedBeforeAnythingHappens`, `RecordIsTheConnection`; `ReleasesAreFetched` = `TokensStayWithTheTrusted`, `BasesTakeTurns`; `BodiesAreBounded`; `DeliveriesAreTrue` = `SentMeansTaken`, `DeliveriesStayInScope` |
| `TextsSayTheirSource` | `EventsAreTheStreams`: the events of a stream are those of its bytes, however it was cut and wherever it broke; `NoticesSayTheEvent` = `TextsFit`, `MarkdownIsKept`, `PostsFit`, `EditsAreShown`, `ImagesStayBelow`, `PathsStayUnder`, `HubOutlastsSinks` |
| `BatchIsWhole` | `AnsweredAtMostOnce`, `FlushedWhenComplete`, `SlotsMatchRequests` |
| `OutcomeIsTrue` | a call that returned `Ok` has its task running or run, one that failed never will |
| `InitializersServeWaiters` | `OneInitializer`, `GraphIsTrue`, `NoCircularWait`, `SleepersAreWoken` |
| `OneConnectionAsAsked`, `CallsGoOn` | `OneLifecycle`, `RequestsUseTheirConfig`; `SleepersWaitForIo`, `SomebodyGoesOn` |
| `AttemptsAreWhole` | `AttemptsTakeTurns` = `OneAttemptUnlessDisturbed`, `WaitersWaitForWorkers`; `FilesAreWholeOrGone` = `LoadSeesWholeFiles`, `FilesRolledBack` |
| `ChatsAreInOrder` | `ChatsTakeTurns` = `OneAtATime`, `CountsAreTrue`, `TakenOnce`; `MapsAgree` |
| `PushedChatsAnswered` | in `PushedChatsAreServed`: `SessionsStayApart`, `ConversationsTakeTurns`, `AskersAreTold` |
| `ReadsAreTrue` | of the catalogs `LookupsAreTrue` = `LookupsMissNothing`, `DefaultsStayEnabled`; of the trees `ScansStayInside`, `RootIsTheOneNamed` |
| `AnswersAreExact` | `QuietScanIsWhole` of the trees; `LocaleSuitsRequest`, `ArgsAreThePrograms`, `ValuesAreNotTemplates` of the rules for locales |
| `CallsAreAccountedFor` | `PermitsMatchEvents`, `EverySinkSettled`, `IdentityPanicReportedOnce` |
| `ChangesAreKept` | `ChangesAreOnTheirWay`, `ExitSaves` |
| `CommandIsInHand` | `ValueIsComplete`, `TreeIsInHand` |
| `CacheServesItsKeys` | `LruTracksEntries`, `OneFillPerKey`, `AnswerFitsCall` |
| `ConnectionsAreTracked` | `RecordsFitConnection`, `NoChildIsLost` |
| `HandlersServeAll` | `HandlersAreCounted`, `TimeoutsAreCounted`: no time-out is taken twice, and which are lost is said exactly (section 5), `RequestsAreAnswered` |
| `LoopServesItsRound` | `NoResultIsSleptOn`, `RoundIsBounded` |
| `NoStepBack` | `FileNeverGoesBack`, `PanickedSinkIsLeftAlone` |
| `WorkEnds`, `KitCallsEnd` | what each part of `transport` and of `kits` promises to end |

### Why the bounds are enough

* *Client* (in `peers`): two callers, one with and one without a time-out, are enough for each to be
  caught at every point by the other's close, the reader's and the owner's; a map with room
  for one refuses the second. Two ids let a caller come back after it was refused or
  settled. The proofs cover every number of callers and ids.
* *Cancelled ids*: with three ids and a window of three an id can be cancelled, taken,
  cancelled again and evicted while its old mention is still queued; six generations are two
  full windows. The proofs cover every other size.
* *HTTP*: a request of each side, a notification and something pushed fill the pipe from
  both tasks at once; two sessions are an old and a new one.
* *Streams, bodies, log*: five bytes hold a line of data, its end, the empty line and one
  byte of what follows, with a limit on lines and events that each can pass; bodies of up to eight bytes
  in chunks of up to three meet limits of zero, one and three, and none. Eight bytes over segments
  of two, two of which are kept, are rotated and pruned twice, by clients that stop, or begin
  with a wrong length or a wrong number, anywhere. That all parts are kept without a `max_parts`
  is proved and not run.
* *Trust*: a manager of each kind that the checks tell apart, a server of each kind of
  field, hosts of each class; one change of the environment is the least that can come
  between the check and the use, two sends the least that are looked up apart.
* *Releases*: three bases are a first, one that fails and one after it; two redirects lead
  to a host and from it. Two ports are that of the base and another.
* *Notices*: each limit is met from below, exactly and from above; texts of one to
  seven letters stand for short, fitting and long. Events of markdown are all nestings of
  up to four.
* *Sinks, action*: each sink with each fault and each kind of host; each kind of job with
  texts below and above each limit.
* *Envelopes*: three fill a cache of two. A clock of five steps outlasts the window and the time a
  key is kept; a stamp may be a window of one ahead, the most the bot accepts.
* *Batch*: two requests are the least where the first answer is not the last; two clones
  are the least that can race.
* *Spawner*: two jobs over three workers let one worker die with both jobs in its queue.
* *Lazy values*: three threads are an owner, a waiter and a late-comer; two values make a
  circle of waits. Three calls allow an attempt, a waiter and a retry, or the two nested
  ones of a circle. The proofs cover every other size.
* *Hub, token*: three events over two permits make one wait; two sinks over one place make
  the second wait for the first; three uploads are one that fetches, one that waits and
  one that comes after a reset.
* *Bootstrap*: the levels have a parent and a child of the root; the initial states cover
  every depth that exists and files of the user that are there. One crash leaves a half-made
  file, which the attempts after it meet. `MCSafety.cfg` has the constraint `Explored`:
  it stops exploring behind a state in which others made or removed a directory in the
  moment finding 3 is about (what follows there is known not to be exclusive; such states
  are still checked themselves), the second thread of a process begins after the first, and
  a crash and a botched rollback do not come in one behaviour. Only this part is
  constrained, so the others are explored whole.
* *Bots*: three messages are one at work, one chained and one refused; a store of one entry
  evicts with the second chat. A restart comes at every point (in `safety`; the liveness of
  `kits` has none, since the bots promise nothing about messages over a restart).
  Chats are numbered in the order of their first messages (`RoomsInOrder`), which leaves
  out permutations alone.
* *Catalogs, locales*: two composed catalogs of which either may have the key; tags of
  three subtags are one of each kind.
* *Trees*: a directory in a directory, a file and a link; one change made at every moment
  of a scan.
* *Command, cache*: two helpers are one that is seen and one that is missed; two lookups of
  two keys over a cache of one meet, evict and expire.
* *Connections, handlers, loop*: three connections let a reaped, a dead and a live one
  coexist; two slots for three items make one wait; three events are one handled, one
  read ahead and one to come, over an old and a new round.
* *Shared manager*: three callers are a request in flight, a disconnect that waits for it and
  a handler that calls back; two connections let the first be replaced while someone still
  has its number. The proofs cover every other size.

## 5. What the runs refute

1. **Concurrent drops of clones** (`batch_clone_drops`). `IncomingRequest::drop` tells the
   last clone by `owner_count`, then gives up because `Arc::strong_count` still counts a
   clone that has counted itself out but not dropped its fields. Neither answers. The
   changelog of mcp-jsonrpc says the owner count replaced `strong_count` for this reason.
2. **A failure after a panic** (`lazy_failure_after_panic`). A thread that waited for an
   attempt that panicked waits for the next one without being counted, so the error can be
   forgotten before that thread has seen it, and it runs an initializer of its own. The
   documentation of `get_or_init` says that waiters observe the result of the attempt.
3. **Two locks for one root** (`bootstrap_shared_parent`). The place of the lock file is
   chosen before anything is locked. When the bootstrap of another root makes a directory
   on the shared path meanwhile, a second process chooses a closer place, and both are
   inside. The documentation promises exclusion among cooperating processes.
4. **A deferred clean-up gives up** (`shared_deferred_cleanup`). The task that takes over a
   handler's clean-up carries the handler's scope, is refused like the handler, and leaves
   the failed connection installed. The changelog of mcp-kit says the task completes it.
5. **A worker waits for itself** (`spawner_nested`). An answer or a flush that runs on the
   shared worker and whose write fails schedules a close, on the worker's own thread:
   `spawn_boxed` sends the envelope to that worker and waits for it to be confirmed. Nobody
   takes it, and every later call waits too. The changelog of mcp-jsonrpc says that one
   stuck clean-up no longer holds up those behind it.
6. **An old session comes back** (`session_switch`). A GET goes out with the session of that
   moment. Before it is answered, the answer to a POST names a newer one. If the answer to the
   GET names its session, as the code allows, that id replaces the newer one, and nobody is
   woken: the stream and the later POSTs stay with the old session. The changelog of
   mcp-jsonrpc says that the stream reliably switches to the new session.

Seen in the models but contradicted by no text, or only by a reading of one, so not among
the findings:

* *Client.* A request without a time-out that waits for the writer of a peer that stopped
  reading is drained by a close but never returns. A respond future dropped during a flush
  loses the whole batch.
* *Streamable HTTP.* When the POST of an answer fails, the error that is written for it bears
  the id of the peer's request, and a request of the client with that id takes it for its
  own: `FailsByItsOwnPost` is violated. `docs/streamable_http.md` describes the error without saying
  whose id it bears. `AnswersArePosted` is violated with `WaitsForAnswer = TRUE`: a server
  that holds the answer to a POST until its own request is answered waits for the POST
  behind it. `LinesAreWhole` is violated because the pump may be
  dropped between a line and its end when the session changes; the client then closes.
* *Trust.* The environment is read at the connect and again for the record; a variable that
  changed in between records values the connection does not have, and one that was unset
  returns an error with the connection installed. With `allow_localhost` or a DNS check that
  may fail open, the check and the pinned selection of addresses ask different questions,
  so a host the one lets through may have no address for the other.
* *Handlers.* `take_and_reset` reads a counter as zero, the handler times out, its
  connection goes, and the counter, which nobody holds any more, is dropped with the
  time-out in it. The comment in `manager/mod.rs` says that only zeroed entries are compacted.
  `TimeoutsAreCounted` states what the code does, in full: the drivers of a counter that is
  let go are over, and what is lost with it are the time-outs between the take's look at the
  counter and its look at the owners, none before and none after. A take that let go of a
  counter with more in it, or of one in use, would violate it.
* *Log.* `docs/logging.md` of mcp-kit has the numbers go on from the highest part there is, and
  keeps the newest N segments. After a listing that failed the log begins at 1: a rotation takes
  the lowest number that is free, and what it put there is the first to be pruned, or is read
  before older bytes. `NewestSegmentsKept` is the claim of the docs and false in that case;
  `NewestBytesKept`, which is checked and proved, excepts just the files in which a segment has got
  a number below another's (`misnumbered`). A wrong length alone does no harm.
* *WeCom.* A key is kept for twice the window. An envelope whose stamp is a whole window ahead of
  the bot's clock is fresh to the end of just that time, so that in its last moment it
  may be taken once more. `EnvelopesAreTakenOnce` says so; the docs speak of replays only in
  general.
* *Bootstrap.* A failed attempt can leave directories behind that a call made before it
  failed half way.
* *Token.* With `RuntimeStops = TRUE`, a reset spawned on a runtime that is being shut
  down never runs, and the uploads of another runtime wait for good: `UploadsEnd` is
  violated. The changelog of notify-kit speaks of a reset on drop and not of this case.
* *Posts.* A text that ends exactly at its limit is cut without the mark; images of lines
  after the budget is used up are dropped although they were uploaded.
* *Bots.* With a session for each chat and answers to users (WeCom), what a tool reports
  late goes to whoever asked last. The DingTalk bot fetches its token outside of the
  guard that ignores errors, so a session may be stored and its message fail. A send of
  Slack that throws after it arrived is followed by a second text.

## 6. Proofs

All proofs are checked to the last leaf. They hold for every value of the constants that
satisfies the assumptions stated in the modules, which TLC evaluates in the runs; those that
say more than the type of a constant are that sets of callers, jobs, requests and threads
are finite, that their special values are not members, and the shape of the requests and
servers a module may be given (`TrustGateAssumption`: the kinds of transports and values;
`GithubFetchAssumption`: trusted hosts are hosts, bases form a list; `PushedBotsAssumption`: a
post of Feishu names its tenant, which the others lack; `SinkSendAssumption`: a sink has one of
the kinds, and hosts are known by kind; `WecomInbox`: its clock runs; `Catalogs`: a handle
holds at least one catalog, and at least one load may happen; `TextTree`: what a link leads
to outside of the tree is none of its files, a path that is asked for is a sequence of
names, limits are numbers). Each follows the same course: a
conjunction of named parts is shown to hold initially and to be kept by each action, one
lemma for each, and the properties follow from it.

| Module | Inductive invariant | Theorems (property of a run) |
|---|---|---|
| `McpClientProofs` | `CancelledInv` | `CancelledImplementsRecent` (`RecentIdsSpec`) |
| | `ClientInv` | `ClientTypeCorrect` (`ClientTypeOK`), `CloseStrandsNoRequest` (`NoStrandedRequest`), `AwaitedRequestsStayAnswerable` (`AwaitedSenderIsSafe`), `RequestsStayOwned` (`RequestsAreOwned`) |
| | `ServerConnectionInv` | `ConnectionsStayTracked` (`ConnectionsAreTracked`) |
| | `HandlersInv` | `HandlersServe` (`HandlersServeAll`) |
| `JsonRpcPartsProofs` | `BatchInv` | `BatchGoesOutWhole` (`BatchIsWhole`) |
| | `SpawnerInv` | `SpawnersOutcomeIsTrue` (`OutcomeIsTrue`) |
| | `HttpInv` | `MessagesStayKept` (`MessagesAreKept`), `SessionIsFollowed` (`StreamFollowsSession`) |
| `ValuesProofs` | `LazyInv` | `InitializersAlwaysServeWaiters` (`InitializersServeWaiters`) |
| | `SecretCommandInv` | `CommandStaysInHand` (`CommandIsInHand`) |
| | `SecretCacheInv`, `LruServes` | `CacheStaysTrueToItsKeys` (`CacheServesItsKeys`), `CacheTypeCorrect` |
| `SafetyProofs` | `BootstrapInv` | `AttemptsStayWhole` (`AttemptsAreWhole`), `RollbackAlwaysSparesLoads` (`RollbackSparesLoads`) |
| | `CatalogsInv` | `CatalogsTypeCorrect`, and the lemmas that `ReadsStayTrue` joins |
| | `TreeInv`, `ReadsInv` | `ReadsStayTrue` (`ReadsAreTrue`) |
| `SharedManagerProofs` | `SharedInv` | `SharedTypeCorrect` (`SharedTypeOK`), `OneConnectionAtATime` (`OneConnectionAsAsked`), `LiveConnectionsStay` (`LiveConnectionsGoUnborrowed`), `SleepersAreNotified` (half of `CallsGoOn`) |
| `NotifyKitProofs` | `HubInv` | `HubsCallsAreAccountedFor` (`CallsAreAccountedFor`), `HubLeavesPanickedSinksAlone` |
| | `TenantTokenInv` | `TokensRefreshHasItsFetch` (`RefreshHasItsFetch`), `TokenFetchesAreAnnounced` |
| | `StoreInv` | `StoredChangesAreKept` (`ChangesAreKept`), `StoreFileNeverGoesBack` |
| | `KitsInv` | `NothingStepsBack` (`NoStepBack`, of `MCKits`) |
| | `EventLoopInv` | `LoopAlwaysServesItsRound` (`LoopServesItsRound`) |
| | `BotsInv` | `ChatsStayInOrder` (`ChatsAreInOrder`) |
| `PeerPartsProofs` | `PushedInv` | `PushedChatsStayServed` |
| | `TrustGateInv`, `GithubFetchInv`, `HttpBodyInv`, `SinkInv` | the lemmas that `OutboundStaysKept` joins |
| | `ActionInv`, `InboxInv`, `LogInv` | the lemmas that `InputStaysTakenOnce` joins |
| `PeersProofs` | `PartsInv` | `OutboundStaysKept` (`OutboundIsKept`), `InputStaysTakenOnce` (`InputIsTakenOnce`), `PushedChatsStayAnswered` (`PushedChatsAnswered`) |

**Cancelled ids.** `CancelledInv`: types, generations that grow along the queue and are all
below the counter, and `LatestIsNewestMention`, that the map points to the last mention of an
id in the queue. The second part is what the third needs: eviction compares the generation of
the mention it pops with the map's, and because generations grow along the queue, a match
means that the popped mention was the only one left. `CancelledImplementsRecent` then shows
that every step of the cache is a step of the window under the mapping "the ids of the
queue; the keys of the map".

**Client.** `ClientInv` strengthens the properties of the client in `peers` by four facts.
*`RequestsDiffer`*: live requests have different ids below `nextId`; without it an answer
taken for one caller could be another's. *`CallersFollowTheirCode`* and
*`OthersFollowTheirCode`*: which callers have a request at which label, and where a closing
agent goes on; without them a step of a label the agent can never be at would have to
preserve the rest. *`UnusedIdsAreClean`*: ids not handed out have no answer and are not
cancelled, and an id its guard has removed does not come back. `CloseStrandsNoRequest` is
the order of the code: `closed` is set before the drain, and a caller looks again after it
has registered. Either the drain comes after the registration and takes the id, or `closed`
was set before the second look, which then fails.

**Batch.** That a request has one answer at most is not inductive, since the answers move:
from a task to the collected ones, to the line, to the wire. `NamedOnce` says where each
may be; `SlotsAreWon` that an open slot belongs to whoever won `responded`, and to one;
`FlushersComeLast` that whoever flushes found the batch finished without a slot, and so it
stays; `ReaderGoesOneWay` that what the reader has not come to is nobody's. The count of
the slots is over a finite set that gains and loses one member at a time.

**Spawner.** `OutcomeIsTrue` speaks of a call that has returned; `CallsHaveTheirTask` says
where its task is before, and `EnvelopesAreAwaited` that what a worker has in its queue or
its hand is awaited by the call that sent it, once, while that worker lives. So a worker
that dies drops only tasks whose calls will be told.

**Streamable HTTP.** Where a waiting request is changes with every step of three parties, so
`RequestsAreTraced` follows it: with the bridge until its POST is accepted, and after that in
the pipe, in the hand of the stream, owed by the server or lost with a stream. `EndsFollowTexts`
and `WritersHaveTheirText` say what the owner of the pipe has written last, from which the
lines stay apart. `SessionsAgree` is about the news of a session that is still to come to the
stream: whenever a POST changes the shared session it sends that news, and a GET changes it
to that of its own stream. So `SessionIsFollowed` needs no assumption on the server: the stream
and the POSTs are of one session. That it is the newest is another question, and false
(finding 6).

**Lazy values.** `LazyInv` has the graph (`GraphIsTrue`) and five more parts.
*`InitializersAreMarked`*: an initializer that runs, however deep in the nest of calls, is
the owner's or `set` has the value, and runs once at a time; from it follows
`OneInitializer`. *`OwnersInitialize`* and *`WaitersWaitForOthers`* tie the owner, `set` and
the waiters to the state. *`SleepersAreCounted`*: whoever sleeps during an attempt waits
for it, and whoever sleeps after a failure does so while somebody counted has yet to take
the error; as no more are counted than wait, and those that wait are awake by then, one of
them will wake it. *`NoCircle`*: no threads wait for each other in a circle, asleep or not.
That a new wait closes none is the search's merit: were there a circle, each step of
`Walk` would lead along it, to the thread itself or for as many steps as there are threads,
and the search refuses both. This is an induction over the steps of the walk, and that the
walk exists at all is another; `SetInduction` derives induction for a *set* of numbers
from the least element outside of it (`NatLessThanWellFounded`, `WFMin`), which needs no
operator as a parameter.

**Bootstrap.** Exclusion rests on a choice made before anything is locked, so `LockFileIsOne`
speaks of two times. Before the lock file exists, all who have looked for its place have seen
the same closest level, since nobody makes a directory without the lock and `disturbed` says
if somebody else did. Once it exists it is the only one, it is not below the root, and whoever
still searches is below it and will come to it. `RootIsReserved` and `LocksAreHeld` tie threads
to the reservation of their process and to the lock. The files are the subject of a *claim*: an
attempt claims what it has made and what it is writing. A claimed file is there and was made by
who claims it (`ClaimsHold`); a file nobody claims was left by an attempt that succeeded,
crashed or could not undo itself (`FilesAreOwed`, `HalvesAreKnown`). An attempt has seen all
files before the one it comes to, and only it could remove one (`FilesAreFound`,
`LoadsAreSafe`). That the greatest level of a set exists is `MaxIsIn`, by well-founded
minima. The proofs also cover what `Explored` leaves out of the run (after a disturbance the
properties say less, see section 5), and directories, threads and files in any number.

**Catalogs.** A lookup asks several catalogs, which may be replaced by reloads while it runs,
so "it missed nothing" compares it with all it could have seen: `storesSeen` has every store
that a catalog had during the call. `AskedInVain` says that each catalog which is no longer to be asked
had at some time of the call a store without the text; `LocalesWereThere` that the locales in hand
were enabled in one. `CallFits` ties these to the step at which the call is. When a reload
installs a store, what a call knows must stay true although there is now more it could have
seen (`MoreIsSeen`): all parts speak of a store that was there, none of the newest.
`DefaultsAreInstalled` is kept since a load without the default locale installs nothing.

**Trees.** `ModeFits` keeps a call to the steps of what it does: a scan, the reading of a list
of paths, the making of the data root. `FilesFit` has every text come from a file of the
tree, whatever the name has become since it was looked at: a link that is opened as a file
is refused. `LimitsFit` has directories counted when they are found and gives each frame its
depth, on the stack and among the nested ones, so that the limits hold of what is still to be
read. `ListFits` says that what was read are the first paths of the list, and that the prefix
walked and the names left make up the next. `RootFits` has the place that is validated
and made be the one the options name. `ReadsInv` joins the catalogs and the trees; in
`MCSafety`, as in `MCPeers`, one part moves at a time.

**Token.** `FetchIsAnnounced` and `RefreshEnds` are half of the property; `TokensAreFetched`
is what "a refused token is not served again" needs: tokens come from fetches that are
over, and nobody fetches twice. `ResetsAreLate` keeps the reset of a dropped fetch from
undoing another's. `TokensRefreshHasItsFetch` assumes `~RuntimeStops`, under which alone the
property is claimed (section 5); `TokenFetchesAreAnnounced` holds either way.

**Hub.** `PermitsAreKept` adds to the sums that a call is in the queue once; `FanOutGoesOn`
that the fan-out comes to the sinks in order and has a send under way until it is
through, so that a call that ends has every result. `SinkStatesAreTrue` relates a panic of
one call to the state that the others read; the action property follows from it, since a
send begins by a look at that state.

**Session store.** Maps are numbered by `edition`, and `WritesGoForward` orders the file's, the
one being written and the process's; both theorems come from there. `FlushFollows` says
that a write of an older map has a flush behind it, `SignalIsServed` that the flush of a signal
is to come, under way or over, and `StartsAreAlone` that a process that starts or is down meets
no flush of an earlier one.

**Event loop.** `RoundsAreOver` keeps the handlers of earlier rounds from being counted in a later
one, and `LoopWaitsWell` says what the loop knows when it waits: that the signal it waits for
was made, and that a result which came since has resolved it.

**Bots.** One message of a chat at a time is a fact about chains: `ChainsFit` says that the
map has the newest message of a chat that is not over and that a message hangs on the newest
one before it, `EndsInOrder` that what is over came before all that is not, so whoever runs is
the first. `LimiterInv` says of the limiter that a job waits only while all slots are taken.
`MadeForNone` keeps a session from being made for a chat that has one, which is what
`MapsAgree` needs to survive evictions and restarts.

**Shared manager.** The properties are about the connection; what keeps them is who holds
the gate. `HoldsWhatItNeeds` gives for each label what the task holds, `GatesExclude` and
`StatesAgree` what that means for the others: there is one `ServerState` as long as somebody
has it, so the gates are the same gate. `KnowsItsConn` is what a task may conclude from a
look it took behind its gate, `MetaIsTrue` that the metadata are the connection's or
missing, `RemovesUnborrowed` that no I/O is in flight behind a write gate once it was seen
to be over, and `CleanersComeAfter` that a clean-up task begins when its caller ends. The
sleepers' half of `CallsGoOn` needs that a guard notifies after it is counted out and while it
still has the state.

**Connections and handlers.** `OperationsFit` and `OneIsToMake` say which connection an operation
has in hand while it awaits; the records of the manager are then the installed connection's
or empty. In `HandlersInv`, `QueuesFit` and `RepliesFit` follow a request from the channel to its
answer; the handlers are counted over a finite set that gains and loses one at a time.

**Secrets.** The guard of the tree changes hands, from the call to the worker or the drop:
`GuardFollowsCall` says who has it, `TreeStaysDead` that a tree that was ended stays so although
its helpers fork, and `TakenIsWhole` that what was taken from a pipe was read to its end. Of the
cache, `LeadersFill` relates the map of leaders to the calls that fill and wait, and
`HintsAreFresh` carries the age of what was read under a hint to the answer. `LruServes`
is about the list of recent keys: it names each key of the map once and no other, and the
move of a key to its end (`Touch`) or its removal (`Without`) keeps that.

**Pushed bots.** Two posts have one key if and only if they belong to one conversation
(`KeysAreConversations`), so a queue for each key is a queue for each conversation.
`ChainsHold` and `FirstInLineRuns` say that a message hangs on the one before it of its key
and that only the first that is not over is at work; `CountsFit` counts them over a finite
set. `KeptFits` and `RoutesFit` say whose sessions and routes are in the store, which
survives a restart while the chains do not; without them a message after a restart could be
given a stranger's session. `TellingFits` follows an answer that is being sent, since a send that
throws is followed by an apology.

**Trust.** `StagesFit` says what has happened by each stage, and `UntrustedFits` that a
manager that does not trust its server goes on only with URLs that its policy allows and with
headers that hold no secret and nothing read from the environment; what was sent is among
that. What may share a connection is `IdentityFits`: while the environment stays, the recorded
identity is that of what was made, and (`SpelledAsMade`) a configuration that is spelled
the same makes just that.

**Releases.** `ErrorsFit` has the failed bases in turn, each that was not blank once.
`AskedFit` counts requests per base, never more than the redirects allow, and says of each one with a token
that its host is trusted, its scheme https and its port that of the base, before the first hop
and after any. Credentials are refused in the base; a redirect may bring its own, which no
policy looks at.

**Bodies.** `ReaderHasAll` says that a reader that goes on has kept all that was sent, and
`StopsAreTrue` why one stopped. The bound on what is drained follows from them chunk by chunk, for
the readers that have a limit; one without keeps all or throws all away, until the peer ends.

**Sinks.** `DeliveryFits` says what has happened by each stage: nothing is posted before the
answer is awaited, once from there, and only a sink whose configuration was found sound goes
on or reaches a host. A failure of input or output is a sound's, and says neither that it
was heard nor that it was not. `ImagesMayBeLoaded` has it that an image that was loaded is one of the
text's and from where this sink may load.

**Action.** A comment is the last step of a job, so a job that is not over has none; and whatever is
beyond its start was asked by a person (`ActionInv`). The lengths follow from how the texts are
cut.

**WeCom's inbox.** Once only is a race of two clocks. A key is kept for twice the window after
it was taken, a stamp is fresh for a window on both sides. An envelope is let through only
when its stamp is at most a window ahead of the bot's clock, however far the server's may be, so that
its key outlives the freshness of the stamp or, if the stamp was the whole window ahead, lasts into the
last moment of it: `FreshOnesAreKept`. It survives the clean-up, which ends at the first
key that has not expired, and the cut to the size of the cache, which `crowded` records.
`KeysAreOfTheTried` is for the last part of the property: a key that turns an envelope away is
another envelope's that came.

**Log.** What is to be shown is which bytes the files hold, wherever a client stopped, and
whatever length or number it began with, until a segment is misnumbered. A
segment is left only when it is full or more than full, so that n of them hold n parts:
`FilesAreInLine` has the segments a range of numbers, each of which goes on where the one before
ended, and the base after the last. `CallsFollowFiles` is what the client at each call knows of the files. From there to
`NewestBytesKept`, which reads the files one after another, is an induction over the
segments' numbers (`NumbersUpwards`).

**Parts together.** `MCPeers` runs one part at a time; `PartMoves` says that the others rest,
so that each keeps its own invariant, and `PartsInv` joins them. `KitMoves` and `KitsInv` do the
same for the hub and the store of `MCKits`, whose action properties `NothingStepsBack` joins.

**Only model-checked.** Liveness (`client_liveness`, `WorkEnds`, `KitCallsEnd`) and
`SomebodyGoesOn`, which uses `ENABLED`, are beyond the prover. So is what a recursive
function computes for every input where that takes induction over a value rather than a set
of numbers: the rules of `NotifyRules` and `LocaleRules` compute with folds and stay with
TLC, and so does `QuietScanIsWhole`, which compares a scan with a recursive function over
the tree (both are in `AnswersAreExact`). The type invariants of the runs that
join several modules (`PeersTypeOK`, `TransportTypeOK`, `SafetyTypeOK`, `KitsTypeOK`) are
checked there; where a proof needs a module's types they are part of its invariant.
`TextsSayTheirSource`, about bytes and texts, is checked on its instances.

## 7. Not modelled

Within the modelled parts:

* mcp-jsonrpc: the bounded wait of a batch flush without a runtime; sizes of messages and
  batches; bytes of a line on stdio, and so half-written lines there; the checks of the
  log's path and two writers on one log; how HTTP requests are sent (http-kit and reqwest).
* mcp-kit: several servers in one manager, which share only its mutex; strict version
  checks; parsing of the configuration file; look-ups of names through a proxy.
* notify-kit: labels of sinks (`assign_distinct_sink_identities`); the wording of payloads;
  signatures and ciphers; the refresh of WeCom's access token, which follows the scheme that
  `TenantToken` has for Feishu; the reading of a DingTalk error body.
* text-assets-kit: symbolic links in `BootstrapTransaction` (`TextTree` has them) and what a
  path may be spelled like. `LazyCatalog` and `bootstrap_i18n_catalog` of i18n-runtime-kit
  are a lazy value and a load, and have no module of their own.
* secret-kit: specifications of secrets, secret files, the choice of programs and their
  environment: checks in one pass.

Whole parts: config-kit and prompt-kit (files are parsed and merged, or bootstrapped and
loaded as above), structured-text-kit, error-kit, log-kit and their protocols (immutable
values and conversions), policy-meta (types and generated schemas) and mcpctl (a command
line around the manager) have no behaviour over time.

## 8. Plan

Modelled first was what the workspace's own documents are most explicit about, the
JSON-RPC client; then the other places with several agents; then transports, kits and bots,
and the rules that decide what goes out. What is left:

1. A proof of `QuietScanIsWhole` of `TextTree`, which needs induction over the tree.
2. An abstract "one connection per server" that `ServerConnection` and `SharedManager` both
   implement.
3. Pure algorithms against reference definitions: the merge of config-kit.
4. The refresh of WeCom's access token beside the chats it serves.

## 9. Further hazards

Those that a checked property is about, beside the forty of `PROJECT.json`:

* `mcp-jsonrpc/src/lib.rs:1303`: The pending map is at its limit: entries that are never
  removed would refuse every later request (`ClientTypeOK`, `RequestsAreOwned`).
* `mcp-jsonrpc/src/lib.rs:1204`: A close without a runtime hands its clean-up to a worker, a
  thread or nobody; the reader must stop all the same (`CloseEndsWhatRuns`).
* `mcp-jsonrpc/src/lib.rs:965`: A slot of a batch that is given back twice or never: the
  batch goes out early or not at all (`BatchIsWhole`).
* `mcp-jsonrpc/src/lib.rs:1026`: Clones of one request answer at the same time
  (`BatchIsWhole`).
* `text-assets-kit/src/lazy_value.rs:188`: Two callers find the value uninitialized, or a
  retry begins while waiters of the failed attempt are still to wake up
  (`InitializersServeWaiters`).
* `text-assets-kit/src/lazy_value.rs:290`: A failed attempt is handed on by wake-ups:
  whoever leaves the failed state must wake those that sleep until the last waiter has the
  error (`InitializersServeWaiters`, `WorkEnds`).
* `text-assets-kit/src/lazy_value.rs:93`: `set` replaces an attempt in flight in three steps
  (value, graph, wake-up) while the replaced owner may already be initializing again
  (`InitializersServeWaiters`).
* `text-assets-kit/src/lazy_value.rs:274`: An initializer panics half way through a chain of
  nested initializations: state and graph must be undone by the unwinding alone
  (`InitializersServeWaiters`).
* `notify-kit/src/hub.rs:156`: Several events meet a sink without an identity at the same
  time; one of them may report the panic (`CallsAreAccountedFor`).
* `notify-kit/src/hub.rs:422`: The next sink is pushed only when some send is over: with the
  wrong count a sink is skipped (`CallsAreAccountedFor`).
* `text-assets-kit/src/bootstrap_lock.rs:167`: The place of the lock file depends on which
  directories exist when an attempt looks, while attempts make and remove them
  (`OneAttemptAtATime`, `AttemptsAreWhole`).
* `text-assets-kit/src/secure_fs.rs:310`: A crash between making and writing a file leaves
  half a file, which the next attempt takes for an existing one (the docs promise nothing
  here) (`AttemptsAreWhole`).
* `text-assets-kit/src/bootstrap_lock.rs:65`: Attempts wait for a condition variable among
  threads and for a file lock among processes, one held while waiting for the other
  (`AttemptsAreWhole`).
* `mcp-kit/src/shared_manager.rs:292`: The guard of the borrowed connection has to exist
  before the gate is given up, or a disconnect slips in between and tears the connection
  down under the call (`LiveConnectionsGoUnborrowed`, `SharedTypeOK`).
* `mcp-kit/src/shared_manager.rs:857`: The last guard goes between the look at the count and
  the wait for its notification (`CallsGoOn`).
* `mcp-kit/src/shared_manager.rs:111`: The map has only Weak references: if nobody kept the
  state of a server during a call, the next operation would find a new gate and no I/O in
  flight (`SharedTypeOK`, `LiveConnectionsGoUnborrowed`).
* `mcp-kit/src/manager/lifecycle.rs:469`: The connection is installed before its
  configuration is resolved again, which may fail: it stays without metadata, or with those
  of the connection before (`OneConnectionAsAsked`).
* `mcp-kit/src/manager/mod.rs:1037`: The cwd and the configuration that a reuse is checked
  against may be those of the connection before: it died, was taken, or its removal was
  dropped half way (`ConnectionsAreTracked`).
* `mcp-kit/src/manager/mod.rs:505`: A disconnect gives up on its child after a timeout: the
  child must not stay a zombie (`KitCallsEnd`, `ConnectionsAreTracked`).
* `mcp-kit/src/manager/handlers.rs:134`: Handlers in progress: no more than the limit, and
  the counter of active scopes goes down on every way out, aborts included
  (`HandlersServeAll`).
* `notify-kit/bots/_shared/limiter.mjs:42`: A slot of the limiter that is not given back, or
  a job that nobody starts when one is (`ChatsAreInOrder`, `KitCallsEnd`).
* `notify-kit/bots/opencode-telegram/src/index.mjs:102`: A session is evicted from the
  store, or replaced, while the map from sessions to chats still has it (`ChatsAreInOrder`).
* `notify-kit/bots/opencode-telegram/src/index.mjs:307`: An answer of getUpdates is lost, or
  comes again: each message is taken once by a process (`ChatsAreInOrder`).
* `notify-kit/bots/_shared/session_store.mjs:56`: The process is killed between the
  temporary file and the rename, or exits by a signal while a write is under way
  (`ChangesAreKept`).
* `notify-kit/bots/_shared/opencode.mjs:328`: A handler of the last round settles, or goes
  on beyond its time-out, when the next round has begun (`LoopServesItsRound`).
* `notify-kit/bots/opencode-feishu/src/index.mjs:252`: Two posts of a conversation are
  handled at once, or the promise they are chained by leaves the map too early, and one
  conversation gets two sessions (`PushedChatsAnswered`).
* `notify-kit/bots/opencode-dingtalk-stream/src/index.mjs:177`: The access token is fetched
  outside what swallows errors: the link of a session that has been stored already may fail
  the message, and its apology after it (`PushedChatsAnswered`).
* `notify-kit/bots/opencode-slack/src/index.mjs:286`: `say` throws, perhaps after the text
  arrived: the handler apologises, so that the asker is told twice (`PushedChatsAnswered`).
* `notify-kit/bots/opencode-github-action/src/index.mjs:101`: Any call of GitHub or of the
  opencode server fails or times out between the comment that asked and the one that
  answers: a job that ends well must have answered exactly once (`InputIsTakenOnce`).
* `notify-kit/bots/opencode-github-action/src/index.mjs:44`: A text of the limit, one over
  it, and the mark that must fit too, for parts that are cut again when put together
  (`InputIsTakenOnce`).
* `http-kit/src/sse.rs:143`: The limit of an event counts the newlines between its data
  lines, and an event may end with the body (`TextsSayTheirSource`).
* `secret-kit/src/command.rs:82`: The call is dropped or fails at any point while helpers of
  the command live, some of them not in /proc yet (`CommandIsInHand`, `KitCallsEnd`).
* `secret-kit/src/lib.rs:553`: Several calls miss the same key: one fills, the others listen
  to it, and it may fail, be dropped or be evicted before they look (`CacheServesItsKeys`,
  `KitCallsEnd`).
* `notify-kit/src/sinks/feishu/media.rs:135`: notify_waiters between the look at the state
  and the wait for it: the wake-up would be lost (`RefreshHasItsFetch`, `KitCallsEnd`).
* `notify-kit/src/sinks/feishu/media.rs:290`: A token is refused after another upload has
  refreshed it: only the refused one may be discarded (`RefreshHasItsFetch`).
* `i18n-kit/src/locale_resolution.rs:20`: A locale is resolved against a snapshot of the
  locales, and used after the catalog was reloaded without it (`ReadsAreTrue`).
* `i18n-kit/src/dynamic/locale_sources.rs:58`: A reload fails at any of its sources, on a
  limit, a duplicate or bad JSON: what was loaded before stays, whole (`ReadsAreTrue`).
* `i18n-kit/src/dynamic/composed.rs:58`: An exact text of a later catalog, a fallback of an
  earlier one, the default of the composition and a bare key compete for one answer
  (`ReadsAreTrue`).
* `i18n-runtime-kit/src/locale_selection.rs:56`: The locale flag is cut out of a command
  line that belongs to the program: flags after "--" or after a positional argument, a flag
  without its value, a flag given twice (`AnswersAreExact`).
* `i18n-kit/src/translation.rs:155`: Values that contain braces, names that are not given
  and placeholders that are not closed go through one pass of substitution
  (`AnswersAreExact`).
* `i18n-runtime-kit/src/i18n.rs:363`: A directory is refused for its width before it is
  walked; the budget counts what is still allowed and shrinks as files and directories are
  found, so it must not refuse what the limits allow (`AnswersAreExact`).
* `text-assets-kit/src/text_directory.rs:123`: Two names that differ in case only are two
  files here and one elsewhere: the load must fail whole instead of dropping one
  (`AnswersAreExact`).
* `text-assets-kit/src/data_root.rs:222`: The place of the data root is resolved, its
  ancestors validated and its directories created in three steps (`ReadsAreTrue`).
* `github-kit/src/client.rs:218`: The host of a base passes its check, and the request that
  carries the token looks it up again and may be redirected (`OutboundIsKept`).
* `github-kit/src/release.rs:120`: Each base may fail in any of five steps; the call must go
  on with the next and report every failure (`OutboundIsKept`).
* `http-kit/src/body.rs:303`: A peer declares one size and sends another, or never stops:
  what is kept and what is read must stay bounded, and a body that was cut must not pass for
  whole (`OutboundIsKept`).
* `notify-kit/src/sinks/text.rs:139`: A message ends at, one before or one after the limit
  of its sink; the mark of what is missing needs three characters of its own
  (`TextsSayTheirSource`).
* `notify-kit/src/env.rs:94`: The time limit of the hub has to outlast that of the sinks,
  with either, both or the old variable set (`TextsSayTheirSource`).
* `notify-kit/src/event.rs:140`: A text and its plain rendering are set, replaced by one of
  a catalog and cleared in any order (`TextsSayTheirSource`).
* `notify-kit/src/sinks/webhook_transport.rs:22`: The time of the hub is up, or the
  connection breaks, after the provider took the message: the failure does not say that
  nothing was sent (`OutboundIsKept`).
* `notify-kit/src/sinks/feishu/payload.rs:26`: The images of a text are loaded and uploaded
  at the same time, and some of them fail; the text has to be posted all the same, with the
  keys of those that did not (`OutboundIsKept`, `TextsSayTheirSource`).

Those that no property covers, and why:

* `mcp-jsonrpc/src/lib.rs:1147`: The reader, a failed write, the owner and a timed-out wait
  close at the same time; one reason has to stand, and closed must not be seen without it.
  Reason and flag are set under one lock, by whoever finds the flag unset; that is one guard
  in the model as well (Claim), so a property would only repeat it.
* `mcp-jsonrpc/src/lib.rs:1455`: A request without a timeout waits for the writer of a peer
  that stopped reading, and the client is closed meanwhile: the close drains its entry but
  does not reach it in write_line. The model has the behaviour: such a request never
  returns. No text promises that it does, so CloseEndsWhatRuns speaks of the callers that
  await an answer.
* `mcp-jsonrpc/src/lib.rs:1456`: A write cancelled by its timeout may leave half a line on
  the wire, after which the next line is garbage to the peer. Bytes are not modelled: a
  write is begun and then done or not.
* `mcp-jsonrpc/src/lib.rs:926`: The future that flushes a batch is dropped, or the batch is
  over the size limit, after its responses were taken out: they are lost, and the client
  stays open. Sizes are not modelled, and a response future that is dropped during the flush
  is a step of the caller that no text speaks of.
* `mcp-jsonrpc/src/background_runtime.rs:157`: A caller whose worker is gone clears the
  spawner's sender, whoever has put it there: a worker that another caller has just started
  loses its sender. The worker so forgotten serves what it has and exits, and the next call
  starts one more; nothing is lost, so no property speaks of it.
* `mcp-jsonrpc/src/streamable_http.rs:631`: The server may hold the answer to a request
  until the client has answered a request of its own; the POST pump does one POST at a time
  and does not get to the answer. AnswersArePosted of StreamableHttp is violated with
  WaitsForAnswer = TRUE (section 5); WorkEnds is checked for servers that do not wait.
* `mcp-jsonrpc/src/streamable_http.rs:442`: The SSE pump is dropped when the session
  changes, perhaps between a line and its end. LinesAreWhole of StreamableHttp is violated
  by it (section 5); MessagesAreKept speaks of lines of two writers.
* `mcp-jsonrpc/src/stdout_log.rs:254`: The numbering of parts ends at u32::MAX; from then on
  every rotation fails, and so does the log. Four thousand million rotations; the parts of
  the model are as many as its bytes.
* `mcp-jsonrpc/src/stdout_log.rs:171`: Two clients log to the same path: each has its own
  length and part number. No text allows it or says what it gives.
* `text-assets-kit/src/resource_bootstrap.rs:210`: The rollback of one root removes a
  directory that the bootstrap of another root has just opened; that one then fails with
  "not found". The model has it (a handle of a removed directory is dead) and shows that
  attempts still end, but no text promises that roots do not disturb each other.
* `text-assets-kit/src/secure_fs.rs:241`: A call that makes several missing directories
  fails half way: those it has made are in no report, so no rollback removes them. The model
  has it (DirectoryFails drops `made`), and a rule that a failed attempt leaves no directory
  fails there; whether the doc of bootstrap_text_resources, which speaks of a later write in
  the same attempt, promises it is a matter of reading, so no property states it.
* `mcp-kit/src/manager/mod.rs:470`: Connection::wait joins the handler tasks without a
  deadline; a handler that does not return holds it for ever. It says so: the bounded form
  is wait_with_timeout, which the manager uses.
* `mcp-kit/src/manager/lifecycle.rs:469`: The identity and the cwd of a connected server are
  computed again after the connection was put into the map, and may fail: the call fails and
  the connection stays. The model has it (Installs); RecordsFitConnection allows a
  connection without records, since a reuse of it is then checked against nothing recorded
  for another.
* `mcp-kit/src/manager/handlers.rs:308`: A driver is aborted while it writes an answer: the
  request has an answer by then as far as its Drop knows, and the peer has half of one. The
  connection is going away in every such case (reply "cut" of ServerHandlers).
* `mcp-kit/src/manager/handlers.rs:308`: respond_ok has no timeout of its own: a peer that
  stops reading keeps the slots of its handlers. KitCallsEnd assumes that a write ends
  (RespondsTo is fair); JsonRpcClient has the writer that waits.
* `notify-kit/bots/opencode-telegram/src/index.mjs:276`: A session is evicted while a prompt
  runs in it: what its tools report goes nowhere, though the answer is still sent.
  ChatsAreInOrder says that the maps agree, and the reports of an evicted session are
  dropped by it; no text says otherwise.
* `notify-kit/bots/opencode-telegram/src/index.mjs:307`: The offset moves on before a
  message is handled: what a process had taken and not handled when it stopped is not sent
  again. The bots promise nothing about messages over a restart; MessagesEnd is checked with
  restarts at zero.
* `notify-kit/bots/_shared/session_store.mjs:268`: A flush that fails leaves the map dirty,
  but nothing flushes it until the next change or the exit. ChangesAreKept excepts the time
  after a failed write; the bots are told of it in the log only.
* `notify-kit/bots/_shared/opencode.mjs:318`: A handler fails while the next event has been
  read already: the round ends and that event is dropped. The loop subscribes anew and the
  server does not repeat the event; no text promises delivery.
* `notify-kit/bots/opencode-wecom/src/index.mjs:473`: With a session for each chat and
  answers to users, the route is that of whoever asked last: what the tools of A's prompt
  report late goes to B. Modelled (Resumes of PushedBots): PushedChatsAnswered promises a
  report to somebody who asked in the session, and no text promises more.
* `notify-kit/bots/opencode-wecom/src/index.mjs:576`: More envelopes come within the window
  than the cache holds: the oldest key is dropped, and its envelope would be taken again.
  Modelled (crowded of WecomInbox): the cache is bounded by design, and InputIsTakenOnce
  promises once only while it has room.
* `secret-kit/src/command.rs:29`: The guard of the process tree cannot be made after the
  command was spawned: the call fails and the command is left to run. GuardFails of the
  model leaves the leader running; kill_on_drop is not set, and no text speaks of the case.
  TreeIsInHand excepts it.
* `secret-kit/src/command.rs:316`: The cleanup worker tries a tree a fixed number of times;
  a helper that appears after the last try is missed. The number of tries is the promise;
  ward of the model records that they were made.
* `notify-kit/src/sinks/feishu/media.rs:106`: The reset of a dropped refresh is spawned on a
  runtime that is being shut down and never runs: the sink, used from another runtime, stays
  Refreshing for good. UploadsEnd of TenantToken is violated with RuntimeStops = TRUE (section 5); the runs have a runtime that goes on.
* `mcp-kit/src/manager/lifecycle.rs:469`: The environment is read at connect and once more
  for what the connection is recorded as: a variable that changed in between records values
  the connection does not have, and one that was unset returns an error with the connection
  installed. Modelled (Records of TrustGate): the record follows the environment of the
  later read, which the code neither rules out nor promises; GateIsKept says that the two
  agree when the environment did not change.
