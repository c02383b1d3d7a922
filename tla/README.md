# turkish.code: TLA+ models, model checking and proofs

turkish.code is a desktop application of two processes. The **shell** (*Kabuk*,
Rust, `src/shell`) owns the window and supervises the **Core** (*Çekirdek*,
Python, `src/core`), one asyncio process that keeps the durable state and runs
tools, agents and conversations. The two talk JSON-RPC frames over the Core's
stdin and stdout. This directory holds TLA+ models of the parts of that system
in which something concurrent, interruptible or crash-prone happens, the TLC
runs that check them, and TLAPS proofs about them.

`PROJECT.json` ties the models to the source: `map` gives the lines each
definition stands for, `hazards` lists what can go wrong and at which line,
`findings` the places where code and documentation disagree.

Contents: 1 inventory of the system, 2 the modules, 3 the runs and their
bounds, 4 fairness, 5 what is proved, 6 disagreements found, 7 limits, 8 not
modelled.

## 1. Inventory

Paths are relative to `src/core/turkish_code` or, for `.rs`, `src/shell/shell-core/src`.
*Whole* means that every operation that changes state is an action; section 8
says what is left out of the others.

| Component | State | Operations | Correct when | Model |
|---|---|---|---|---|
| Database: `depo/db.py`, `islem.py`, `baglanti.py` | `_txn_lock`, `_closed`, a one-thread executor, one SQLite connection | `transaction()` blocks, `executescript`, queries, `aclose` | one unit's writes at a time; all or nothing; the caller is told the truth; every call ends | `Database`, `AtomicUnits`; whole |
| Journal: `depo/journal.py` | the log file, `_head`, `_append_lock` | `open` (scan, truncate), `append`, `read_from` | acknowledged records survive; numbers are never given out twice | `Journal`; whole |
| Blob store: `depo/blobs.py` | files by hash, reference counts in the database | `put`, `retain`, `release`, `collect_garbage` | counts equal references; a referenced blob is there; orphans go | `BlobStore`; whole |
| Schema migration: `depo/migrate.py` | `PRAGMA user_version`, the tables | apply each pending version in one transaction | interrupted anywhere, resumes at the right version; refuses a newer store | `Schema`; whole |
| Storage engine and layout: `depo/alan.py`, `yerlesim.py`, `hata_eslem.py` | the open stores of a workspace | open a workspace | an open store has the tables its program knows | `Schema`, `Indexes`; partly |
| Repositories and indexes: `depo/repos/*`, `fts.py`, `vec.py` | tables | writes and queries, one unit of the database each | an upsert never loses what it replaces; a query over several reads answers sensibly | `Memory`, `Knowledge`, `Indexes`; whole |
| Memory: `bellek/*`, `depo/repos/bellek.py` | items with scope, layer, state, salience | get, save, pin, forget, purge, recall | what was dismissed is not recalled; the most salient is | `Memory`; whole |
| Project graph: `graf/*`, `depo/repos/graf.py` | nodes, edges | upserts, path, subgraph, neighbours, impact | a path is one and none is shorter; a subgraph hangs together | `Knowledge`; whole |
| Core Channel: `kanal/*`, `__main__.py`, `ipc.rs`, `bridge.rs`, `frame.rs`, `message.rs` | pending maps on both sides, two write locks, two pipes, one task per request, the shutdown event | request/response both ways, `app.shutdown`; frames, envelopes | each request gets its own response or an error, never silence; frames come whole; both ends read alike | `Channel`, `Framing`, `Messages`; partly |
| Shell supervision: `lifecycle.rs`, `app.rs`, `core_process.rs`, `bridge.rs`, `commands.rs`, `state.rs` | status, restart count, current process, attached bridge, the lifecycle mutex | bootstrap, restart, recover, shutdown, health | never two Cores; the reported status is true; the bridge serves the Core that runs | `Shell`; partly |
| Tool dispatch: `araclar/*` | tokens by call id | dispatch, cancel | the caller is told what happened; the gate is never passed by; nothing left running | `Dispatch`, `Nesting`, `Tools`; whole |
| Agent runtime: `ajanlar/*` | tokens by run id, sessions, run records | dispatch, cancel; open, start, complete, fail, cancel a run; stop a session | a cancelled run is over at every depth; a run's outcome stands | `Dispatch`, `Nesting`, `AgentSessions`; whole |
| Skill runtime: `yetenekler/*` | registry, states | load, enable, disable, fail, recover, unload, invoke, cancel | what is enabled can be invoked and nothing else | `Skills`, `Dispatch`, `Nesting`, `Tools`; whole |
| Plugins: `eklentiler/*` | plugin states, registered tools, grants | scan a root, load, enable, disable, unload, reload, recover | tools of enabled plugins and no others are registered; a tool never uses more than its plugin was granted; one bad plugin costs no other (it may, see 6) | `Plugins`, `Discovery`, `Tools`; whole |
| Conversations: `sohbet/*` | active turn by conversation, histories | create, send, cancel, suspend, resume, close, archive, delete | cancel reaches the turn that runs; a history is whole turns | `Conversations`; whole |
| Workspaces: `calisma_alani/*` | registry, current workspace, bound services | create, open, close, switch, delete, archive, restore, shut down | the current one is registered and has services of its own | `Workspaces`, `Conversations`; whole |
| Routing and failover: `yonlendirme/*` | cooldowns | select, stream with retry and failover | nobody cooling down is chosen; each candidate in its turn; every request ends | `Routing`, `Scoring`; partly |
| Model providers: `saglayicilar/*` | model cache with times | refresh, list, health, stream | a cache entry is not older than the one it replaces; every reply is understood | `Catalog`, `Providers`; partly |
| Configuration and composition: `yapilandirma/*`, `kompozisyon.py`, `__main__.py`, `kanal/uygulama.py` | settings, registered providers, what `sys.stdout` is | resolve the settings, build, open the streams, serve; handshake, health, shutdown | every key is decided by its layers; a bad one costs its own value only; the process serves (it does not, see 6) | `Boot`; partly |
| Permission policy: `permissions.rs`, `araclar/izin.py` | decision tables | evaluate, answer | plan mode reads only | the Core's table in `Tools`, the answering in `Channel`; partly |
| Retrieval `getirim/*`, embedding `gomme/*`, metrics `gozlem/*`, logging `gunluk/*`, errors, clock and identifiers `hata/*`, `ortak/*`, shell events and window state `events.rs`, `state.rs`, the binary `shell-app/src/main.rs` | none of their own, or plain values | construction, formatting, forwarding | value semantics | not modelled |

How they interact. The shell spawns a Core and drives it through the channel;
the Core's handlers ask the shell for permissions through the same channel, in
the opposite direction, while their own request is open. In the Core, handlers
run as tasks of one event loop; everything that touches a disk is handed to a
thread: one fixed thread for the database, a pool for journal and blobs.
Repositories, migrations, the vector index and the blob store's counts all sit
on the same `Database`. Conversations recall memory and dispatch agents, skills
call agents and tools, agents call tools, tools ask permission; plugins and
skills decide what there is to call. Every conversation runtime, the
container's and each opened workspace's, uses one agent dispatcher. Routing asks
providers for their health and streams from the models the catalog lists.

What is hard in it: tasks that are cancelled while a thread works for them, and
give back a lock the thread's effect still needs; a process that dies between a
write and its `fsync`, or between an `unlink` and the directory's; a pipe that is
full in one direction because the reader of the other waits; requests in every
stage when the other side goes away; operations that take the lifecycle lock
twice; a cancellation that has to pass through three dispatchers, each of which
suppresses one; ids that two users may both choose, in a table both write to; a
query of several reads with writers between them; what is read before an await
and used after it.

## 2. The modules

| Module | Models | Builds on |
|---|---|---|
| `AtomicUnits` | what the storage layer promises of a unit of work | |
| `Database`, `DatabaseProofs` | the Database and its writer thread | implements `AtomicUnits` (`INSTANCE ... WITH`) |
| `Journal`, `JournalProofs` | the event journal | |
| `BlobStore`, `BlobStoreProofs` | the blob store over the database's one transaction at a time | what `Database` shows of a transaction |
| `Schema` | opening a store, several programs at once | what `Database` shows of a transaction |
| `Memory`, `Knowledge`, `Indexes` | memory items, the project graph, words and vectors | the same |
| `Channel`, `ChannelProofs` | both ends of the channel, the pipes, one process life | |
| `Framing`, `Messages` | the frame format over bytes, the envelopes | |
| `Boot` | settings, providers, streams, the app handlers | `Providers`' adapters |
| `Shell`, `ShellProofs` | supervision over many process lives | what `Channel` shows of `app.shutdown` and of a heartbeat |
| `Dispatch`, `CallersProofs` | one bounded call: token, permission question, race | |
| `Nesting`, `CallersProofs` | calls made by the work of other calls | `Dispatch` |
| `Discovery` | a scan of a root for plugins | |
| `Plugins` | the plugin host and the tools it registers | |
| `Skills` | the skill lifecycle and its registry | |
| `Tools`, `CallersProofs` | calls over what plugins and skills register | `Plugins`, `Skills` and `Dispatch` composed |
| `AgentSessions` | a session's runs and its lifecycle | what `Dispatch` shows of a run |
| `Workspaces` | the workspace registry, two interfaces to it, bound services | |
| `Conversations`, `ConversationsProofs` | the conversation runtimes over one agent dispatcher | `Workspaces`; what `Dispatch` shows of a run |
| `Scoring` | the hard filter, the scores, the order of candidates | |
| `Providers` | what each adapter makes of each reply and line | |
| `Routing` | requests that select and stream, cooldowns, deadlines | `Scoring` and `Providers` composed |
| `Catalog` | the model cache and its refreshes | |
| `ServicesProofs` | proofs | `Schema`, `Memory`, `Knowledge`, `Indexes`, `Catalog`, `AgentSessions`, `Messages`, `Framing`, `Boot`, `Discovery`, `Routing` |
| `MC*` | constants for TLC | the module each is named after |

An action is one step between two points at which another actor can get in: for
asyncio code what the loop runs from one await that suspends to the next, for a
thread one system call or one SQLite call, for tokio code one stretch between
awaits or under one lock. Definitions whose comment begins with *A mutant* or
*Mutant* are no part of a specification; they are the plausible mistakes each
property is known to catch.

**Database.** `pc[t]` is where task `t` stands, named after the job it waits for;
`queue`, `running`, `reply` are the executor; `txn`, `pending`, `disk` the connection
and the file, as numbers of writes per unit. `Transaction`, `Acquire`,
`BeginReturns` are `__aenter__`; `LeaveBody`, `CommitReturns`, `RollbackReturns` are
`__aexit__`. `Cancel` is `task.cancel()`: a queued job is skipped, one the thread has
started goes on without a waiter. `Run*` are the SQLite calls with their ways to
fail; `RunScript` commits an open transaction first, as `sqlite3` does. The
abstract promise: a unit's writes land at once or never, "committed" is said
only of what has landed and "failed" only of what never will.

**Journal.** A record's frame is two halves, so a torn frame is one half. `head` is
computed by the thread and stored by the task, two actions apart. `Open` scans, sets the
head and truncates. `Crash` keeps some prefix that contains what was synced; or nothing
at all, of a log whose directory entry (`dirEntry`) is only "made": the first append
creates the file, and nobody syncs the directory. `sound` is a history variable: false
from the moment a failing or cancelled append may have left something in the log that
nobody counted, until the log is opened anew.

**BlobStore.** A file is `present`, and `durable` or in `limbo` (a crash decides).
`shards` are the blobs whose directories are durable: a `put` may make them, and
syncs only the innermost, so that a crash may take a synced file away with its shard.
`put` is four steps (look, write and rename, sync the directory, return),
`collect_garbage` a read of the counts and a sweep that visits and unlinks one
file at a time, in a thread. `retain` and `release` are the transactions `Database`
shows to be atomic; a client cancelled during `COMMIT` may not know that it holds
a reference ("leaked"). `atRisk` records which clients overlapped a collection or
relied on a rename or a directory not yet durable.

**Schema.** Each opener has its own build and so its own list of migrations.
It opens the file, reads the version, and applies each pending migration in a
transaction of its own, statement by statement, the version last; the version is
read *outside*. `draft` is what the open transaction has made so far; a statement
that finds its table there fails, which is how the loser of two openers that read
the same version is found out. `Stop` is the death of an opener anywhere.

**Memory, Knowledge, Indexes.** Each repository operation is one unit. An editor's
`Get` and `SaveHeld` are two, so what it saves may be older than what is stored.
`Recall` is the query's filter, order and limit. A graph query is as many actions
as the code has reads (`ReadOutgoing` per visited node of a path, `ReadNodes` and
`ReadEdges` of a subgraph) and keeps its frontier between them. `UpsertVector` is the
delete and the insert of one unit, the insert refused when the dimension is not
the table's.

**Channel.** One frame is one element of a pipe. A writer that finds the pipe
full keeps its side's lock with its frame half written. Shell: `pending` and
`call` are the oneshot map and what each caller will return; `ShellReads` is
`read_loop` with `route`; `BridgeTakes` and `Write(Bridge)` are the permission bridge,
which answers one request at a time; `Release` and `Kill` are what the lifecycle
does once `app.shutdown` has returned. Core: `CoreReads` is `_read_loop`; `Ask`,
`Resume`, `Respond`, `WriteTurn`, `Drained` are one request's task, with `wlock` the
`_write_lock` kept during `drain`; `ServeReturns`, `Closed`, `Exit` the way out.
Failures: the process dies anywhere, its event loop blocks for ever, the bridge
is aborted half way through a frame.

**Framing, Messages.** What `Channel` takes for granted. `Framing` writes a length
and a payload as bytes, lets the pipe take and the reader fill any number of them
at a time, cuts a frame short (`GiveUp`, `CloseWriter`) and ends the reader at a
boundary or inside a frame. `Messages` has every JSON object that differs in what
either parser looks at; `CoreReads` and `ShellReads` are the two classifications,
`CoreWrites` and `ShellWrites` what the two ends construct.

**Shell.** Each invocation is one `o` in `Ops`, of any kind, all at once. `lock` is
the lifecycle mutex; `Start`, `Restart`, `Recover`, `Shutdown`, `Health` are what each does
on getting it. `bootstrap` and `restart` take it a second time (`Rewire`) and attach
the bridge afterwards without it (`Attach`). Of the channel only the outcome of a
request is left: `app.shutdown`, having no deadline, ends unless the Core hangs;
a heartbeat always ends.

**Dispatch.** `_guarded` and what is around it stands three times in the Core, for
tools, agents and skills; here it stands once, for calls of the kinds `tool`, which
ask first, `agent` and `skill`. `tracked` is the `CancellationRegistry` of each kind: a
key, kind and id, finds the call whose token it holds, `Register` replaces,
`Unregister` takes out whichever is there. `Wake` is the end of `asyncio.wait`: work
that has ended counts before the token, the token or the deadline otherwise, and
what has not ended is told to. `Settle` comes once the losers have been awaited.
Cancelled work may still return, raise, or never end. `GiveUp` and `Swallow` are the
cancellation of the dispatching task itself, in the two places where it differs.

**Nesting.** The work of a skill calls agents and tools, that of an agent tools,
within its scope: the inner dispatcher runs in the task of the outer one's work.
`Makes` is such a call; `Reach` the cancellation of a task raised where it waits:
in the work's own code, or in the dispatcher of the call it awaits, which gives
up, or swallows it. `heard` is whether a work has met its cancellation, or "missed" it
because a dispatcher in it swallowed it. `IsAnswered` is the answer to a permission
question, which may never come.

**Plugins, Skills.** Each operation of `PluginLifecycle`, `PluginGrantStore` and the
skill lifecycle is synchronous and so one action; `Activate` and `Deactivate` are the
tool bridge, with the roll-back of a registration that clashes. A package is what
passed the loader: its id, its tools' names in order.

**Tools** puts these together: a step is one of the plugin host, one of the skill
lifecycle or one of a call. A call resolves in the registry the host writes, asks
the plugin's grant and then the session's policy (`Decide`), and remembers what it
resolved (`target`) while the plugin may change.

**AgentSessions.** One session, its runs and its turns. A run is opened, started,
completed, failed and cancelled by whoever has its id, in any order: the session does
not look at what has become of it, except to cancel only what is active. `StopSession`
and `Shutdown` cancel all that is.

**Workspaces, Conversations.** A workspace's state is changed by the manager, which
binds services and does not look at the state, and by the lifecycle, which looks at the
state and leaves the services alone. The registry deletes too (`Unlist`), and leaves the
manager's current workspace as it was (`dropped`). A *home* is a conversation runtime
and a conversation id. `Send` goes to the first await, `Recalled` from the recall to the
dispatch, `Answer` and `Fail` are the ends with their two `finally` clauses. A
conversation is an object apart from the id that finds it, since it may be deleted while
a turn runs. `tokens` is the agent dispatcher's table, which all share.

**Scoring, Providers, Routing.** `Scoring` is arithmetic: fractions are kept as
exact multiples of 1/`Unit`, where the code rounds in binary. `Providers` gives for
each adapter what a reply, a refusal and a line of the stream become. A request of
`Routing` selects (one health question after the other, each an await), then goes
through its ranking: `Opens`, `Refuses`, `Reads`, `Finishes` are the provider's turn,
`Takes` and `Leaves` the consumer's; `FailsOver` and `EnterCooldown` are what an
`AppError` leads to. `tried` and `limited` are history.

**Catalog.** A refresh reads the clock once and then awaits one provider after the
other; refreshes overlap. Each entry keeps the time it is stamped with, and, as
history, when it was really listed.

**Boot.** `GuardStdout` is what `main` does first; `LoadSettings` resolves the settings,
key by key from the environment, `settings.toml` and the default; `BuildContainer`
constructs what is configured. `OpenStdioStreams` opens the streams of a process, and
ends a boot whose `sys.stdout` is the guard by then; `TakeStreams` is a test that gives
its own (`tests/pipes.py`). `BuildChannel` serves. `Handshake`, `AskHealth` to
`AnswerHealth` (one provider after the other) and `ServeReturns` are the app handlers.

**Discovery.** One step reads the manifest of one directory, in their order:
`Registers`, `Reports` or `Raises`, by what `LoadOne` makes of it; the first defect
decides. `Unregister` is the host's `unload` between scans.

**MC modules.** Machines that share nothing a step of another could disturb are
checked in one run: `machine` chooses one in the initial state and the others stay put.
`MCStores` has five, the journal and four users of the database (which serializes their
units); `MCServices` eight; `MCDispatch` two, nested calls and a tool call over plugins
that come and go. `MCBoot` and `MCDiscovery` are instances also used by themselves.

## 3. The runs

| Run | Instance | Distinct states | Shows |
|---|---|---|---|
| `database` | 2 blocks of ≤ 2 statements, 1 script, 1 `aclose`, 2 cancellations | 245 326 | `UnitsHonest`, refinement `KeepsPromise`, `EveryCallEnds` |
| `stores` | five machines: the journal with 3 appends, 3 openings, with and without `fsync`; the others below | 683 374 | `LogSound`, `NumbersAdvance`, `AppendEnds`, `SchemaWhole`, `GraphAnswers`, `RecallHonest`, `StaysIndexed` |
| `journal_loss` | the same journal | | `NoSilentLoss` fails |
| `blobs` | 2 clients of one content, 2 collections, 1 crash | 486 426 | `CountsHold`, `NoOrphanLeft`, `CallsEnd` |
| `channel` | heartbeat, asking request, `app.shutdown`; pipes of one frame; crash, hang, abort | 139 636 | `AnswersReach`, `Delivered`, `EveryoneAnswered`, `StopsAfterAck` |
| `channel_stop` | same | | `StopsForGood` fails, under fairness |
| `shell` | 3 operations of any kind, 3 processes, 2 restarts | 71 900 | `StatusHonest`, `BridgedUnlessOvertaken`, `OpsEnd` |
| `dispatch` | a skill that may call an agent and a tool, the agent the tool too, 1 id; or 1 tool call, 1 plugin, 3 packages, 2 tool names, 3 modes, 1 skill | 673 177 | `AnsweredTruly`, `CancelWorks`, `EveryCallEnds`, `Propagates`, `UsableIsEnabled`, `PlanIsReadOnly`, `LeastPrivilege` |
| `sessions` | container and up to 2 runtimes of 1 workspace, 1 id, 2 conversations, 2 sends, window 1, recall | 3 417 538 | `TurnsSound`, `CancelReaches`, `CancelStaysHome` |
| `services` | eight machines: routing with 2 requests, 4 models, 3 providers, 1 retry, cooldown 1, clock to 1; the others below | 888 701 | `WorksThrough`, `OrderHeld`, `RequestsEnd`, `OwnServices`, `FramesIntact`, `ReadAlike`, `CatalogHolds`, `OutcomeStands`, `BootSound`, `ScanSound` |
| `boot_process` | the Boot machine of `services` | | `ProcessServes` fails |
| `discovery_fatal` | the Discovery machine of `services` | | `NeverFatal` fails |

Every property of a passing run has a mutant: a mistake in one mapped definition with
which TLC finds the property violated. The type invariants of `Database`, `Journal`,
`BlobStore`, `Channel`, `Conversations` with `Workspaces`, and `Routing` are a part of
`UnitsHonest`, `LogSound`, `CountsHold`, `AnswersReach`, `TurnsSound` and `OrderHeld`;
the others are parts of the inductive invariants section 5 proves.

What the properties with composite names say:

- `UnitsHonest`: a transaction holds one unit's writes, a unit lands whole or not at
  all, its caller hears which, and only an interruption leaves its transaction open.
  `EveryCallEnds` of `dispatch`: a call ends unless it asks and is never answered, or
  its work was never told of its cancellation. `StatusHonest`: one Core at most is
  alive, and the reported status is true of it. `LogSound`: acknowledged records are
  read back at their numbers once the file has its place in the directory for good; the
  head counts them. `CountsHold`: counts equal references; what was retained while
  nothing was collected stays.
- `AnswersReach`: each request gets its own handler's response, and the map that
  leads it there is exact. `Delivered`: what the Core finished writing reaches the
  shell before the end of its stdout unless the process is killed, and no handler
  runs on once it has stopped serving.
- `AnsweredTruly`: an answer tells the end of the work, and the work is over when
  it is given. `CancelWorks`: `cancel` finds a call in flight unless its key was given
  again, and a call cancelled while permission is asked never starts. `Propagates`:
  of what a run that was cancelled or has ended asked for, nothing works on untold.
- `WorksThrough`: each candidate in its turn, again only after a failure that gave
  nothing and no more than allowed, given up only at the end. `OrderHeld`: a
  provider that limited a call is not asked by a request that begins within its
  cooldown; the better model comes first.
- `TurnsSound`: a history is the turns answered to their callers, once each, behind
  those they were answered from. `CancelReaches`, `CancelStaysHome`: cancel finds its
  own turn and no other, unless ids met.
- `SchemaWhole`: the tables are those of the migrations up to the version.
  `GraphAnswers`: a path is one, and none shorter stood when the query began; the
  nodes of a subgraph hang together by edges of it. `RecallHonest`: what is recalled was
  not dismissed and nothing more salient was left out. `StaysIndexed`: a vector
  that was there is there until it is replaced or deleted.
  `FramesIntact`: frames come whole, in order, or not at all, whatever is cut.
  `ReadAlike`: both ends read what either writes as it was meant, and any other
  object alike or the shell alone refuses it. `CatalogHolds`: a list that passes
  for fresh is; only overlapping refreshes replace a newer list. `OutcomeStands`: no
  cancellation, of a run or of its session, changes an outcome, and the turns are the
  runs' own. `OwnServices`: no two workspaces share services, and the current one is
  registered and has its own unless it was deleted through the registry. `BootSound`:
  each key is decided by its layers, and the handshake lists the providers that are
  configured, each once. `ScanSound`: a scan takes nothing from a registered plugin,
  gives each id to the first place that can be trusted with it, and accounts for every
  place it read.
- The runs kept for a violation. `NoSilentLoss`: what was acknowledged in a journal
  that is open is read. `StopsForGood`: a Core told to shut down stops. `ProcessServes`:
  a Core started as a process gets to serve. `NeverFatal`: a scan that could list its
  root is reported.

Why the bounds are enough for what they are meant to show.

- *Database.* Two blocks are needed for one to harm another, two statements for
  a unit to be half done, a script to cut it, two cancellations for a unit and
  its successor to be hit both. A third block would only wait behind the
  others. The safety properties are proved for all bounds.
- *Journal.* Three appends: one that leaves something behind, one acknowledged
  behind it, one that would reuse its number. Three openings allow two crashes.
  Proved for all bounds.
- *BlobStore.* Blobs do not interact except through the transaction lock and the
  order of a sweep, so two clients of one content are the interesting pair; two
  collections let one take the file the other is about to unlink. One crash per
  history; a second would begin from a state the first already reaches. `CountsHold`
  is proved for all bounds.
- *Channel.* A pipe of one frame is full at once; the three requests are the
  three kinds that differ (with a deadline, with a question of its own, the one
  that stops the server). All three and the bridge compete for the locks.
- *Shell.* An overtaken attach needs two operations, the recovery or shutdown in
  between a third. Three spawns and two restarts let the budget run out.
  Proved for all bounds.
- *Dispatch, Nesting.* The code has three depths, and they are all here, the tool
  reached by either way. Calls of one kind meet only in their table of tokens; with
  one call of each kind ids do not collide in this run. They do in `sessions`, and
  the theorems hold for any calls, kinds, ids and scopes.
- *Tools.* Two plugins never meet, their names being disjoint; two calls meet only
  as in `Dispatch`. What matters is one call against versions of one plugin: one
  with a tool more than another, one that cannot be registered, tools with and
  without a grant, a standing grant and each kind of side effect. Proved for all
  bounds.
- *Routing.* Two requests: one meets the rate limit, the other begins before or
  after the cooldown has passed. Two models of one provider (the failover that
  stays with it), a third with a measured profile, and the offline fallback; a need
  that is hard in one dimension and one that is soft. One retry is enough to tell
  the first attempt from the last.
- *Conversations.* What goes wrong needs two sends: to one conversation, or to two
  of one id in two runtimes. Two conversation objects let one replace the other
  under its id while a turn runs; a window of one forgets a turn. The two sends are
  symmetric. Two runtimes let a workspace be closed and opened again, which builds the
  second, while sends of the first are under way.
- *Stores.* Schema: an older and two newer builds, the second migration of two
  statements. Memory: 2 items, 1 editor with a copy that ages, limits 1 and 2.
  Graph: 4 entities and 5 edges with a detour, a cycle and two kinds. Indexes: 2
  chunks, 2 dimensions, 2 handles.
- *Services.* Workspaces: 2 of them and 3 runtimes, so that both are open at once and
  either is closed and opened again. Catalog: 2 providers, 2 refreshes, a list
  fresh for 2 of 4 hours. Sessions: 2 runs, 4 turns
  (a run completed twice speaks twice). Frames: bytes of two values and
  payloads of 0 to 3 of them, one longer than the limit; each frame cut and each
  read split at every byte. Messages: every shape. Boot: each key unset, blank, a
  good word and a bad one, in the environment and in the file, the file in each
  state it can be in, providers with and without key and address. Discovery: roots
  of two manifests of every kind in every order, one of three with an id that
  comes twice, scanned again with what is registered.

Deadlock is not checked: every system here may rightly come to rest, and what
must not stay waiting is stated as a liveness property instead.

## 4. Fairness

All fairness is weak. What is assumed: an event loop or runtime resumes a task
whose awaited result is there (`asyncio`, `tokio`); a thread runs the jobs it is
given; a SQLite or file call returns (SQLite's busy timeout bounds the only
wait, `db.py:147`); a lock serves its waiters (both locks are first come
first served); a `transaction()` block and a request handler end; a deadline
expires; after the grace period the process is killed and the kernel does kill
it (`core_process.rs:219`). A caller that has obtained the channel uses it, and
an aborted bridge is followed by `app.shutdown`, as the code after each shows.

*Nesting.* One condition for all calls together: as long as some dispatcher or some
cancelled code can go on, one does. A deadline wakes its dispatcher; the loop runs
what is ready; a cancellation reaches where its task waits; code that has met its
cancellation ends. The last is a demand on agents, skills and tools, which are not in
the repository, and a call of one that disregards its cancellation would indeed not
end, since the dispatcher awaits it without a deadline. Nothing is demanded of code
that was *not* told: neither of code that runs (the deadline is what ends it) nor of
code whose cancellation a dispatcher within it swallowed. And nobody need answer a
permission question: the channel's request to the shell has no timeout
(`kanal/sunucu.py:87-100`), nor has the dispatcher's question (`araclar/dagitici.py:88-99`),
and what asks stands before the race its deadline bounds. `EveryCallEnds` excepts
these two cases and no others (`Excused`): a run that waits for an excused call still
ends, by its own deadline.

*Routing.* For each request: a health question and a call have timeouts, and a
ready task runs. Nothing is assumed of a provider or of the consumer: the deadline
ends the request of a consumer that never comes back for the next chunk.

What is *not* assumed: that the user answers a question; that anyone calls
anything, cancels, or makes progress in a Core whose event loop is blocked. A
hung Core takes no more steps, which is why `CallsEnd` and `AsksEnd` (the two parts
of `EveryoneAnswered`) and `OpsEnd` name the hung Core among their exceptions: each
exception is a real gap, listed in section 6. The run `sessions` states no liveness:
what it models waits for nothing that `dispatch` does not already show to end.

## 5. What is proved

For every value of the constants under the named assumption of each module
(`DatabaseAssumption`, `JournalAssumption`, `BlobStoreAssumption`, `ShellAssumption`,
`ChannelAssumption`, `DispatchAssumption`, `NestingAssumption`, `PluginsAssumption`,
`ToolsAssumption`, `SchemaAssumption`, `MemoryAssumption`, `IndexesAssumption`,
`CatalogAssumption`, `AgentSessionsAssumption`, `KnowledgeAssumption`,
`FramingAssumption`, `BootAssumption`, `DiscoveryAssumption`, `UnitAssumption`,
`RoutingAssumption`, `SpacesAssumption`, `TalksAssumption`: disjoint names, natural
bounds, finite sets where something is counted, the types of the constant functions).
Nothing else is assumed.

**DatabaseProofs**: `TypeCorrect`, `Isolated`, `Atomic`, `Honest`, `Abandonment`, together
`Bargain` (the run's `UnitsHonest`), and `PromiseKept`, that `Database` implements
`AtomicUnits`. None of the properties is
inductive: whether a COMMIT may land depends on which job the thread is still
serving for a unit that has given the lock back. The invariant `IInv` has five
parts. `LockInv`: the lock's holder is the unit between BEGIN and its release.
`JobInv`: a job somebody waits for agrees with that task's place; at most one
live job per task; a started job *nobody* waits for belongs to a unit on its way
out, and while it runs no other unit has got past its own BEGIN. This last is
what keeps a straggler from writing into another unit's transaction. `ConnInv`:
the executor refuses jobs only after the connection is closed. `UnitInv`: a
unit is `Fresh` until its BEGIN is served, `Intact` while its open transaction
holds exactly the statements it knows to have succeeded, then `Landed` or
unwritten. The refinement follows because every step either changes none of
landed, breached and told, or is one `Land`, `Breach` or `Tell`.

**JournalProofs**: `TypeCorrect`, `DurableAlways`, `HeadCountsAlways`, together
`LogSoundAlways`, and `NumbersAdvanceAlways`. While the journal is sound the only thread
at work belongs to the lock's holder and the log is the head's records and at most that
thread's frame (`CallInv`, `SoundInv`, `ReturnedInv`); what is kept lies inside the
durable prefix of a log whose directory entry is durable (`KeptInv`), which appending, a
crash and truncation all leave alone: lemmas `FrameKept`, `ParsesKept`, `Cut` and
`WriteWhole` about logs that agree on a prefix.

**BlobStoreProofs**: `CountsAlwaysHold`, `NoOrphanIsLeft`. `TxInv` says who is inside a
transaction and what it has not yet committed, `Balanced` that committed counts are the
references there are up to that; counting references is `Cardinality` of a set that
changes by one client (`ReferringCounts`, `BalanceKept`). `SafeInv` is what keeps the
blob of a client nothing endangered: it and its shard are durable from the end of its
`put`, no collection is at work until the reference is held, and every later one has
read the reference; `SweepInv` that a sweep spares what it found referenced; `FileInv`
and `ThreadInv` what a file and a `put`'s thread can be. For the second theorem
`SweptInv`: while a sweep runs, a file that is there was read as referenced, is new, or
is still to be visited or unlinked.

**ChannelProofs**: `AnswersAlwaysReach` and `AlwaysDelivered`, for any number of requests,
pipes of any size, and a Core that hangs or dies anywhere. A step is the shell's
(`ShellMoves`) or the Core's (`CoreMoves`); neither side touches the other's variables, so
what ties the two together is said of the frames between them. `RequestInv`: a request
that was not written or not read has no task, its frame is in the pipe at most once,
and a handler at work has not replied; so each handler runs once and its reply is
final. `ResponseInv`: a response in the pipe says what the reply says. `OnItsWay`: while
somebody waits for a response that counts as written, it is in the pipe, so the shell's
reader cannot find the pipe empty before it has delivered it. `ReaderInv`: the reader
ends only after the Core has left, and is aborted only when nobody is attached, which
is for good (`DetachedForGood`).

**ShellProofs**: `TypeCorrect`, `SingleCore`, `HonestStatus`, `Bridged`. `LockInv` says who is
under the lock, `WorkInv` what that operation has found and set by then,
`StatusInv` what the status says of the current process, `AliveInv` that a living
process is current or in the hands of the operation under the lock (from which
two living ones would need two holders), `TakenInv` that streams are taken of
spawned processes only, `WiredInv` that somebody is about to serve the streams of
the current process as long as the bridge does not.

**CallersProofs**, on one call: `TypeCorrect`, `ToldTheTruth`, `NothingLeftRunning`, together
`AnswersAreTrue`; `CanBeCancelled`, `CancellationHeeded`.
`KeyInv`: a call has a key from the moment
it is registered. `TrackInv`: a key finds only a call in flight that has that key.
`FoundInv`: a call in flight is found by its key or the key was given again.
`WorkInv`: what the work can be at each place of the dispatch, from which what the
caller is told (`TruthOK`) follows.

On calls made by calls: `NestedCallsAreBounded`, that every step of `Nesting` is one of
`Dispatch` or changes nothing of it, from which `NestedAnswersAreTrue` and
`NestedCancelWorks` carry the above over to calls at any depth; and
`CancellationPropagates`. `NestInv` adds what the tree of calls looks like: the maker of
a call in flight is at work and has not met its cancellation (`MakerOK`), waits for one
call at a time (`OnlyOne`), and made it within its scope (`InScope`). There is no
bound on the depth.

On tool calls: `CallsAreBounded` and `ToolCallsKeepTheirPromises`, which carry the same
over to calls whose tools come and go; `OnlyEnabledTools`, `OnlyEnabledUsed`
(plugins and skills), `PrivilegeIsLeast`, `PlanRunsNothingSensitive`,
`ToolsTypeCorrect`. `PluginInv` adds to `ToolsMatch` that a registered package is of
its own id, so that withdrawing one plugin's tools touches no other's; `TargetInv`
says that what a call resolved was a tool and, once it works, one that the mode
and the standing grants allow.

**ServicesProofs** is about each machine's `Init /\ [][Step]_vars`, which is what
`MCStores` and `MCServices` run of it. `SchemaAlwaysWhole`: the key is
`OnlyTheNextFits`, that a draft all of whose tables are new can only be the next
migration's, whatever version its opener read before its transaction began; `BuiltInv`,
`OpenerInv` and `DraftInv` say what stands, what an opener has seen, and what is
drafted. `RecallAlwaysHonest`: `MemoryInv` says that what was dismissed bears its
tombstone; the order of recall is total, so ranks follow it (`RanksFollowOrder`) and the
limit cuts off the tail (`TheFirstAreGiven`). `AlwaysIndexed`: every stored vector has
the table's dimension (`IndexInv`), so a refused insert takes the delete before it back.
`CatalogAlwaysHolds`: `RefresherInv` ties what a refresh read of the clock to what it
will store, `overtaken` records the refreshes another one ran beside. `OutcomesStand`:
the turns of each run agree with its state after every call.

`AnswersAlwaysTrue`, about a project graph others insert into while a query reads it.
`GraphInv` says of a path search (`Searches`) that the edges by which entities were
reached lead back to the first without a circle (`Grown`), and that those reached lie
in layers by the length of that way, with everything old next to a finished layer
reached (`InLayers`): so the way found is one, and none through edges that were there
all along is shorter. Of a subgraph it says that what was found hangs together
with the seeds and leaves out nothing so near to them (`Surrounds`). The chain of a
path and the levels of a neighbourhood are recursive functions. What such a
definition computes cannot be had from the library's induction theorems here; that
it has a solution is proved by a least counterexample instead (`HasLeast`,
`LevelsExist`), and the one solution of the chain is carried along in the invariant.

`FramesAlwaysIntact`: `WireInv` sees what was read, what is in the pipe and what waits to
be written as one sequence of bytes, in which every whole payload has its place
(`Spelled`), behind them the frame being written or what a cut left of it (`TailInv`,
`PlaceInv`). The reader is in step with it (`Aligned`), or the stream was cut and it has
everything that came before (`Beyond`). `HeaderNumber` and `HeaderRead` are the
arithmetic of four bytes, for any radix and any length below the limit.
`AlwaysReadAlike` goes through the shapes a JSON object can have.

`BootAlwaysSound`: `BootInv` keeps that what is set is what was loaded and what is
registered is what was configured; the work is in the lemmas that the resolution
of each key is that of its layers. `ScansAlwaysSound`: `DiscoveryInv` adds to what is
promised that no id of a trusted manifest that was read is still free.

On routing: `RequestsWorkThrough` and `RankingsInOrder`. `QuotaInv` relates cooldowns to
the calls that were limited, `SelectOK` says that what was scored is eligible and
judged once, `StageOK` where a request stands in its ranking after its last call. That
a better model is never behind a worse one needs that each factor of the score,
rounded down and capped as it is, keeps the order (`FitKeeps`, `FractionKeeps`,
`ContextFitKeeps`, `DivMonotone`) and that what the ranking is sorted by is total.

**ConversationsProofs**: `ServicesAreOwn`, `HistoriesSound`, `CancelFinds`,
`CancelTouchesNoOther`, from the invariant `Kept`. `PlaceInv`: a conversation has one home,
in which its sends are. `MetInv`: two sends in flight of one home or one run id have met.
`ActiveInv`: an active turn is one in flight there. `TokenInv`: a token is its run's while
that run lasts. `GivenInv`: what a send was given is the end of the history unless it
met another of its home. What each property excepts is what was met.

Only model-checked: all liveness (`EveryCallEnds` of `database` and of `dispatch`,
`AppendEnds`, `CallsEnd`, `EveryoneAnswered`, `StopsAfterAck`, `OpsEnd`, `RequestsEnd`),
which is beyond the prover: it would need `ENABLED` for the fairness. Every invariant
and every other action property of a passing run is stated by a theorem.

## 6. Where code and documentation disagree

Four runs are kept for a violation. The other statements named with a cfg are
definitions of their modules that TLC refutes as soon as they are listed in it.

1. *A transaction left open* (`NoTransactionLeftOpen`, `Database.cfg`). A block
   cancelled while the thread runs its BEGIN gives the lock back, the BEGIN
   succeeds, and nobody ends the transaction; every later block fails in its own
   BEGIN. `db.py:10` promises a rollback on any exception.
2. *Acknowledged records lost* (run `journal_loss`). A write that fails half way
   leaves a torn frame; the next record goes behind it, is acknowledged, is
   never read again and is cut off on the next opening. `journal.py:7` promises
   no silent loss.
3. *A referenced blob reclaimed* (`HeldIsStored`, `BlobStore.cfg`). The counts are
   read, then the files unlinked, with nothing held between; a retain in between
   loses.
4. *A hung Core is never killed* (run `channel_stop`). `app.shutdown` is awaited
   without a deadline before the grace period starts, under the lifecycle lock.
5. *The bridge on the wrong Core* (`BridgeFollowsCore`, `Shell.cfg`). The attach
   after the lock is given back may come after that of a later restart.
6. *A request after the reader's end* waits for ever, and *a deadline that does
   not cover the write*: the two exceptions in `Channel!CallsEnd`.
7. *The acknowledgement of* `app.shutdown` *may be cancelled* before it is written
   (`uygulama.py:78`). Nobody depends on it today.
8. *A cancellation swallowed* (`WholeRunHears`, `NeverSwallowed`, `Dispatch.cfg`).
   "never swallow", says `araclar/dagitici.py:128`; but a cancellation that arrives
   while a losing task is awaited is taken by the `suppress` meant for that task
   (161, and `ajanlar/dagitici.py:153`): the run goes on, and may call more tools
   after its caller was answered. `QuietAfterwards` and `Excused` name the exception.
9. *Work not awaited.* "The losing task is always cancelled and awaited"
   (`araclar/dagitici.py:143`) does not hold when the dispatching task is cancelled
   while the race is on: the work is cancelled, and goes on alone if it does not
   heed that. `NoOrphan` names this exception.
10. *Two voices* (`OneVoice`, `Services.cfg`). A candidate that fails after chunks of
   it were yielded is followed by the next one: the consumer gets the beginning of
   one answer and then another. `resilience.py:6-9` excludes it.
11. *Runs of one id* (`ConversationIsolation`, `Conversations.cfg`). A run's id is the
   conversation's id and a number each runtime counts from 0, while all runtimes
   share one dispatcher: the cancel of a conversation may stop the run of another
   workspace's. `CancelStaysHome` names the exception.
12. *A process that never serves* (run `boot_process`). `main` replaces `sys.stdout` by the
   guard before `open_stdio_streams` hands it to `connect_write_pipe`, which asks it for a
   descriptor the guard has not. `kanal/aktarim.py:104-105` says that the writer never
   goes through `sys.stdout`; `shell-core/tests/common/mod.rs:5-9` works around it.
13. *One manifest is fatal* (run `discovery_fatal`). A manifest that is not UTF-8, or
   whose `contributes` is no table, raises what `load_directory` does not catch: the
   plugins before it are registered, those behind it are not, and there is no report.
   `eklentiler/yukleyici.py:6-8` says "collected, never fatal".
14. *A question nobody answers* waits for ever (`Excused`). `docs/24_PERMISSION_SYSTEM.md:114`
   says "unanswered → deny".
15. *Directories never synced.* The first append makes the journal's file, a `put` may
   make shard directories; neither is synced, and a crash may take them away with
   what was acknowledged or retained. `journal.py:4` and `blobs.py:7-8` promise
   durability; `LogSound` and `CountsHold` name the exceptions.

Read in the code while modelling; the models do what the code does:

- *Routing.* A ranking made before a rate limit is still worked through to the end,
  though `docs/45_ROUTING_ORCHESTRATION.md:75-76` says that the provider is skipped
  until its cooldown expires and that the rest is scored again; the offline fallback
  is a decision of `select` only (line 71 reads otherwise). An error of the HTTP
  client or a line that is not JSON is no `AppError` and ends the request instead of
  failing over; that includes Gemini's stream when it carries the other protocol's
  `[DONE]`, and an empty `data:`. Ollama's 429 is an ordinary HTTP error. The quality
  floor of `weights.py:72-78` is never used and `record_usage` never called. The
  deadline runs while the consumer holds a chunk, and then cancels the consumer.
- *Catalog.* One provider that raises keeps those registered after it from being
  refreshed (`manager.py:64`; `docs/49_MODEL_CACHE.md:48` says "no hard failure"). A
  slower, older refresh overwrites a newer one's list.
- *Agent sessions.* `complete_run` and `fail_run` overwrite CANCELLED, `start_run`
  makes a cancelled run RUNNING again (`oturum.py:83`; `durum.py:22-23` knows one
  terminal outcome). Runs may be opened in a session that was stopped or shut down.
- *Conversations and workspaces.* A cancel while memory is recalled is lost: the run
  it names is not dispatched yet. A conversation closed or archived during a turn
  still gets the turn. `open` revives a workspace that was shut down
  (`yonetici.py:59`; `yasam.py:6-7` calls SHUTDOWN terminal), and the lifecycle's
  `activate` makes one ACTIVE that has no services. `WorkspaceRegistry.delete`
  (`kayit.py:44-48`) leaves the manager's current workspace naming one that is gone, or
  one created later under its id and never opened.
- *Stores.* A copy got before a purge and saved after it brings the item back; one
  got before a pin undoes the pin; a forgotten item saved again stays hidden. `neighbors`
  with an empty list of kinds filters nothing, `recall` with an empty list of
  layers shows nothing. A vector index opened with another dimension is accepted, and
  refuses every vector afterwards. A failed `open` leaves the database open. Of two
  concurrent openers the loser fails with `migration_failed`. Edges may dangle.
- *The wire.* The shell drops an error whose code is not an integer or whose
  message is not a string (`message.rs:197`), so its request waits; the Core takes
  any. A `meta` that is not an object raises outside the handler's `try`
  (`kanal/dagitim.py:46`), and a response of more than 64 MiB raises while it is
  written: neither request is answered. A torn frame ends the reader without ending
  the server. Python writes NaN, which the shell rejects. The handshake accepts
  a protocol version that is missing.
- *Boot.* `load_settings` is called without `on_warning`, so that nobody hears of a bad file
  or key (`yapilandirma/yukleyici.py:78-79`: "a surfaced fallback").
- *Permissions.* In the shell a standing grant is looked at before the mode
  (`permissions.rs:190`), in the Core after (`araclar/izin.py:111-113`).
- *Plugins.* `eklentiler/izin.py:92` says of `revoke` "DISABLE/UNINSTALL"; nothing in
  the lifecycle calls it, so a package loaded later under the same id has the grants
  of the one before. `Revoke` is an action of its own only.

## 7. Limits

- *Database.* A query outside a transaction changes nothing and is left out
  (`BlobStore` and `Knowledge` model what such a one sees). `aclose` itself is not
  cancelled. Statements are counted, not told apart.
- *Journal.* Waiters get the lock in any order. `fsync` is chosen once. A checksum
  tells torn frames apart without fail.
- *BlobStore.* The durable configuration only. Temporary files a crash leaves are
  not modelled; the contents of files never are (a name is its content's hash).
- *Schema.* A migration is the tables it makes. SQLite's write lock is had or, after
  its busy timeout, the opening fails. Files of migrations are numbered without gaps.
- *Memory, Knowledge, Indexes.* Salience is a small number. Which chunks match a
  text is word by word, which vectors are near is any choice of the right size: the
  ranking is SQLite's. The bytes of a vector are its dimension.
- *Channel.* One process life, from the wired channel to its end. The
  lock's waiters are served in any order. A handler asks at most one question.
- *Framing, Messages.* One direction of the pipe, a value known by its JSON type;
  text encodings and duplicate keys are not modelled.
- *Boot.* What is said is a word, known by whether it is blank and what it names;
  directories and addresses are words too. Deadlines of a health question are in
  `Routing`.
- *Discovery.* A scan runs in one piece; one step per manifest is for the reader.
  A root that cannot be listed raises before the first.
- *Dispatch, Nesting, Tools.* Each call is dispatched once. The code of an agent,
  skill or tool makes calls and ends as it likes, one call at a time; once it has met
  its cancellation it makes no more. A client cancels its own task at most once.
  Progress events are only forwarded. The tool resolved before a question is the one
  that runs after it, also if its plugin was disabled meanwhile: the properties speak
  of the moment of the question. A grant's target is not modelled, since the
  dispatcher never asks for one (`araclar/dagitici.py:97`).
- *Shell.* Errors of the operating system from `kill` and `wait` are not modelled. No
  code in the repository calls `recover_if_crashed` besides the tests; it is in
  the model as the public operation it is. Each invocation runs once.
- *Routing.* Sizes of context are multiples of the default window; the clock counts
  cooldowns. A chunk is a chunk. Scores are exact where the code's are binary
  fractions.
- *Conversations.* What the model's turn says is its id; each send runs once. Of a
  run only its registration, its ends and its deregistration are left.
- *AgentSessions.* One session. The rules of `ajanlar/yasam.py` are those of the session;
  a run has none.

## 8. Not modelled

Left out because there is nothing in it that runs over time, or nothing that
reaches it:

- *Retrieval* and *embedding* are protocols and value types; planner, fusion, ranking
  and assembly have no implementation in the repository. The two indexes that
  implement its store are in `Indexes`.
- *Metrics* are counters constructed by the composition root; no code counts.
- *Notifications* and `$/cancel` have a wire form (`Messages`) and a reader, but no
  code sends either and no handler asks for a token.
- *Usage counters and headroom* of routing: nothing records into them. The *latency
  probe* measures one call and keeps nothing. *Embedding calls* and the wording of
  requests to the providers are input and output.
- *The shell's permission table*: three modes and four capabilities without state,
  which its unit tests enumerate. *Paths and the mapping of SQLite errors* are pure.
- *Logging, errors, clock, identifiers* are formatting and values;
  that a log line may block the Core is the hang in `Channel`. Of the *configuration*
  the tunables of storage and of the unused intelligence layer are constants. Of the
  *composition root* `build_storage` is called by no program, and the HTTP client it
  makes is never closed; who shares what with whom is in the models. *Shell
  events and window state* forward, and hold two flags; the *binary* calls
  `DesktopApp` one to one.

Nothing the repository implements with state and more than one actor is left
without a model. What would deepen the present ones: `Conversations` with a second
opened workspace and `Routing` with a retry more in TLC's instances (the theorems
hold for both); the mapping of SQLite errors; retrieval, once it is implemented.
