# A TLA+ model of mcp-wrapper

mcp-wrapper is a gateway between LLM agents and MCP servers. An agent sees only the tools
its rules allow, a call passes data-loss scanning, rules, rate limits and, where configured, a
human approval before it reaches a tool, and every call leaves an audit row. This directory
models the parts of it where several actors meet, checks them with TLC and proves the main
results with TLAPS. Paths below are relative to the repository; the program is
`src/mcp_wrapper/*.py`.

The whole program runs on one asyncio event loop. Code between two suspension points
(`await` on something that is not ready) is atomic, so an action of these modules is the code
of one handler from one suspension point to the next. What interleaves: the coroutines of
concurrent calls, listings and admin requests, timers, the answers of external services, the
database thread of aiosqlite, cancellation of a request by a client that goes away, hot reloads
and restarts of the process.

## Inventory

| Component | State | Operations | Hard behaviour | What makes it correct |
|---|---|---|---|---|
| Approval manager (`approvals.py`) | `_pending`: id to `PendingApproval` (event, answer) | `request`, `_notify`, `resolve` | answers, timer and cancellation race; the wait starts after notifications; nothing survives a restart | nobody is released without an approval that stands; entries are removed on every way out; every request ends |
| Chat notifiers (`notifications.py`) | `_sent`: id to message | `send`, `on_resolved`, `handle_interact`, `handle_update` | presses come twice, late, from two platforms; updates run as loose tasks | a message shows only outcomes that were accepted |
| Call pipeline (`proxy.py`) | none of its own; reads configuration, writes audit rows | `call_tool`, `_deny` | three approvals and a tool call to wait for; cancellation at each; reloads in between | nothing runs that was not permitted; every run, and every answer, is on record, once |
| Listing and resolution (`server.py`, `proxy.py`) | the list under construction | `collect_permitted_tools`, `_resolve_target`, `_server_for_tool` | one server after the other is awaited while reloads change rules and names | what is listed was permitted, its name is unique and reaches it |
| Rules (`rules.py`) | none | `get_effective_rules`, `check_tool`, `validate_params` | an override replaces the defaults whole | constraints first, deny by default |
| Hot reload (`server.py`, `config.py`) | `WrapperConfig`, shared by every component | `_hot_reload`, `load_config` | components share the very dictionaries; each caches something else | no component keeps using what was removed |
| Registries (`native_tools.py`, `plugin_tools.py`, `gateway.py`) | entries and loaded code | `reload`, `has_tool`, `execute` | a call resolves before a reload and runs after | nothing removed or broken is run |
| Workflows (`workflow.py`) | definitions | `reload`, `execute` | steps call the pipeline again, up to ten deep; a failing step stops halfway | definitions follow the configuration; a failure is final, every call of the tree is on record |
| OAuth tokens (`credentials.py`) | tokens in memory and in a file | `get_token`, refresh, fetch, `exchange_code`, `disconnect` | several calls refresh at once; providers rotate tokens | a connected server stays connected |
| Secrets (`credentials.py`: resolver, Vault) | none | `resolve` | external look-ups | - |
| Audit log (`logger.py`) | one SQLite connection | `log`, queries | one connection for all calls | see call pipeline |
| Anomaly detector (`anomaly.py`) | known tools and clients per agent | `check`, `check_fingerprint` | memory is filled from the log by a query that is awaited; forgotten at a restart | a second client of a token does not go unnoticed; a first use is reported once |
| Rate limiter (`limiter.py`) | call times per agent, tool and limit | `check` | several windows, shared by calls of clients and of workflows; budget spent on calls that are then denied | never more than the limit in any window; a refused call costs nothing |
| Identity and sessions (`identity.py`, `server.py`) | tokens of agents, sessions | `get_session`, `reload` | one key used from several clients; removed agents | a session belongs to a configured agent |
| DLP scanner (`dlp.py`) | compiled rules | `scan_outbound`, `scan_inbound` | none: pure | - |
| MCP client (`mcp_client.py`) | none between requests | `list_tools`, `call_tool` over HTTP and SSE | a reader task, a queue and two waits race the server's answer, silence or chatter and the end of the stream | every request ends, with its own answer, and leaves no task behind |
| MCP transport (`mcp_server.py`, `main.py`) | none | handlers | cancellation reaches the pipeline from here | - |
| Response shaping (`response.py`) | none | filters, truncation | none: pure | - |
| Configuration store (`config_writer.py`, `config.py`) | TOML files | `write_*`, `load_config` | truncate-and-write; read-modify-write; hand edits; sections replaced whole | a save changes what the page shows and nothing else |
| Admin pages (`admin.py`) | `_oauth_state`, pending restart flag | forms that save rules, servers, settings; OAuth pages | pages saved from stale copies | as above; one exchange per OAuth state |
| Admin sessions (`admin_auth.py`) | sessions, login attempts | login, expiry | expiry, lockout | - |

How they interact: the transport and the REST API call the pipeline; the pipeline asks rules and
limiter (plain calls), the approval manager (awaits a human), credential broker (awaits a token
endpoint) and MCP client or registries (await a tool), then writes to the audit log (awaits the
database thread) and asks the anomaly detector. Workflows and the meta tool `call_tool` call the
pipeline again. Admin pages write files and trigger the hot reload, which replaces the content of
the configuration dictionaries under everybody's feet. Chat services call back through the REST
API into `resolve`.

`PROJECT.json` lists every component with its status, and under `hazards` each line where one of
these behaviours bites, with the properties about it.

## Modules

| Module | Models | State variables and code | Actions and code |
|---|---|---|---|
| `HumanGate` | what an approval gate promises | `stage`, `standing`: abstract | `Open`, `Answer`, `Release`, `Refuse` |
| `Approvals` | `ApprovalManager`, Slack and Telegram notifiers, composite | `pc` the coroutine of `request`; `pending` = `_pending`; `answer` = `.approved` and `.event`; `sent` = `_sent`; `screen` the chat message; `answering`, `updates` tasks under way; `accepted` history | `Ask` to `WebhookDone`: `request`/`_notify`/`send`; `Wake`, `Expire`, `TimeOut`, `CancelWait`, `CancelNotify`: the ways out; `PostDecision`, `SlackPress`, `TelegramPress`, `TelegramResolve`: the four ways into `resolve`; `Update`: `on_resolved`; `Restart` |
| `CallPipeline` | `McpProxy.call_tool`, `_deny`, `AuditLogger.log` | `config` the part of the configuration a call looks at; `pc`; `agentCfg` the `log_only` and the servers it read early; `out`, `inb` the DLP verdicts; `basis`, `target`; `row`, `durable` the audit row through INSERT and COMMIT; `told` | `Start` to `AnomalyChecked`: the handler; `NestedDenied`: the denial of a nested call on its way out; `RowUnmade`, `WriteRaised`: the row fails; `Cancel*`: `CancelledError` at each await; `Insert`, `Commit`, `WriteFails`: the database thread; `HotReload` |
| `ToolCatalog` | `collect_permitted_tools`, `_resolve_target`, `_server_for_tool`, `rules.py` | `config`, `stage`, `at` (the loop), `agentCfg`, `tools`; `since`, `failed` history | `StartListing`, `Fetched`, `FetchFailed`, `TokenFailed`, `HotReload`; resolution is operators |
| `ToolRegistries` | the four registries and `_hot_reload` | `configs` = the shared dictionaries; `loaded` = `_plugins`, `_py_modules`, `_definitions`; calls between resolve and answer | `HotReload`, `Resolve`, `Execute`, `CannotExecute`, `Answer` |
| `OAuthTokens` | token store, manager, broker, OAuth pages | `tokens`, `file`; `pendingStates` = `_oauth_state`; requests under way; the provider (external): `live`, `stale`, `issued` | `SendRefresh`, `SendFetch`, `Save`, `SaveUnwritten`, `TakeRejection`, `Lost`, `Connect`, `Callback`, `Disconnect`, `Restart`; `Grant`, `Refuse`, `Expire` of the provider |
| `ConfigStore` | `config_writer.py`, `load_config`, `_hot_reload`, the admin handlers that save entries and sections | `disk` the files, `order` the sections of `wrapper.toml` as they stand there, `live` = `WrapperConfig`; `told`, `unkept`, `clean` history: what the pages said, the entries for which their own save did something else, whether nothing has happened to the files since they were loaded | `CreateEntry`, `EditEntry`, `DeleteEntry` (agents, servers), `GatewayCredentials`: files rebuilt from `live`; `PluginCredentials`, `CreateWorkflow`, `SaveDlp`, `Setup`, `SaveSettings`: files amended; `SaveWorkflow`; `SettingsCut`, `SaveFails`: writes that stop; `Restart`; `HandEdit`, `HandBreak`, `HandRepair`: people |
| `RulePages` | the admin pages that save rules, the two rules files, `get_effective_rules`, `check_tool` | `file` the two rules files, `live` = `server_rules` and `agent_overrides` (an owner is an agent or `Default`); `loads`: do the other files parse; `told`, `dropped` history: what pages confirmed, the overrides an agent's panel removed unseen | `AgentPanel`, `DefaultsPanel` (`ApplyAgentPanel`, `ApplyDefaultsPanel` with a given form), `EntityPage`, `ToolEditor`: the four handlers; `HandEdit`, `BreakOther`, `RepairOther`, `Restart` |
| `RateLimiter` | `limiter.py` on the moving windows of the limits library | `hits` = `MemoryStorage`: the ages of the calls counted, per tool name and limit | `Allow`, `Disallow`: the two outcomes of `check`; `LimiterTick`: time |
| `WorkflowRun` | `call_tool` calling itself through `WorkflowRegistry.execute` and the meta tool, with `RateLimiter` | `stack` the nested calls of a client's call, each with the steps of its definition as read when it started; `pc`, `name`: what the innermost one does; `config` agent, rules, tools and definitions; `passed`, `owed`, `broken`, `unlogged` history: calls let through, rows still owed, something failed, a call ended without a row | `Start` (`Begin`: depth and agent), `RefuseByScan`, `RefuseByRules`, `RefuseByRate`, `Enter`: the checks; `Granted`, `Denied`: the human; `Answer`, `Fail`, `Unwind`: the target, and the exception on its way up; `SkipStep`, `CallStep`, `PlainStep`, `FinishSteps`: the loop of `execute`; `Cancel`, `Reload`, `Tick` |
| `McpClientSse` | `_sse_request` and its task `_stream` | `reader`, `hops`: the task; `queue` the `asyncio.Queue`; `stage`, `elapsed`, `wait`: the request, its deadline and its present wait; `offered`, `answered` history | `ProbeAnswered`, `ProbeEnds`, `Connected`, `Receive`, `StreamOver`: the task; `TakeEndpoint`, `SkipBeforeEndpoint`, `Posted`, `PostStreams`, `PostFails`, `TakeAnswer`, `SkipBeforeAnswer`, `StreamClosed`, `WaitExpires`, `Cancel`, `Closed`: the request; `OfferEndpoint` of the server; `Tick` |
| `AnomalyWatch` | `check_fingerprint`, `_check_new_tool`, `get_session`, the start of an MCP session | `known` = `_known_fingerprints`, `seen` = `_seen_tools` of one agent; `starts` the `session_start` rows of the log, newest last, `rows` its rows of calls per tool; `req` the requests under way; `quiet`, `raced`, `said` history | `Arrive`, `CheckAnonymous`, `CheckKnown`, `BeginSeeding`, `ReadStarts`, `Seed`, `LogStart`, `Act`, `Leave`: coming in; `Call`, `LogCall`, `CheckNewTool`: calling; `Reload`, `WatchRestart` |
| `MC*` | values of the constants that need definitions | | |
| `*Proofs` | theorems of the module of that name; `TargetProofs` of what a call is sent to (`ToolRegistries`, `McpClientSse`), `TokenProofs` of the tokens kept and the tokens presented (`OAuthTokens`, `AnomalyWatch`), `WorkflowRunProofs` of `RateLimiter` as well | | |

Composition: `Approvals` implements `HumanGate` (an `INSTANCE` with a refinement mapping).
`CallPipeline` uses the gate as it is promised: at each of its three questions somebody may
grant, somebody may refuse (denial or timeout), and the client may leave. `ToolCatalog` and
`ToolRegistries` share the order of precedence and the hot reload, and split the rest: who may
see and reach which name, and what then runs under it. `ConfigStore` is where the configurations
come from that these modules see appear in one step; `ReloadIsWhole` is why one step is right.
`RulePages` does for the content of the rules files what `ConfigStore` does for the other ones; it
takes from there that a save is one step and that a reload takes all files or none.
`WorkflowRun` composes the rate limiter (EXTENDS), the workflow engine and the pipeline: of each
nested call it keeps what the calls of a tree have to do with each other (depth, limits, approval,
failure, row) and leaves the inside of one call to `CallPipeline`.

A few operators are marked *(mutant)*. They are no part of any
specification: each is a plausible mistake in the definition that follows it, kept to show that
the property named for it in `PROJECT.json` would notice.

## Runs

Pass runs (between seven thousand and 2.3 million distinct states, about two minutes at most each). The
type invariant of every module but `HumanGate` is proved; a run names it only where it relates variables.

| Run | Instance | Shows |
|---|---|---|
| `approvals` | one approval id, Slack and Telegram, the webhook, at most two updates queued per message | `PendingExact`: the entries of `_pending` are those of waiting requests and of those cancelled while notifying (an entry that leaks, see hazards). `ReleasedByStandingApproval`, `NoAnswerAfterTheWait`: released only by an accepted approval, nothing accepted once the wait is over. `ScreenShowsAcceptedAnswer`: chat messages tell the truth. `EveryRequestEnds`. `ImplementsGate`: all of `HumanGate`, fairness included |
| `call_pipeline` | two calls, one of which may be nested in the other; one tool, three configurations; the rows of one call may fail | `ExecutedOnlyIfPermitted`, `DeniedMeansNotExecuted`, `InboundHeld`: nothing runs and nothing comes back unpermitted, although the agent and the rest of the configuration are read at different moments. `OneRowPerCall`, `ToldIsOnRecord`, `ExecutedGetsRecorded`: the audit trail under cancellation at every await, and under rows that cannot be made or written |
| `tool_catalog` | two servers, six configurations, a plugin, a native tool, a workflow, a meta tool | `ListedWasPermitted`: the list mixes reloads and invents nothing. `PermittedIsListed`: nor does it miss anything. `ListedReachesItsTool`: where names are unambiguous they reach the tool they were listed for |
| `tool_registries` | one name, two calls, all 72 configurations over a source that loads, one that does not and one that needs no loading | `RemovedNeverRuns`, `WorkflowsFollow`, `BrokenNeverRuns`: between resolve and execution nothing removed, outdated or broken is started |
| `config_store` | six files with one or two entries each, two directories to start with, two saves, one accident | `KeptAsTold`: what a page said, and its own save did, stays in the file, and in force, whatever is saved, damaged or restarted elsewhere, although half of the files are rebuilt from memory. What a save does not do of what its page says (`unkept`) is only a blank field of the settings and the credentials of a plugin that is no longer in its file. `InStep`: without accidents a restart changes nothing of what is applied at once. `ReloadIsWhole`: a reload takes over all files or nothing |
| `rule_pages` | two agents, one with the MCP server, native tools, the gateway, a tool with names and one without, a pattern; any form; two saves, one accident | `SavedStays`: no admin's save undoes another's, although each rewrites a whole file from memory; only overrides that an agent's panel does not show go with it (`dropped`). `ConstraintsStay`: a form opened before a constraint existed takes off no constraint (panels) and no limits (matrix), where no pattern opens the tool. `ResaveIsHarmless`: the handler of a panel, given the panel as shown, changes no permission and no constraint of anybody but through those overrides, although it turns defaults into overrides |
| `oauth_tokens` | two calls, two callback visits, two states, three answers of the provider, both grant types, rotating or not | `ConnectionStaysUsable`, `OneExchangePerState`, `RequestsEnd` |
| `workflow_run` | two clients' calls, of which one runs the workflow and the other the tools beside it, directly or through the meta tool; a workflow that calls a tool in both ways, or itself; depth three; two limits of one and two calls per window, shared by two tools of one native name; reloads between three configurations, of which one has no agent | `RateHolds`: no limit is exceeded by clients, workflows and `call_tool` together. `RefusedCostNothing`: what one limit refuses does not use up another. `FailureIsFinal`: after a refusal, failure or cancellation nothing more is run in that tree. `EveryCallOneRow`: each call past the depth check leaves one row, except one at most: the innermost, when its client left or its agent was removed before its checks (`unlogged`). `TreeEnds` |
| `mcp_client_sse` | one request; two redirects at most, three unread events, waits of two to four ticks; the server may do anything | `DeadlineHolds`: however many other events come, the wait is over less than half a second after the deadline. `AnswerIsOwn`. `RequestEnds`: the request ends, and its reader with it, unless events before the endpoint event, or the body of the POST's answer, never stop |
| `anomaly_watch` | two requests at a time, two clients, one tool, three starts of sessions of which a seeding reads the newest two | `QuietOnlyAlone`: a client that passes unnoticed is the only one in the rows a seeding reads and the only one that passed in this process, unless two seedings collided. `FirstTimeSaidOnce` |

Violation runs; each is a disagreement between the code and a sentence about it.

| Run | Sentence | What the code does |
|---|---|---|
| `config_store_account` | `write_wrapper_toml`: always preserve the `[admin]` section | Telegram saved without a webhook secret makes the writer raise in `[notifications]`; an `[admin]` section behind it is lost |
| `mcp_client_sse_probe` | `mcp_client.py`: persistent GET stream; the first event is the endpoint | the GET that looks for redirects waits for the end of the body, so a stream that persists sends its endpoint event where nobody looks; the request gives up without having posted |

### Bounds and why they are enough

- Requests, calls, callers: entries of `_pending` do not interact (`ManagerImplementsGate` is
  proved for any set), so one approval id suffices for the checked run; two calls suffice for the
  pipeline because calls meet only in the shared COMMIT and the configuration. Two refreshes and
  two visits are the smallest set where one answer overtakes another; three answers of the
  provider let each of two requests be answered and one more follow.
- `MaxUpdates` queues two `on_resolved` tasks per message: enough for two accepted answers in
  one wait, which is where they can come out of order.
- Configurations: each instance takes those that make the code branch: approval, `log_only`, none;
  distinct, overlapping and equal prefixes; override, defaults, neither; a removed agent and a
  removed server. `tool_registries` takes all there are for one name.
- A name is a sequence of words and a glob the set of names it matches, so overlapping prefixes
  and names that look like another server's occur.
- `MaxSaves`, `MaxAccidents`: two saves and one accident let every kind of save follow or precede
  every other, a damage, a failing reload and a restart. An accident is an edit by hand, a syntax
  error or a write that fails; restarts and repairs are not counted. What people type is one secret
  or nothing (`Offered`), what they write by hand another entry or its removal (`ByHand`).
- `rule_pages`: the form of a panel or of the matrix is any form, so a stale page needs no state of
  its own. One entity, one pattern and one constraint that has every part are enough, because pages
  treat tools one by one; two agents are needed for one to lose what another saved, and the second
  has an override for a server that its panel does not show.
- `workflow_run`: depth three stands for ten, the depth at which a workflow that calls itself is
  refused under two frames that then unwind; two trees at once are what shares a limit; windows of
  one and two ticks, and amounts of one and two, let a call be refused by either limit alone. Time
  needs no bound: hits forget what has left their window, and the history of calls what is older than
  `Horizon`, which has only to reach as far as the longest window (`RunAssumption`) and is two in the
  run.
- Reloads: `CallPipeline` has none once every call has read what it reads of the configuration,
  `WorkflowRun` none once every call has failed or ended; later ones would meet nobody. `Faulty` is
  the one call of two whose rows may fail, so that its failed COMMIT meets the other one's COMMIT.
- `mcp_client_sse`: `Timeout` 4, `EndpointWait` 3 and `MinWait` 2 keep the order of the code's values
  (30 s unless configured, 10 s, 0.5 s) at a scale where the deadline falls inside the shortest wait;
  `MaxQueue` bounds unread events, not their number.
- `anomaly_watch`: two requests are enough for two seedings or two first calls to overlap; of rows
  of calls the detector distinguishes none, one and more. `SeedLimit` 2 stands for 500, and
  `MaxStarts` 3 is one row more than a seeding reads: enough for a client to be forgotten. Requests
  and clients are interchangeable (`Symmetry`); the run checks safety only.
- Deadlock is checked except for `CallPipeline`, `ToolRegistries`, `WorkflowRun` and `McpClientSse`, whose
  calls are one-shot, and `AnomalyWatch`, which like the former has always a reload to stutter on.

### Fairness

A timeout of the HTTP client bounds each connect, write and read, not the whole request. What follows
takes a service that is silent to be given up, and says where one that keeps talking is taken to stop.

- `Approvals`: the event loop runs what is ready; `asyncio.wait_for` ends each wait; the HTTP
  clients of the notifiers have timeouts, and their exceptions are caught. A chat service that would
  drip its answer for ever is left out. Nobody is assumed to answer or to leave.
- `CallPipeline`: approvals end (the previous module's `EveryRequestEnds`), tools answer or fail, the
  database thread serves its queue. Nobody has to call, cancel or reload.
- `WorkflowRun`: each frame does its next step: approvals time out; servers, gateways, plugins and
  native tools are taken to answer or fail. Time, reloads and clients owe nothing, and
  that a condition comes out true again and again does not keep a tree from ending.
- `McpClientSse`: the loop takes events that are there, time passes, a cancelled task unwinds, and the
  POST gets an answer or a timeout; nothing makes the body of that answer end. The server owes nothing,
  not even silence: therefore `RequestEnds` excepts events without end before the endpoint event, each
  of which renews the wait (`mcp_client.py:128`), and a body of the POST without end (`:148`).
- `ToolCatalog`, `ToolRegistries`, `ConfigStore`, `RulePages`, `AnomalyWatch`: none; what is said of them
  is safety.
- `OAuthTokens`: a token request that the provider leaves silent is given up after ten seconds, and an
  answer that has begun is taken to end; whether the provider grants, refuses or answers is open.

Weak fairness suffices: each fair formula is the disjunction of all the ways a step can end
(an answer, a failure, a timeout), and that disjunction, once enabled, stays so until it is taken or
the task is cancelled, whatever is reloaded or pressed meanwhile.

## Proofs

Every theorem is about all values of the constants that satisfy the named assumption in the
module that declares them (`ApprovalsAssumption`, `CatalogAssumption`, `RegistryAssumption`,
`StoreAssumption`, `PagesAssumption`, `PipelineAssumption`, `TokensAssumption`, `WatchAssumption`,
`RunAssumption`, `LimiterAssumption`, `SseAssumption`). Every invariant a run checks is proved.

`ApprovalsProofs`. `IInv` adds to the type invariant that every answer, and every queued
update, was accepted; `PendingExact` is what makes it inductive, because an answer changes only
while the request is in `_pending`, and so only before the coroutine leaves it. From it:
`TypeCorrect`, `PendingIsExact`, `ReleaseNeedsApproval`, `ScreensAreHonest`. `LateAnswersRefused`
is an action property: a lemma says that nobody changes the answer of a request that is not in
`_pending`, another that a request not yet asked is unanswered (`Unasked`).
`ManagerImplementsGate` is the safety half of the refinement: `GateStep` maps each step to
opening, answering, releasing, refusing, or to nothing; the restart refuses all open questions
at once.

`ToolCatalogProofs`. `IInv` says that the live configuration is among those seen since the
listing began, and that a `log_only` snapshot came from one of them; then `NothingInvented` and
`NoSharedNames` follow step by step. `ListedIsReached` needs a second invariant, `Aligned`: with
no reload since, every entry carries its server's prefix; then the lemmas about sequences show
that two prefixes of one name are comparable, so that no other server can match.
`PermittedAreShown` needs a third, `Gathered`: the loop is at a server, and what the servers before it
permit has a name in the list already (`ShownBefore`); a server that answers adds its own
(`FetchedGathers`) and one that is skipped has nothing to add (`AdvanceGathers`).

`TargetProofs`, first part: the registries. `IInv` adds that nothing that failed to load is in a registry and that a
call past `idle` has a target. `WorkflowsAreCurrent`, `BrokenStaysOut` and `RemovedIsGone` follow.

Second part: the SSE request. `SseInv` says that the time gone and the present wait together stay
below the deadline and one minimal wait: a wait is set long before it ends, so the bound on the time
gone alone is not inductive (`DeadlinesHold`). It also says that an answer in the queue was sent after
the post, which is where `AnswersAreOwn` comes from. Both hold whatever the server sends, in any order.

`WorkflowRunProofs`. `CallsInv` fits what a call is doing to its stack and counts the rows the two of
them owe, and the one that nobody will write (`CallOK`); each action is one lemma about one call, `OneCallKeeps` says that the others do
not notice. From it: `TypeCorrect`, `OneRowEach`, `DepthIsBounded`, and with one more lemma about
calls that have failed (`BrokenOnlyUnwinds`) `FailureEnds`. `RatesInv` relates what the limiter counts
to the history of calls. That the two are equally many is not inductive: a tick drops from both what
has left its window, and how much that is depends on the ages. So the invariant says it for every
age: as many calls are counted as were let through that are no older (`Counts`), and both are ordered
by age. Then those that leave are the first so many (`GoneAreFirst`), and as many calls are of an age
after a tick as were one younger before it (`YoungAged`, `ThroughAged`: bijections between sets of
indices). From it: `LimitsHold` and `RefusalIsFree`, for any amounts, windows, keys and depth, with
reloads that change the limits while calls are counted.

`ConfigStoreProofs`. `KeptAsTold` and `InStep` are inductive together with the types of the three
copies (`Typed`): a file rebuilt from the loaded configuration keeps what was said and done because that
is in force, an amended one because it is in the file. `FinishKeeps` says so once for every save
that is applied at once, `OneFileKeeps` for the steps that load nothing. `ReloadsAreWhole` then
follows because the files a reload reads are of their types. `TypeCorrect` adds that `order` lists
the sections of `wrapper.toml`, each once (`OrderFits`): one lemma for each way a section comes and
goes (`SectionWritten`, `SectionFirst`, `SectionRemoved`, `SectionsCut`), one for each way the content
does (`PresentWith`, `PresentBut`, `PresentInCut`), and `SettingsInOrder` for the settings page, whose
order and content are computed apart.

`RulePagesProofs`. `SavedStays` is inductive with the types (`IInv`): `FinishStays` shows it once
for every save, because a file is rebuilt from the rules in force and what was confirmed is in force,
and lemmas per page show that what is saved is a rule set. `ResavingIsHarmless` is about the handlers
themselves (`ApplyAgentPanel`, `ApplyDefaultsPanel`) and needs of the state no more than its types:
`SameDecision` is about any rule set. `ConstraintsAreKept` is about steps: what a
panel or the matrix makes of any rule set holds its constraints (`PanelHolds`, `MatrixHolds`), and
`InForceAfter` says which row is in force for an agent after a save for any owner. `TypeCorrect`
adds the counts of saves and accidents.

`CallPipelineProofs`. `CallInv`, one formula per call, says what each location implies: which
questions have been answered (`Scanned`, `Answered`), which row exists and how far it is committed
(`Recorded`), what the client may have been told (`Told`). It is needed because the properties speak of
the end of a call and what decides them happens several awaits earlier. Calls meet only in a COMMIT,
which may make more rows durable: `OthersKeep` is that argument, once for all actions. From it:
`OnlyPermittedCallsRun`, `DeniedCallsDoNotRun`, `AtMostOneRow`, `ToldAfterCommit`, `HeldResponsesStay`.

`TokenProofs`, first part: the tokens of providers. `StatesAreUsedOnce` needs that a state that was used is not pending.
`ConnectionsStayUsable` needs more: the refresh token in an answer on its way is known to nobody else
(`Fresh`), so that no concurrent request uses it up before it is stored; a provider that rotates its
tokens always sends a new one (`Reissued`), one that does not never withdraws the old one (`Steady`);
and memory and file agree unless a write was lost (`InStep`).

Second part: the clients of a token. `ReportedAsNewOnce`: a call that waits for its check has its own row in the log,
two such calls have two, and a report leaves one behind (`First`); memory plays no part, so restarts do
no harm. `QuietClientsAreAlone`: as long as no two seedings collided, memory holds everybody in
the newest `SeedLimit` rows and everybody who passed unnoticed, and what a request has read before
seeding still names everybody in those rows (`Watched`): before the first seeding nobody with a name
gets as far as a row, and later a new row can only push old ones out (`RecentAfterStart`).

Only model-checked: the liveness properties `EveryRequestEnds`, `ExecutedGetsRecorded`,
`RequestsEnd`, `TreeEnds` and `RequestEnds`, and the fairness half of `ImplementsGate`. Fairness and
ENABLED are beyond TLAPS.

## What is abstracted or left out

- Texts, JSON, HTML, redaction and layout; DLP patterns (a scan is clean, to be approved or
  blocked); parameters of calls (a constrained tool may refuse them); a glob pattern is the set of
  names it matches.
- A nested call (workflow step or `call_tool`) is a call of its own in `CallPipeline`, where any call
  that was denied may be the one nested in another (`NestedDenied`); how it depends
  on the calls above it is in `WorkflowRun`, where a step's condition is either outcome, templates and
  values are left out, and the outbound scan is the time between the step and the checks.
- `AnomalyWatch` has one agent: the queries compare its name for equality (`logger.py:290`), so agents do
  not meet. The denial burst counts rows, the business hours compare the time of day.
- Two SSE requests share nothing; plain HTTP is one request. What an answer says is not looked at.
- Admin login and sessions: a dictionary of sessions and one of attempts per address, each looked up
  and changed in one step, with nothing to interleave.
- What native, gateway and plugin tools do: they answer or fail.
- Open approval requests live in memory: a restart forgets them (`Restart` of `Approvals`, which
  refines to a refusal), although LLM_GUIDE.md:199 says that they are preserved.
- Signature checks of webhooks, cookies and CSRF tokens: plain conditions on one request.
- `GET /gateway/tools`, dashboards, audit queries and exports: they read.
- Vault and environment look-ups, response shaping: no state.

## Met while modelling, without a run of its own

- A press that comes before the waiting coroutine resumes overwrites the one before it
  (`approvals.py:80`), where README.md:1022 says that the second press is ignored. `HumanGate`
  therefore promises the answer that stands when the request is released.
- The entity matrix shows a tool that no rule permits with every name ticked
  (`entity_access.html`), so that saving it as shown opens the tool, and with all names unticked a
  tool under a gate or limits may be passed any name (`admin.py:624`).
- Applying an agent's panel replaces all overrides of the agent by those for what it shows
  (`admin.py:735`), so that an override such as `[restricted-bot.__gateway__]`, of which README.md:777
  says that the agent can only run reports, is gone and the wider defaults apply; `admin.py:731`
  speaks of merging. It is the exception that `SavedStays` and `ResaveIsHarmless` name (`dropped`).
- Slack and Telegram share a section that is replaced whole (`admin.py:1129`): a save of the settings
  with one left blank and the other given removes the former, where `settings.html:162` and `:209`
  say "Leave blank to keep current". Vault left blank stays in the file (`admin.py:1084`), where
  `settings.html:79` says "Leave blank to disable Vault". Both are exceptions that `KeptAsTold` names
  (`BlankIgnored`, `unkept`).
- A client that leaves while the outbound DLP approval is pending leaves no audit row (`proxy.py:297`,
  `CancelAskOut`), although LLM_GUIDE.md:1206 says that disconnections still produce one; the
  exception of `EveryCallOneRow` (`unlogged`).
- Of two first requests of a process that load the known clients at once, the later one assigns what it
  has read over what the earlier one has added, and both clients pass unnoticed (`anomaly.py:77`),
  where `anomaly.py:66` speaks of any second client; the exception of `QuietOnlyAlone` (`raced`).
- With prefixes `a` and `a_b` a name listed for the second server is looked up, and refused, at the
  first (`proxy.py:186`): README.md:75 says that an agent never sees tools it cannot use.
  `ListedReachesItsTool` therefore speaks of unambiguous configurations.
- `_hot_reload` fills the dictionaries a registry was built on before it asks the registry what has
  changed, so python gateway tools and plugins that a reload adds are not loaded (`gateway.py:71`,
  `Reloaded`); LLM_GUIDE.md:661 says that they are.
- Of two calls that refresh with one rotating token, the second gets no token although the first has
  stored a valid one by then (`credentials.py:509`, `TakeRejection`).
- A nested call is counted by the limiter, and its rate spent, before a human is asked; a limit whose
  amount or window is changed starts anew; tools of one native name on several servers share a limit.
  A call refused for its depth leaves no row of its own, nor does one whose agent a reload has removed
  (`proxy.py:255`).
- A client is told of the denial of a nested call as of its own, while the row of the outer call says
  that it was allowed and failed (`proxy.py:521`, `NestedDenied`).
- The page for the credentials of a plugin says that it has saved them also when the plugin is no longer
  in its file (`PluginCredentials`).
- A webhook secret given without a token of Telegram takes the token that was loaded at the start
  over the one in the file (`BlankIgnored`).
- The first use of a tool is not reported when the call fails, or when two first calls overlap, where
  README.md:73 speaks of every first-time use (`anomaly.py:57`).
- The first client of a REST agent is not written to the log, so that after a restart another client is
  the first again (`server.py:377`). So is one after a restart when the newest 500 starts of sessions are
  all its own (`anomaly.py:75`). With `block`, a client that comes second also locks out the first.
- A cancellation that arrives while an SSE request closes its reader is swallowed
  (`mcp_client.py:174`).

## Plan

Done: everything above. What is left, in this order:

1. The safety argument behind `TreeEnds` as an action property with a theorem: the steps left in a
   frame only become fewer, so a tree grows at most `MaxDepth` deep and each of its frames ends.
2. What a reader of the pages expects of the entity matrix (below `ConstraintsStay` nothing is checked
   of what it opens).
3. A disconnect that overtakes a refresh, and a save of one server that writes all of them without
   `tool_prefix`: hazards without a property so far.
