# A TLA+ model of daimon

daimon is an infrastructure-operations assistant: chat, alerts and an operator's
console ask agents to do things to managed devices, and a guarded broker decides
what may reach a device, with whose approval and under which audit record. This
directory holds TLA+ modules for its core logic, TLC configurations that check
them on small instances, and TLAPS proofs for every value of the constants.
Paths below are relative to `crates/`.

## 1. The system

### Components, state, operations

| Part | State | Operations | What makes it correct |
|---|---|---|---|
| Guard: policy (`daimon-guard/src/policy.rs`, `daimon-core/src/capability.rs`) | rules loaded at boot | `evaluate`, `is_read`, boot lint | a write capability is never waved through |
| Guard: approval inbox (`daimon-guard/src/approvals.rs`, table `public.approvals`) | rows pending / approved / denied / expired | enqueue, decide, poll, expire | a row is decided once; expiry never overwrites a verdict; the inbox has no zombies |
| Guard: KILL switch (`daimon-guard/src/kill_switch.rs`) | an atomic flag, the KILL file, watcher and signal task | touch, rm, SIGUSR1, restart | only an `rm` resumes; a file that stays engages; nothing dispatches while engaged |
| Broker (`daimon-broker/src/broker.rs`) | none of its own; drives guard, inventory, vault, transports, audit | `execute`, `lint_write_capabilities`, admin proxy | no effect without authority; every request ends |
| Orchestrator (`daimon-orchestrator/src/service.rs`) | `public.plans`, `public.plan_steps`, per-run locals | `create_plan`, `run_plan`, compensation, `finish_plan` | dependency order; a rollback in reverse that comes past every step; a status that says what happened |
| Audit (`daimon-audit`, `daimon-anchor`, migrations V005 and V020) | `audit.events` hash chain, `audit.anchors`, manifest files | append (trigger), snapshot, verify | what the canonical text shows of an edit is reported; an untouched log is not |
| Runtime (`daimon-runtime`) | broadcast bus, agent registry, supervisor table | spawn, stop, restart, send, `dispatch` | what resolves can be served; a request is taken up once and answered only if taken up; calls end |
| Drivers and transports (`daimon-driver*`, `daimon-transport`) | catalogue of capabilities, known host keys | validate, render, submit, connect, execute, reply | a reply says no more than is known of the device, and comes |
| Observer, Triage, Alert router | ingest cycle, two dedup windows, delivery rows | cycle, admit anomaly, create plan, classify, deliver | one plan per window; a lasting breach is triaged again; alerts reach only enrolled people |
| Gateways, approve over chat (`daimon-gateway`, `daimon-app/src/gw.rs`, `db.rs`) | poll cursors, alert records, the inbox | poll, bind, route, decide, turn | a message is handled at least once; a reply decides the row it answers, by an approver; no channel waits for itself |
| Chat (`daimon-app/src/chat.rs`, `ws.rs`, `components/chat_bubble.rs`, `daimon-llm`, `daimon-redis`) | turns, hot list, durable history, panel signals | send, ask, call tools, store, delete, prune | well-formed requests; a turn's order in both tiers; no panel waits for nothing |
| Vault, inventory and their pages | sealed rows, credential cache; targets; modals and reveal display | create, rotate, rename, delete, resolve; upsert, remove; reveal, hide | a host gets the secret its row names; edits take effect; a revealed secret is cleared |
| IAM, settings and their pages | users, sessions, tokens; `app_config`, live snapshot, tunables, update flag | login, disable, grant, revoke; save, reload, switch provider, update | who may not log in is out; an admin is kept; the running settings are the saved ones |
| Memory and graph clients, key management, migration tool, CLI, read-only pages | external | | see section 5 |

### How they interact

* A driver, a chat turn or an orchestrator step sends a request envelope on the
  **broadcast bus**; the agent that provides the capability calls
  `Broker::execute` **inline** and answers with a correlated reply. The caller
  waits with a timeout of its own.
* `Broker::execute` calls the **guard** (flag, policy, inbox), then inventory,
  vault, transport, and writes an **audit** event, each an `await`.
* The inbox is **shared state** in Postgres: the parked task polls the row, the
  console and the gateways decide it.
* The KILL **file** is shared by the operator, the watcher task and the signal task.
* The observer puts anomalies on the same **bus**; triage and the alert router each
  have a backlog of their own and lose the oldest envelopes when they lag.
* The gateways decide rows of the **inbox** from chat messages, and run chat turns
  inline in the loop that polls the channel.
* Pages call server functions; an **answer** may come after the page has moved on.
* The audit table is shared by every appender of every process; the trigger takes
  an advisory lock.

### What is hard here

Tasks suspend at every database and network call, so values read before an
`await` are used after it (the KILL flag before an approval wait of minutes, the
chain head, the target's credential reference, an approver's roles, a settings
snapshot, a user's status at login). Timeouts are nested and do not
agree (60 s for a plan step, 300 s for an approval). The process may die between
two database writes. Every one of these is listed, at its line, under `hazards`
in `PROJECT.json`.

## 2. Modules

| Module | Models | Notes |
|---|---|---|
| `Policy` | read classification, first-match policy, boot lint | pure operators; a dotted name is a sequence of segments |
| `Approvals` | what the inbox table promises | abstract: one function from ids to statuses |
| `Broker` | `Broker::execute` as one task per request, operators, administrators, KILL flag, boot and crash | implements `Approvals` |
| `KillSwitch` | watcher, signal task, operator, restart | the flag that `Broker` reads |
| `Saga` | what one execution of a plan promises on its rows | abstract |
| `Orchestrator` | `create_plan`, `run_plan`, compensation, agents that answer late | one execution implements `Saga` |
| `AuditChain` | trigger, advisory lock, snapshot, verify | |
| `Exchange` | what a caller of the bus may rely on | abstract |
| `Runtime` | bus, registry, supervisor, agent loops, dispatcher; drivers as its agents | implements `Exchange` |
| `Alerting` | observer cycle, triage agent, alert router, the bus between them | |
| `Channels` | webhook and polled ingress, identity binding, decisions and turns from chat | instantiates `Approvals` for the inbox |
| `Chat` | panel, socket, turn loop, both tiers of history, providers' streams | |
| `Vault` | credential rows, cache, inventory, a broker operation that uses them | its state is in `VaultState` |
| `VaultAdmin` | credential and target pages, server functions, admin proxy | extends `Vault` |
| `Drivers` | RouterOS driver, connector, SSH / REST / SNMP transports, the device | |
| `Accounts` | users, sessions, login and the IAM functions | a part of the specification of `Settings` |
| `Settings` | `set_setting` and its reload, provider switch, updates, restart | extends `Accounts`: every save passes its guards |
| `AlertingState`, `DriversState`, `VaultState` | what `Alerting`, `Drivers` and `Vault` keep, and the invariants over it | extended by those modules and by the module that proves about them |
| `BrokerProofs`, `KillSwitchProofs`, `OrchestratorProofs`, `AuditChainProofs`, `RuntimeProofs`, `ChannelsProofs`, `ChatProofs`, `SettingsProofs` | theorems | `BrokerProofs` also about `Drivers` and `VaultAdmin`, `ChannelsProofs` also about `Alerting` |
| `MCBroker`, `MCOrchestrator`, `MCAuditChain`, `MCRuntime`, `MCAlerting`, `MCChannels`, `MCChat`, `MCVault`, `MCDrivers`, `MCSettings` | small instances for TLC | |

**Broker.** `pc[r]` is the `await` request *r* is suspended at; each action is the
code from one `await` to the next. `PreFlight` is the synchronous part of
`Guard::pre_flight`; `Enqueue`, `Publish`, `PollDecided` / `PollTimesOut` /
`PollFails`, `Expire` are `enqueue`, the announcement and `wait_for_decision`;
`ResolveTarget`, `ResolveCredential`, `Execute` are the steps of `execute_inner`;
`AuditExecute` is `audit_execute`, which reads the target's row anew. A deadline
is abstracted to "may have passed at any poll". Vault and transports are their
possible results; a transport may act and report an error. `Boot` picks any
policy the lint accepts, so a restart may load another one. `abandoned[r]`
remembers that a fault took the task from its row; it guards no action. Calls
that only read, and a poll that finds its row undecided before the deadline, are
stutters.

**KillSwitch.** The watcher's stat and its comparison are two actions, because the
stat suspends; so are the signal task's write and its engage. `removed` and
`misread` are history variables used by the property only.

**Orchestrator.** `local[n]` is the run's own copy of the steps, from which
`run_plan` chooses, and `stepStatus` the rows. An agent's operation is a member of
`working` until `AgentEnds`, which may come after the run gave up. `device`
records what the step did in the end. The rollback ends for a step in one of four
ways: nothing to compensate, compensated, an error (`GiveUp`), or `PassOver`, when
`compensator_for` finds the step's capability no longer registered and the step is
skipped in silence. `unrolled` remembers the last two with their reason. Nothing in `run_plan` looks at the plan's
status, so several members of `Runs` may execute the same plan.

**AuditChain.** `Begin` fixes `ts` (a column default of `now()`, the transaction's
start), `ReadHead` takes the advisory lock and reads the head, `Commit` inserts
and releases, `Abort` is a lost connection. `Canonical` is
the text that is hashed: the columns joined by an unescaped bar, NULL as the empty
text, so two different rows may have one text. A hash is the tuple of what it
digests: SHA-256 is taken to be free of collisions. Each append carries a text of
its own. Row ids are random, so any unused id may be drawn. Commands run by
`daimon-anchor` are one at a time.

**Runtime.** A *life* is one call of `Supervisor::spawn` and what it starts: a runner
task and the loops the runner starts one after the other. `spawn`, `stop` and the
clean-up of a runner that gives up are cut at their locks, so they interleave on
`registry`, `agents` and `handles`. The three lock acquisitions of the clean-up
usually happen in one poll, which an abort does not cut short: `StopAbort` may
spare a runner that cleans up. The loop's task is detached by an abort and goes on.
`bus` is everything ever sent; a receiver is a position in it, and one that is more
than `Capacity` behind gets `Lagged` and skips to the oldest envelope still kept.
Serving is `Receive` and then `HandleEnds` (a driver's `handle` sends exactly one
reply, for bad requests and failures too) or `HandlePanics`. A restart window that
has run out is a choice in `NoticePanic`. `handled` counts how often a life took a
call up. One task drives the supervisor (`Driving`): `main` awaits each spawn before
the next; only tests and the demo call `stop` and `shutdown`. Not reachable in this build, hence not in
the model: the closed bus (the dispatcher holds a sender) and a cancelled loop.

**Alerting.** `cycle` is where `run_once` stands; `Sample` inserts a row and then sends
the envelope to both backlogs. The dedup windows are kept as the time left in them,
so behaviours need no bound on their length. `Admit` / `Swallow` are `admit`,
`CreatePlan` may fail, after which the window stays. A restart, which clears the map of
windows, is not modelled: `OnePlanPerWindow` is about one life of the process. Several
samples of one source and query have one signature and count as one. The router is cut between
`Classify`, `Resolve`, each send and the end. Only webhook adapters are in its
registry, as `build_gateways` builds it. `routing.known` is history: who was
enrolled since the router took the alert up.

**Channels.** A message is a slot of its channel, a handler a task per slot. A webhook
starts a task at once; a poller runs it inline (`Dispatch` ... `Return`) and then
moves on, saving its cursor per message (`getUpdates`) or per batch (`/sync`); any
save may fail. A `/sync` may answer with the end of a timeline only; `skipped` keeps
what the loop was never given: that, and the backlog of a start whose cursor is
missing or cannot be read. `Hang` is a call to the homeserver that never returns, and a
handler's send may hang too. `Bind` reads the user and the roles once. `held` and
`decisions` are history. An alert has the id the platform gives it, which is new in its
*chat* only; `Replied` looks for the newest alert of the channel under that id, as
`resolve_approval_by_reply` does.

**Chat.** A stored message is a turn and its position in that turn's history. `Own`,
`Insert` and `Push` are the two SQL statements and the list append, each with its
failure; `Ask` is one streamed request, whose result is a member of the provider's
`Answers`: Anthropic and ChatGPT streams complete tool calls, the OpenAI stream
reports that it stopped for tools but not which, Ollama's does neither. A socket
is connecting, open, closed or belongs to a page that stopped working (`Panic`, a tool
result cut within a character); what is sent before it is open is lost while the panel
turns busy, which `lost` remembers. A socket
takes its messages one by one; a turn outlives its socket. `Open` starts a turn's
history at the user's message: earlier turns are replayed as plain messages, without
their tool calls (`conv_to_chat`), and cannot disturb the pairing of calls and
results. `MaxDetours` bounds all
events beside the turns together.

**Vault, VaultAdmin.** `resolve` is `LookUp`, `Fetch` and `Put`, so that an edit and its
cache invalidation fit in between; the invalidation is a step of its own after the
statement. An operation's path may be an absolute URL, whose host `Connect` then sends
to. Ages of cache entries are ticks. `held` and `bound` are history: every
pair a row ever had. A page has one modal, and its requests outlive it: `Answer`
closes whatever modal of that kind is open then. Each opening of the reveal display
starts a countdown loop.

**Drivers.** A call goes from `Request` through `Dispatch` (catalogue, parameters,
rendering), `Submit` (the broker may refuse; a transport refuses an operation of
another kind) and a transport's steps to `Reply` and to what the chat makes of it.
A template is its parameters (some optional), its slots and its mode: done in one
answer, accepted now and done later (the task ids of `deploy/connectors/proxmox.toml`,
the resets of `redfish.toml`), or an SNMP walk, which asks row after row (`WalkOn`). A
value fits, does not fit or is missing. `ground` is what an answer rests on: the
device's report, an acceptance, or silence.
`device` is what really happened, which the call may never hear of. Two profiles
that declare one capability are resolved either way.

**Accounts, Settings.** A browser runs one server function at a time, cut at each
`await`; `Goto` is the continuation. A status is one of the three the table admits.
`db::set_user_status` is a transaction: `DeleteSessions` has locked the row and deleted
the sessions it saw, `Commit` makes both visible, and a login may insert in between. A
save is a list of writes, each guard, vault write, row, reload and push of the tunables,
after which an error may stop the list. Every key may be deleted, a key field may hold
the name of another credential, and the credentials page may delete, rename or create
the credential a setting names (`EditCredential`).
`raced`, `overlapped`, `excused` and `meddled` are history: they mark the sessions,
lockouts, snapshots and lost keys that came from the races named at the properties.

Definitions marked "A bug to look for" or "Mutant" are never part of the
specification: they are plausible mistakes, used to see that each property can
fail.

## 3. Runs

Passing runs:

| Run | Instance | Shows |
|---|---|---|
| `broker` | 2 requests; a read, a gated write and an unnamed request; 2 policies (one of them the shadowing mistake the lint exists for); target removal; KILL; 1 crash | `WritesAuthorised`, `InboxOnlyHoldsLiveRequests`, `ApprovalRows` (refinement of `Approvals`), `RequestsEnd` |
| `killswitch` | 2 signals, 1 restart, 1 failed file operation | `ResumeNeedsRm`, `FileEngages` |
| `orchestrator` | 1 execution of an empty plan, a chain with a step that cannot be undone, a fork listed backwards with an index out of range, a cycle; 1 database fault, 1 crash | `DependenciesFirst`, `RollbackIsComplete`, `RollbackAgainstDependencies`, `SagaSpec` (refinement of `Saga`), `RunsEnd` |
| `audit` | 3 appends of two columns, rows rewritten with another text, with a bar moved and with NULL made empty; clock 0..2, every order of 3 ids, 2 snapshots | `LinksGoBack`, `VerifyIffOrdered`, `EditsAreReported`, `AnchorsNamePrefix` |
| `runtime` | 1 agent id, 2 lives, 2 calls, a bus that keeps 2 envelopes, restart budget 1, 2 panics, 1 stop | `RegistryIsHonest`, `NoReplay`, `ExchangeSpec` (refinement of `Exchange`), `CallsEnd`, `PanicsAreNoticed` |
| `alerting` | 2 metrics of 1 source, buses that keep 1 envelope, windows of 2 and 1 ticks, 2 recipients | `OnePlanPerWindow`, `SentToEnrolled`, `RepeatedBreachIsTriaged` |
| `channels` | 3 channels (one of each style), 1 user, 2 messages; either all channels, 1 approval and 1 crash, or the webhook with 2 approvals, 2 chats that number their messages separately, 2 ids and 2 alerts | `HandledBelowCursor`, `ReplyDecidesItsAlert`, `DecisionsAreAuthorised`, `PollersCatchUp` |
| `chat` | 2 panels, 2 users, 2 sessions, 2 turns, 1 request per turn, 2 tool calls under way, 1 detour | `EveryCallAnswered`, `StoredInOrder`, `BusyMeansPending` |
| `vault` | 2 row ids, 2 names, 2 hosts, 1 target, 1 operation with or without an absolute URL, a cache of 1 entry, 2 admin requests | `PairedByARow`, `RotationTakesEffect`, `RevealedIsHidden` |
| `drivers` | 1 call, 2 capabilities of RouterOS and 7 in 3 profiles (one answered early, one walk), 5 targets, 2 host keys | `ReplyIsTruthful`, `EveryCallReplies` |
| `settings` | 2 browsers, 2 admins and 1 free name, 2 logins, 2 server functions: of the IAM page, or of the settings and credentials pages | `DisabledMeansOut`, `LastAdminKept`, `QuietIsLive`, `SwitchIsConfigured` |

`broker` also checks `TypeOK`; the type invariants of `KillSwitch`, `Orchestrator`,
`AuditChain` and `Runtime` are theorems, and those of `Channels`, `Chat` and `Settings`
parts of the invariants proved (section 4).

One run finds that the code does not do what the repository says of it: in
`broker_kill`, `KillDeniesExecute` is violated. The KILL flag is read before the
approval wait and not after it, so an approval clears a parked request while the switch
is engaged (`daimon-guard/src/lib.rs:177`).

**What some properties except, and why.** The exceptions are paths of the code, which
the models have; each property says that no *other* path leads there.

* `RollbackIsComplete` and `RollbackAgainstDependencies` count a step as dealt with when
  its compensation failed or its capability was no longer registered.
* `EditsAreReported` is an equivalence: a rewritten row goes unreported exactly when its
  canonical text stays the same (a bar moved to the next column, NULL made empty).
* `ReplyDecidesItsAlert` promises the alert's channel and id, and nothing older than the
  alert of the reply's chat; the chat itself it cannot promise.
* `HandledBelowCursor` excepts what the loop was never given (`skipped`), `PollersCatchUp`
  a Matrix loop that hangs in a call: its client has no timeout (`matrix.rs:60`).
* `BusyMeansPending` excepts a message sent before the socket was open, and speaks of
  pages that still run.
* `PairedByARow` excepts the host of an absolute URL (`rest.rs:83-90`).
* `ReplyIsTruthful` accepts a success for a 2xx answer that only accepts the command, and
  for an SSH channel that ended without a status, because the transport reads that as
  exit 0; it speaks of the connector only where it speaks of success: the RouterOS driver
  answers `NetworkResponse::ok` whatever the exit status. `EveryCallReplies` excepts an
  SNMP walk that never ends: only its single requests have a deadline.
* `DisabledMeansOut` excepts a session inserted, by a login that had read the status
  before, after `set_user_status` deleted the sessions it saw. `LastAdminKept` excepts two
  calls that passed the check before either wrote, and counts a locked admin.
* `QuietIsLive` excepts a reload that failed or overlapped with another save.
* `SwitchIsConfigured` excepts a key whose row or credential another call took away, or
  replaced by another credential's name, since this save stored it.

**Why the bounds are enough to be interesting.** Two requests are enough for one to
be parked while the other goes through, and requests share only the flag, the
policy and the inventory; one crash separates two boots, hence two policies. Two
signals and one restart give a signal before, during and after a removal. The
plans cover every shape of dependency the chooser treats differently, and three
steps are the least with a middle one. Three appends are the least in which an
overtaken row is followed by a row that chains over both. Two lives of
one id, two panics with a budget of one restart, and one stop are the least with a
restart, a give-up and a second spawn that overlap; two calls put at most four
envelopes on a bus that keeps two, so both kinds of receiver lag. Buses that hold one
envelope make every burst lag; windows of two ticks and one give a repeat inside, at
the end of and after a window. Two messages are the least in which one waits for the
other, and one crash falls between any two steps of them. Two turns are the least
that share a session, two calls the least that can be answered in the wrong order;
a second request per turn adds no new kind of step and ten times the states. Two
chats, ids and approvals are the least in which a reply can find a wrong alert. Two
admin requests are an edit and the one it races with, and two browsers with two
functions the least in which two checks pass before either write. One call is
enough for `drivers`, where calls meet only in `known_hosts`. The theorems below
remove these bounds for all of the safety properties.

**Constraints.** `channels` and `settings` each explore two halves of their state space
(`MCConstraint`), because the product is out of reach. In `channels` alerts and replies
are kept apart from pollers and crashes: what they share, the approval a webhook decides
while a poller's turn waits for it, is in the half of the pollers by way of commands, and
`PollersCatchUp` is decided there. In `settings` the functions of the IAM page are kept
apart from saves: a save meets them only where its session has ended, and each write of a
save may be refused as if it had (`Refuse`). The safety theorems are about the unconstrained
specifications.

**Deadlock** is checked everywhere except in the `audit`, `runtime`, `chat` and
`settings` runs: appends and snapshots, calls and spawns, turns and server functions
are finite in number there, and a log, a bus or a browser may simply fall silent. In
`Orchestrator` the action `Quiet` names the states where nothing is left to do.

**Fairness.** `Broker`: weak fairness of each request's own steps; a spawned future
is polled, transports have deadlines and approval deadlines pass. The pool sets no
statement timeout (`daimon-db/src/lib.rs:35-46`): here and below it is assumed that the
database answers or the connection fails. Neither operators nor faults are fair. `KillSwitch`: weak fairness
of the two tasks, which loop for ever on the runtime; the operator is not fair.
`Orchestrator`: weak fairness of each run's own steps, because its dispatches time
out; agents are not fair. `Runtime`: weak fairness of each runner,
of the subscription of a loop that was started, and of a call's send and timeout,
which are tasks of the async runtime with timers; handlers may take for ever, and
nobody has to spawn or stop anything. `Alerting`: of the
clock alone; `RepeatedBreachIsTriaged` supposes that the anomalies keep arriving and
nothing of the router, whose adapters send without a timeout. `Channels`: of the
ingress loops and handlers, as tasks whose turns have timeouts; the client of the
Telegram poller has one too (`telegram.rs:250-255`), those of the Matrix adapter and of
the webhook's replies have none, so their calls may hang for good (`Hang`, `Finish`).
Nobody has to post, decide or alert. `Vault`: of the clock and of the
countdown loops, which are timers; `Drivers`: of the driver's own steps and its
deadlines, not of devices, connections or answers; an SNMP request ends by its own
timeout, a walk need not. `AuditChain`, `Chat`, `Accounts` and
`Settings` state none: their properties are about safety.

## 4. Proofs

Every invariant and every action property of the passing runs, and the three
refinements, are theorems about the specification for arbitrary constants. A module
of proofs extends the module it is about. Two of them also speak of other
specifications, which they instantiate under a name (`Driver` for `Drivers`, `Store`
for `VaultAdmin`, `Monitor` for `Alerting`); the invariant they prove of it is the
one its run checks, since both extend the module with the state (`DriversState`,
`VaultState`, `AlertingState`).

The assumptions are the named `ASSUME`s of the modules: bounds are natural numbers,
"null" values are not in the sets they stand beside, a request's descriptor is a
registered capability with the request's name, rules carry one of the three
decisions, profiles name one of the three transports, tables start with well-formed
rows. Five say a little more. The rows that are appended have different texts
(`AuditAssumption`). The channels are finitely many (`ChannelsAssumption`).
There is a session id (`ChatAssumption`), since a panel always shows one. An active
admin exists at the start (`AccountsAssumption`), as `main.rs:113-127` seeds one. The release channel that is stored names a channel that
exists, and "stable" does (`SettingsAssumption`). `OneRunIsASaga` has a hypothesis
of its own, that the plan is run once: the second of two executions that overlap
finds rows that the first has set, and `Saga` promises nothing of that.

* **`BrokerProofs`**: `TypeCorrect`; `WritesAreAuthorised`; `InboxIsLive`;
  `BrokerImplementsApprovals`. `WritesAuthorised` speaks of requests that were
  sent; it is not inductive, since nothing in it says what a request that is
  *about* to be sent owes. The invariant adds: a request past
  the guard, or sent, has a verdict of read, of allow, or an approved row; a verdict
  of read or allow fits what the request asks for; rows of requests before `Enqueue`
  are absent; and tasks run only under a policy that passed the lint.
  `LintedVerdict` then says that under a linted policy
  "allow" on a write means that the request carries no descriptor. The refinement
  needs the absent-row part: `enqueue` inserts at most once per request.
  * Of `Drivers`: `RepliesAreTruthful`. The property speaks of calls that have
    ended; `CallOK` says for each label of a call what its device may have done by
    then. The device may still be at work when a call ends, and may end either way,
    so a call that fails meanwhile must already say "timeout" or "io"; and an answer
    that came before the device was done carries its ground to the reply.
  * Of `VaultAdmin`: `SecretsArePaired`. `StoreInv` carries where each piece came
    from: a live row and a cache entry hold a pair that some row has held, and an
    operation's host and name come from one inventory row from the moment it read
    it, unless the host is that of the operation's own URL. No edit, rename or deletion removes a pair from the two histories, so what
    the cache returns late is still paired.
* **`KillSwitchProofs`**: `TypeCorrect`; `ResumeOnlyByRm`. Strengthening: when the
  watcher last saw the file and the file is gone, or it holds an answer "absent",
  then an `rm` happened since or the answer is a misread.
* **`OrchestratorProofs`**: `TypeCorrect` (with what each label of a run guarantees
  about its locals, without which no step can be typed); `StepsFollowDependencies`;
  `RollbackLeavesNothingOut`; `RollbackGoesBackwards`; `OneRunIsASaga`. For the first
  the invariant ties a run's local copy
  to its `order`: with several runs of one plan the *rows* do not say what this
  run did, so "succeeded in this run" is what is carried. For the second the
  invariant says which part of `order`, the one above `undoAt`, has been dealt
  with, and that it grows by one with each way a compensation can end, the silent one
  for an unregistered capability included. For the
  third, `order` lists different steps and is final once the rollback begins
  (`OwnOK`), and a compensator on the bus, which may outlive its dispatch, belongs
  to a step above which everything has been dealt with (`UndoCallOK`): with the
  first, a step that depends on it lies above it. For the refinement, `SagaOK`
  relates the rows to the run's label: one row at most is "running", the local copy
  is the rows, and a rollback has a reason that stays visible on them.
* **`AuditChainProofs`**: `TypeCorrect`; `EveryRowIsLinked`; `VerifyMeansOrdered`;
  `AnchorsArePrefixes`; `EditsAreEvident`.
  The invariant: the lock's holder is the one append that is "holding" and the head
  it read is still the head; ids and payloads identify rows; every set of rows
  below a key has a newest one; and each row is chained to the newest of the rows
  committed *before* it. `verify` compares with the newest of the rows that *sort*
  before it: the two agree on every row exactly when commit order is time order.
  `SnapshotsOK` adds that a snapshot, stored or under way, carries the hash of the
  newest of the first `count` rows, which later appends do not change. Given an
  ordered log, a row rewritten to another text no longer has its own hash
  (`RewrittenRowBreaks`), one with the same text leaves every hash as it was
  (`SameTextVerifies`), and a missing one leaves a successor whose link nothing matches.
* **`RuntimeProofs`**: `TypeCorrect`; `RegistryStaysHonest`; `NothingIsReplayed`;
  `RuntimeImplementsExchange`. The types need `Ownership`: a handle is stored under
  the id of its own life, and a life has no runner before its spawn starts one;
  the same fact keeps `stop` from aborting another id's runner, which is all that
  `RegistryIsHonest` lacks to be inductive. `NoReplay` needs to know where the
  requests are: each is on the bus once (`RequestsUnique`), and a life's receiver,
  when it has one, stands behind what the life took up (`TakenIsBehind`). A new
  receiver starts at the end, a lagging one only moves forward, so a restart cannot
  bring a request back. For the refinement, `AnswersAreTaken`: every reply on the
  bus is of a call that was taken up.
* **`ChannelsProofs`**: `NothingBelowTheCursorIsLost`; `RepliesDecideTheirAlert`;
  `ChatDecisionsAreAuthorised`. `HandledBelowCursor` is about the saved position
  only; `CoverInv` says the same of every position a loop may resume from (the saved
  one, the one the platform remembers, the loop's own), because a crash turns one
  into another. `HandlerOK` carries what a handler learned about its message before
  it was suspended, the sender's user, that the user was an approver, the newest alert
  under the id a reply answers, and says that it stays true: an alert sent later gets an
  id that is new in its chat, so none of the reply's chat can come between.
  * Of `Alerting`: `AlertsGoToTheEnrolled`, since whoever is chosen, sent to or
    enrolled while an alert is routed is known to it (`RouterInv`);
    `OnePlanInAWindow`, where `PlanInv` says that what is left of a signature's
    window and the age of the plan it let through add up to the window, so that a
    window that has ended leaves no plan young enough to count.
* **`ChatProofs`**: `CallsAreAnswered`; `TiersKeepTheOrder`; `BusyPanelsAreServed`.
  `EveryCallAnswered` is about the moment a turn asks the model again; in between,
  the result of a call is in the history or its call is still in `todo`, at exactly
  the place the result will have (`Answered`). For the tiers, `LogNext` and `HotNext`
  give the position of the next message each may take, and nothing stored lies at or
  above it: the two are written one after the other, and a turn may end in between.
  For the panels, the socket holds queued turns of its own panel, each once
  (`WireInv`); a panel that sent too early is exempt until an event makes it ready.
* **`SettingsProofs`**: `DisabledAccountsAreOut`; `AnAdminIsKept`;
  `AtRestSettingsAreLive`; `SwitchFindsItsKey`, of the specification of `Settings`, whose
  account steps are those of `Accounts`. A transaction that has deleted sessions
  will end every session of its user but those inserted since, which are marked
  (`SessionsWillEnd`). The check that another admin remains
  holds until the write that relies on it, or two such calls overlapped
  (`CheckStillHolds`). A save that is alone between its row and its tunables has
  read what the table holds (`SnapshotsFresh`); one that is not leaves a reload that
  is excused, or another's still to come that will be (`MetOthers`). `SwitchInv`
  says how far a save with a typed key has come: the key is stored before the row
  that refers to it, and that one before the provider's; a step of another browser
  leaves both in place (`KeysStay`) or marks the save as meddled with (`Meddling`).

Only model-checked, because liveness under fairness is beyond the prover:
`RequestsEnd`, `FileEngages`, `RunsEnd`, `CallsEnd`, `PanicsAreNoticed`,
`RepeatedBreachIsTriaged`, `PollersCatchUp`, `RotationTakesEffect`,
`RevealedIsHidden` and `EveryCallReplies`.

## 5. Observed while modelling

States the models reach that a comment or a document would not lead one to expect,
beside that of the violated run. No passing property claims the contrary: where
one comes near, section 3 names the exception.

* A step with a compensator is passed over by the rollback when its agent is no longer
  registered: no attempt, no error, still "succeeded" (`service.rs:400`, `:624-627`,
  `:651-670`), while `service.rs:387-389` says that each step that declares a compensating
  capability is compensated.
* Two chats of one channel may get alerts under one message id, and a reply in one then
  decides the approval of the other (`db.rs:311-316`); `db.rs:300-302` says that the alert
  is the one "that was sent as that message".
* The last-admin check is not made for the status "locked" (`iam.rs:205`), so one call can
  lock everybody out, against `iam.rs:6-9`.
* A login that had read the row inserts its session after the user was disabled
  (`login.rs:32`), against the "no window" of `db.rs:168-170`.
* A request that names no capability "bypasses policy" according to
  `request.rs:25-27`; the code evaluates the policy for the name `broker.execute`, and
  `WritesAuthorised` is stated for what the code does.
* A 2xx answer is a success, also a 202 or a task id of work that may still fail
  (`connector.rs:776-778`).
* An SNMP walk has no deadline of its own (`snmp.rs:101-111`).
* A bar moved between two columns of an audit row, or NULL made empty, changes no hash
  (`canonical.rs:26-44`).
* A message sent while the panel's socket is being opened is lost, and the panel stays
  busy (`chat_bubble.rs:412`, `:434`).
* A provider's key can be deleted, with its row or from the vault, while a save is about
  to switch to that provider; a name such as `vault://x` typed into the key field is kept
  as it is (`admin_settings.rs:195-197`).
* A signal that races with `rm` leaves the KILL switch engaged with no file; the
  watcher, which acts on changes only, never lifts it (`kill_switch.rs:141`).
* A second run of a failed plan finds no pending step and records success
  (`service.rs:320`); a compensator's `success: false` is not looked at
  (`service.rs:643`); a step given up after 60 s may be approved within its 300 s and
  take effect after the plan ended (`service.rs:26`).
* Two agents with one capability both handle a request addressed by capability
  (`supervisor.rs:231`).
* A row that starts first and commits second makes verify report breaks in an
  untouched log (`V020__audit_global_chain.sql:25`); `VerifyIffOrdered` says that this
  is the only cause.
* `audit_execute` reads the target's row again after the operation, so an edit in
  between makes the event name another credential (`broker.rs:270`).
* The observer's comment says "highest-severity wins" (`ingest.rs:196`); the first
  breached threshold in library order does, and some queries list the warning first.
* The router's dedup key of an anomaly is its fresh row id, so repeats of one metric
  are never suppressed there (`alert_router.rs:70`); channels served by a poller are
  not in its registry and get no alerts.
* A connector's successful reply lacks the `command` field the chat's decoder
  requires, so the chat shows a decode error (`connector.rs:930`).
* The OpenAI stream's tool calls are not read, its finish reason is: such a turn asks
  again with the same history until its loop budget is spent (`openai.rs:346`).
* Deleting a chat session leaves its hot list in Redis until it expires.
* Two admins who disable each other at once both pass the last-admin check
  (`iam.rs:206`).
* A role revoked from a user stays in the token of a live session
  (`auth_guard.rs:109`).

## 6. Not modelled, and why

* Cryptography (sealing, SHA-256, password hashes, token signatures), the wire
  protocols (SSH, HTTP, SNMP), the memory and graph services: external; only their
  outcomes matter.
* Rendering of device commands, TOML and JSON parsing, prompts and context assembly,
  layout: data that no property tells apart.
* Tables, dashboards, charts and read-only pages: they render what a query returned
  and keep sorting and paging in local signals.
* The Driver trait's `describe`, `read_state`, `diagnose` and `remediate`: nothing in the build
  calls them. SNMP set: the transport refuses it.
* `plan_from_intent`: the language model's answer is an arbitrary member of
  `Definitions`, which is what `create_plan` receives.
* Matrix transaction ids, which restart from 1 with the process (`matrix.rs:62`), and
  the edits of placeholder messages: what the platform does with a repeated id is its
  own affair.
* The sign-in of the ChatGPT session, connection tests of the settings pages, the
  migration tool, the CLI demo: sequential, one request after the other.
* The NATS bus, which only a build with the feature `nats` has.
* A database clock that is set back: it is one more way to get rows out of order,
  and leads where an overtaken append leads.
* A server function dropped between its row and its reload, and the writers of
  `app_config` that never reload (a poller's cursor, `gw.rs:366-371`; the signing secret,
  `main.rs:104-111`): no setting that is read live is among the latter.
* Two appends with equal contents in every field and in the microsecond of `ts`.

## 7. Plan

In order of importance:

1. **Composition** of `Runtime` and `Orchestrator`: the orchestrator's agents that
   answer late or never as an instance of `Exchange`.
2. **Composition** of `KillSwitch` with `Broker` (the flag driven by the two tasks) and
   of `Channels` with `Broker` (the parked turn as a request, where `Channels` now has
   the abstract inbox), with the theorems carried over.
3. The ChatGPT session's token refresh, shared by concurrent turns.
