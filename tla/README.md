# Terraformer in TLA+

Terraformer (`src/`) is a FastAPI backend with RQ workers, PostgreSQL, Redis and
a React frontend that reads, documents and changes Cisco IOS-XE devices over
SSH. This directory models the parts of it whose correctness depends on
interleavings, failures and time, checks the models with TLC on small instances
and proves theorems about them with TLAPS for every instance.

## The system

| component | state | operations | interacts with | what makes it correct |
|---|---|---|---|---|
| Background jobs (`services/jobs.py`, `repositories/jobs.py`, `jobs/`) | a row per job in PostgreSQL, an RQ list in Redis | `enqueue` (commit, push, commit), `execute_job` (start, run, succeed or fail) | every endpoint that answers 202; the worker process | a row always ends unless a process died; a success is never a lie |
| Change pipeline (`changes/service.py`, `api/changes.py`) | the plan and its step, the device lock derived from active jobs | preview, `/apply`, `apply`, `_attempt_rollback`, `save_running_config` | jobs, admitted connections, snapshots, the device | a device is written to only for a confirmed plan, once; "applied" means verified |
| Change catalogue (`drivers/cisco_iosxe.py`, `changes/risk.py`) | none | render commands and inverse, validate, risk class | change pipeline | the inverse undoes the commands |
| Connection gate (`services/connection_gate.py`) | Redis: permits, active sets, rate sets, failures, cooldowns, all with an expiry | `acquire`, `authentication_failed`, `authentication_succeeded`, `release` | every connection, from API threads, workers and terminals | limits hold under races; nothing leaks for ever |
| Admitted connections and devices (`services/devices.py`) | the device row, its audit trail | create, test, repin, refresh, `admitted_connection` | gate, host key trust, driver | a permit is always released |
| SSH policy and failures (`drivers/ssh_compatibility.py`, `drivers/ssh_errors.py`) | none | authorize a mode, translate an exception | every connection | the same answer everywhere; only a wrong password counts as one |
| Host key trust (`services/ssh_trust.py`) | candidates in Redis with an expiry, pinned keys | collect, resolve, pin, repin | devices, terminals | no key trusted that nobody confirmed for this endpoint |
| Terminal (`api/terminal.py`) | one asyncio task per socket, threads that acquire and open | open, two relays, timeouts, cleanup, cancellation at each await | gate, transport | whatever ends first, the permit is released and the shell closed |
| Assistant (`assistant/`, `repositories/assistant.py`) | conversations, messages, the count of automatic applies | run a turn, tool calls, fold, auto-apply | change pipeline, provider | a turn's requests are well formed and hold the question; turns end; what passes the cap is what escaped its count |
| Analysis (`analysis/`) | rows of runs, the shared Batfish session, findings | request, parse, prune, query, expire | jobs, Batfish | results are kept, answers are about what was asked |
| Configuration snapshots (`services/snapshots.py`, `core/storage.py`) | files and rows | capture, read | change pipeline, discovery | every row has its file |
| Discovery, setup, credentials, providers | rows | create, read, update, delete, a bounded thread pool | jobs, devices | |
| Frontend | USB and WebSocket transports, chat and plan views | open and close, polling | API | a port is closed once |

Hard behaviours: two writers between a read and a commit (endpoint against
endpoint, endpoint against worker), exceptions on each line of `apply`, process
death between two commits, entries and replies of the queue lost or doubled,
optimistic transactions whose reads are stale, expiries racing releases.
`PROJECT.json` lists every hazard at its line with the properties that cover it.

## The modules

| module | models |
|---|---|
| `Jobs` | job rows, the RQ list, the API thread inside `JobService.enqueue`, the worker inside `execute_job` |
| `ChangePlanLifecycle` | abstract: what is promised of a plan, without jobs, requests or failures |
| `ChangePipeline` | extends `Jobs` with preview, `/apply`, `ChangeService.apply` and the devices; implements `ChangePlanLifecycle` |
| `ChangePipelineProofs` | theorems about `ChangePipeline` |
| `MCChangePipeline` | TLC instances of it |
| `ConnectionGate` | the Redis connection gate, its callers as far as they talk to it, and time |
| `ConnectionGateProofs` | theorems about `ConnectionGate` |
| `MCConnectionGate` | TLC instances of it |
| `SSHPolicy`, `SSHFailures` | pure: which modes are allowed and how a refusal is named; how an exception becomes a code, a phase and a report |
| `TerminalSession` | the terminal endpoint, its threads and its cancellation; uses both |
| `TerminalSessionProofs` | theorems about `TerminalSession` |
| `AssistantTools` | pure: what becomes of a tool call, the contracts of the chat APIs |
| `AssistantChat` | the websockets of one conversation, its stored messages and what is sent |
| `AutoApply` | the automatic-apply count of a session |
| `Inventory` | devices, pins, candidates and snapshots |
| `InventoryProofs`, `AnalysisRunsProofs` | theorems about `Inventory` and `AnalysisRuns` |
| `AssistantProofs` | theorems about `AssistantChat` and `AutoApply` |
| `ConfigurationsProofs` | theorems about `AnalysisInput`, `SSHPolicy`, `SSHFailures` and `ChangeCatalogue`, as `MCConfigurations` asks of them |
| `SequenceLemmas` | lemmas about numbers, windows of sequences and ranks in a set of positions, for the proofs |
| `AnalysisRuns` | requests, runs and queries of the analysis |
| `AnalysisInput` | pure: which devices and links are analysed, the drift findings |
| `DeviceCommands`, `ChangeCatalogue` | pure: a device's configuration and what a line does to it; the change types, their inverses, risk and post-check |
| `MCAssistant`, `MCInventory`, `MCConfigurations` | TLC instances of the assistant, of the inventory, and of the terminals, the analyses and the pure modules |

### Jobs and ChangePipeline

One element of `Calls` is one `POST /apply` with the one call of `enqueue` it may
lead to, and names the job row that creates. `call`, `request` and `stage` are
program counters of the API thread and the worker; every commit, Redis call and
device session is a step of its own. `job` is the state column; `rq` the list.

| code | actions |
|---|---|
| `preview` | `PreviewRead`, then `PreviewStore` or `PreviewFail` |
| `/apply` | `ReadPlan`, `CheckLock`, `EnqueueApply`, then `Dispatch` (the three ways the push can end) |
| `execute_job` | `ClaimApply`, ..., `FinishApply` |
| `ChangeService.apply` | `BeginApply`, `Connect`, `SendCommands`, `PostCheck`, `CaptureAfter` or `Rollback`, `Settle` |
| process death | `Crash`; another operator: `Drift` |

What is abstracted, and why that keeps the properties:

- A device's configuration is one value, the part one step touches; `Torn` is what
  half a batch leaves. A plan has one step, as `preview` stores it, so the status
  FAILED, which needs a plan without steps, is unreachable and left out.
- A commit that fails, and the job timeout (an exception RQ raises inside the worker), are
  failures of the step they interrupt. Every step of `apply` has its failing outcome:
  `BeginApply` may raise with the plan in DRAFT, or between the commit of APPLYING and the
  `try` (lines 414-428) with the plan APPLYING; `Settle` may raise at the last commit of
  `apply` or of the rollback (lines 521, 551), where no handler is left.
- `RefuseCall` writes its own unrefreshed copy of the row:
  `core/database.py` sets `expire_on_commit=False`, and a locking SELECT does not
  overwrite an object that is already loaded.
- The Redis client re-sends a command whose reply was lost, so one push can
  leave two entries.
- `save_running_config` changes no plan, job or running configuration and is left
  out; its effect on the startup configuration is a listed hazard.

`Values`, `Torn`, and the other constants that mean "nothing" are model values.
`MaxDrift` and `MaxCrashes` bound the two environment actions; nothing else is
unbounded, since each call makes at most one job.

### ConnectionGate

`acquire` and `authentication_failed` decide on what they read, so each is two steps:
reading under WATCH (`AcquireRead`, `FailRead`) and EXEC (`AcquireExec`, `FailExec`).
`dirty[c]` says that a key c's open transaction watches was written in between, by any EXEC,
DEL or release, or that the reply to its EXEC was lost; expiry alone does not dirty.
`release` and `authentication_succeeded` decide on nothing another client can change and are
one step. redis-py reports a connection that fails while it watches as a `WatchError`, so
when the reply to EXEC is lost, `_transaction` begins again, under the same identifier and
beside what it has written: `kept[c]` is the age of that entry. An `acquire` may then be
refused by its own permit, its own admission or both, and `authentication_failed` may count
one failure twice. An acquire that gives up with a permit written, and a holder that dies,
leave it in `"lost"`, which only its ttl removes. A permit can expire while its connection
is still used: the code does not end a connection with its permit.

Scores are kept as ages in ticks and `Tick` adds one to all of them, so no clock
grows: an age stops at the value (`Old`, `FailureWindow`) from which the code no
longer counts it. Any time may pass between reading the clock and EXEC, since the
Redis client of `container.py` is made without a socket timeout. `GateAssumption`
says of the constants what the lower bounds of `Settings` say.

A retry is `AcquireAgain` or another `FailRead`; both are counted up to `Attempts`,
and the entry a retry finds of its own is moved (`Redated`), as ZADD does.

### TerminalSession

One element of `Terminals` is one websocket. `await` is the await the endpoint
task is in; `thread` is what a worker thread (`asyncio.to_thread`) does for it, and
goes on when the task is cancelled. `permit` is what Redis counts, `mine` what
the task has in its variable: the two differ while a thread is at work, after a
lost reply, and after a cancelled acquire, which is what the cleanup has to get
right. `detached` says that the shield around the cleanup was ended.

| `api/terminal.py` | actions |
|---|---|
| accept, Direct Mode, policy | `Accept`, `Acknowledge`, `Decide` |
| `_acquire_terminal_permit` | `AcquireRuns` (the thread), `Acquired`, `Rollback`, `ReleaseRuns` |
| `_open_terminal`, telnet | `Announce`, `ReadParameters`, `Connect`, `StartShell`, `UndoShell` |
| open, relay | `ReportSuccess`, `Connected`, `RelayEnds` |
| the handlers | `TellGate`, `SendError` |
| `cleanup` | `StopRelays`, `CloseShell`, `Record`, `HangUp`, `Released` |
| `CancelledError` | `Cancel`, by where it arrives |
| the permit's ttl | `Expire` |

The gate is what `ConnectionGate` promises: a bounded number of permits that count. A permit
runs out wherever its endpoint stands (`Expire`): `core/config.py:129` makes the ttl at
least the sum of connecting, PTY and session, and counts neither the reads of parameters,
the gate's and the database's calls, the sends nor the cleanup. So an open shell can be
uncounted; what holds is that nobody gives its permit back (`ShellsAreCounted`). `Decision`
and `ReportOf(PhaseOf(...))` come from the pure modules, so a wrong mapping of a failure to
its phase shows in the session's properties.

### AssistantChat, AssistantTools and AutoApply

The endpoint calls the database without awaiting, so a step of `AssistantChat` runs from one
await to the next: a message arrives (`UserMessageArrives`, `CompactRequested`), the
provider has folded (`Folded`) or replied (`Replied`), a tool call is answered (`Called`),
or the turn is cut off (`CutOff`). A message is its role and its place; a tool result is
longer than any other message. `history` is the list that is sent: to the rounds of a turn
(`Build`, `Trim`), and, while a summary is asked for, to `_compact`'s own request
(`SummaryRequest`: instructions, the summary so far, every message that is folded from the
first one on, and the word to write it). `torn` remembers that a call lost its result or
that two turns ran at once, where the code promises nothing of what is stored. `DeviceRead`
distinguishes an error the model reads, an `AppError` that ends the turn and an exception
that ends the websocket.

In `AutoApply` a request locks the session's row (`Ask`), the commit inside `enqueue` lets
it go (`Enqueue`), the queue takes the entry (`Push`), and the count is written afterwards
from the copy that was read (`Count`). A push whose reply is lost queues an apply that is
never counted, and so does a process that dies before `Count`. `escaped` counts the applies
the count may have missed: those, and the ones of a request that was let in while another
had yet to count (not `alone`).

### Inventory

One element of `Clients` is a request or job: its reads are one step, its login
one, its writes one, because between them other clients run (`SELECT ... FOR UPDATE`
holds the row for all but the connection test, which locks it only to write). A
device's row remembers, beside what the code stores, which candidate its pin came
from, which key its login met and which pin it replaced; `heard` is what the last recorded
login came to. A test that read the row before another login was recorded is `behind`; if it
then finds what it had read, it writes nothing, and its device is `raced` until the next
recorded login.
Names, facts, interfaces and the vendor's capabilities are left out; a setup
(vendor, credential, mode) is one value, which candidates are bound to as the code's
binding digest is.

### AnalysisRuns and AnalysisInput

`Check` and `Insert` are the two steps of an exclusive `enqueue`. `session` is the one
pybatfish session `container.py` makes: `SetNetwork`, `SetSnapshot`, `Answer`, `Look`
and `Conclude` are the calls of a query, each between those of any other query, since
the endpoints run in threads. `AnalysisInput` files configurations by hostname, finds a
neighbour by the name it announced and compares the ends of a link; a record may name
either port in short, which `drift.py` does not find (`Spelled`).

### DeviceCommands and ChangeCatalogue

A device is a record of one port, its VLANs, routes and routing processes and two global
settings. `Do` says what IOS does with a line, as the renderers expect it; a router without
a VLAN database refuses the lines of VLANs (`Refused`); `Facts` what the driver reads back,
which is less: a port without a link reads as shut, only the first route of a prefix is
looked at, a trunk is in no VLAN's list. `States` is what the lines of a batch take a device
through, `Sent` where they end. `Render` has one operator for each of the twelve types,
`PostCheck` and `Risk` one case each. `Applied` is a whole apply: a batch of which some
lines arrive, the post-check, and the inverse kept from the preview. What is read back is
compared by value: that descriptions are read without the blanks around them
(`drivers/cisco_iosxe.py:828`) and compared as they are (`changes/service.py:162`), that a
next hop is compared with the stripped wish (line 136), and that a next hop may be an
interface, whose name IOS writes in full, is spelling and left out; a change that differs
from its wish in nothing else fails its post-check and is undone.

## What is checked

| run | instance | properties |
|---|---|---|
| `pipeline_safety` | 2 calls, 2 workers, 2 plans, 1 device, 2 values, 1 crash | `TypeOK`, `OneWorkerPerPlan`, `AppliedIsVerified`, `SucceededJobIsSettled`, `StrandedPlanIsReported`, `OnlyConfirmedPlansConfigure`, `ImplementsLifecycle` |
| `pipeline_live` | 2 calls, 1 worker, 1 plan, 1 drift, 1 crash, fairness | `LockIsReleased`, `AcceptedApplyRuns` |
| `gate_safety` | 3 clients, terminals and tests on one endpoint, 2 connections, 1 terminal, rates of 1, 2 failures, 2 attempts, windows of 2 ticks | `TypeOK`, `LimitsHold`, `RatesHold`, `CooldownFollowsFailures`, `NoAdmissionInCooldown` |
| `gate_live` | 2 clients, structured reads and tests, limits as small, fairness | `GateReopens`, `CooldownEnds` |
| `assistant` | a budget of 7, results of 2, 2 rounds and a final one, 3 calls, 2 at once; 2 sockets or 1; 2 requesters and an allowance of 2 | `WindowsAreLegal`, `BlocksAreLegal`, `StoredIsLegal`, `QuestionIsSent`, `AllowanceIsKept`, `TurnsEnd` |
| `inventory` | 2 clients, 2 requests, 2 devices, 3 endpoints and setups, 2 keys, 1 candidate, 1 artifact, fairness | `PinsAreConfirmed`, `RegistrationsAreTested`, `SnapshotsAreWhole`, `StatusFollowsLogins`, `RequestsEnd` |
| `terminals_and_configurations` | 1 terminal with 3 cancellations or 2 for 1 permit, fairness; 2 runs of which 1 is kept, 2 requesters, 2 queries; every input of the pure modules | `ShellsAreCounted`, `OneCancelLeavesNothing`, `LoginsAreReported`, `PermitsComeBack`, `SessionsEnd`, `ResultsAreKept`, `AnswersAreItsOwn`, `ExpiredMeansLost`, `LinksAreJudged`, `RefusedAlike`, `OnlyRefusedLoginsCount`, `ChangesAreAllOrNothing`, `LowRiskInterruptsNothing` |
| `device_lock`, `stranded_plan`, `unsent_rollback`, `terminal_job`, `repin_tested` | the smallest instance that shows it | one violated property each, see below |

Why the bounds are enough: every race of the pipeline is between two requests,
two workers or two entries of one call (two entries of one call and two workers
also give the double run of one plan); a second plan on the same device is what
the device lock is about. In the gate, two clients already race for the last
permit and count the same failures; the third makes the limit of two binding. A terminal
is counted by every kind of active set and both operations by a rate; structured reads differ from
them by having none, and two attempts are enough for one retry after a lost reply.
Symmetry is used in the safety runs only. The pipeline runs switch deadlock
checking off, because the system rests once every call has been used; the gate
never rests and is checked for deadlock.

In `terminals_and_configurations` one terminal is cancelled up to three times (the first
ends its work, the second the shield of its cleanup, the third a step of the cleanup), or
two race for one permit and one of them may be cancelled once; deadlock is not checked
because ended sockets rest. In `assistant`, the conversation outgrows the budget, so every
kind of trimming and two folds in a row happen; the scenes "one client", "two clients" and
"allowance" are disjoint, so that the two machines are not multiplied. In `inventory` two
requests are enough for one to run inside the login of the other, which is every race there
is between a read and a write; the key of a machine may change at any moment. The scenes
"analyses", "queries" and "outages" let either crossing queries or outages happen; the pure
scenes are one state per input: every SSH mode, switch and acknowledgement; every exception
with every set of markers; every port, route set and process with every change that
validates, each cut off after every line and met by every drift in `Since`. The cross
product of a device's parts is left out: a change type reads only its own.

Fairness: `Dispatch` and `WorkerStep` are weakly fair because an API thread and an RQ worker
keep running while their process lives, and a dead one is a `Crash` that the liveness
properties except. `AcceptedApplyRuns` says of an accepted apply that its plan leaves DRAFT
or its job reports a failure; a lost reply that overwrites the row is one. In the gate only
`Tick` is fair: time passes, and a caller may stop for ever between any two of its steps.
Users, devices, crashes, drift and new callers owe nothing. Of a terminal the endpoint task
and its threads are weakly fair. That is justified by a timeout for the acknowledgement,
connecting, the pty, the session and closing the shell; it is an assumption for the sends
and the close of the websocket (`api/terminal.py:492`, `515`, `722`, `743`, `764`) and for
the calls of Redis and the database, which have none: a peer that stops reading without
closing can hold its endpoint for ever and its permit until the ttl. The ttl of a permit is asked
to run out only once the endpoint is done, so `PermitsComeBack` says that no endpoint that
goes on leaves its permit to it. In `assistant` a turn is weakly fair, since the provider's
client has timeouts; users are not. In `inventory` the work of a request is: a login ends
with its driver's timeouts, and a row lock ends with its transaction.

Each property has a mutant in the module it is about (the operators marked
"Mutated form"): the property fails when the code's definition is replaced by
that form.

## Where the code and its documents differ

- `DeviceLockIsExclusive` (run `device_lock`). The phase 3 design
  (`docs/superpowers/specs/2026-08-09-phase-3-safe-configuration-design.md:377`)
  answers "Another `APPLY_CHANGE` job is active for this device" with 409, and
  `docs/safety-model.md:144` calls it the "Per-device Lock".
  `api/changes.py:162` looks and `enqueue` commits later, so two
  requests can both pass. One plan is still run once (`OneWorkerPerPlan`); two
  plans of one device can be applied side by side.
- `ApplyingPlanSettles` (run `stranded_plan`, with fairness, no crash and no drift).
  `changes/service.py:497` says of a fault "It must still end the plan: leaving it APPLYING
  means the operator's window polls a status that will never arrive", but the post-change
  snapshot at line 517 is outside the `try`. A failure at lines 414-428, 521 or 551 strands
  a plan as well. The property is stated of a change that passed its post-check.
  `StrandedPlanIsReported` is what does hold: the job says it failed.
- `NothingSentNothingUndone` (run `unsent_rollback`). Line 378 of the same design
  ends "Apply fails before any command reaches the device" with FAILED and no
  rollback; the handler at `changes/service.py:494` rolls back whatever failed.
- `TerminalJobIsFrozen` (run `terminal_job`). `repositories/jobs.py:78` and `:85`
  refuse to change a row in a terminal state; after a push whose reply was
  lost, `enqueue` fails its stale copy over the row of a job that has succeeded.
- `TrustIsTested` (run `repin_tested`). The docstring of `repin_host_key`
  (`services/devices.py:235`) says "the connection is tested with the new key before it is
  stored". `test_connection` is given the device's id, and for a registered device
  `admitted_connection` connects with the pinned key (line 638), the old one: a node
  that already has a new key fails the test, and a re-pin succeeds only while the old key is still
  presented and then stores a key no login met. `RegistrationsAreTested` is what does hold, of
  devices that are registered or updated.

These have no run of their own; they were met while modelling, and the models have
what the code does:

- The comment at `repositories/assistant.py:18-21` says of the cap on automatic applies that
  it keeps the accepted risk from being unbounded. Two requests may pass on one count, and a
  push whose reply is lost (`services/jobs.py:60`) queues an apply that is never counted, so
  more than `MAX_AUTO_APPLIES_PER_SESSION` applies can run on one acknowledgement.
  `AllowanceIsKept` bounds by how many: one for each that escaped the count.
- The request `_compact` asks the summary with (`assistant/service.py:464-489`) replays
  `stored[:fold_through]`, which may end on an announcement whose results are among the
  messages kept verbatim, followed by a user message. The providers refuse that: every turn
  that must compact first then ends in an error, until the questions that are stored
  meanwhile have moved the fold. `_trim_to_context_limit` was written not to send "what the
  chat contract rejects" (lines 163-166), and only looks at what it cuts itself.
  `WindowsAreLegal` and `BlocksAreLegal` say that this is so exactly where the fold divides
  an announcement (`Divided`), and that every other request of a legal conversation is
  legal.
- The design of the analysis
  (`docs/superpowers/specs/2026-08-08-batfish-read-only-analysis-design.md:341`) promises
  "One active analysis job at a time". `has_active` and the insert are two steps
  (`services/jobs.py:41`), and two requests may pass; `ResultsAreKept` excepts these
  (`overlapped`).
- `drift.py:9` promises to report "An interface named in an observed link" that "does not
  exist in the configuration". Ports are compared by their lower-cased spelling (lines
  27-32), and LLDP's are stored as announced (`drivers/cisco_iosxe.py:1024-1049`), often in
  short: such a port is reported although it is configured. `LinksAreJudged` has the case.
- `classify_risk` knows a default route by two spellings (`changes/risk.py:93`);
  `prefix_parts` (`changes/types.py:109-121`) also accepts "0.0.0.0/0.0.0.0", which is rated
  low. The model has one spelling.
- The smallest permit ttl (`core/config.py:129`) leaves out most of what an endpoint waits
  for, so a permit may run out under an open shell (see TerminalSession).
- `snapshot_exists` (`analysis/client.py:178`) answers "no" for any failure, so a query
  made while Batfish is down marks a snapshot EXPIRED that is still there;
  `ExpiredMeansLost` excepts outages.
- The comment at `assistant/service.py:316` says that a turn that spends its budget is
  "made to answer from what it already read". That is so for the rounds; a turn
  that reaches the cap on calls ends at once (line 381) with no answer and its
  last calls without results, as an `AppError` of a tool does. `StoredIsLegal` and
  `WindowsAreLegal` except what follows (`torn`).
- A snapshot capture acknowledges nothing of the oldest SSH mode
  (`services/snapshots.py:45`), so it and every preview of such a device is refused,
  while refresh is not (`RefusedAlike` states the difference).
- A telnet console counts as a successful login as soon as it is connected
  (`api/terminal.py:512`), before anybody has logged in.
- `TelnetTerminalSession.read` may decode a chunk to "" when it ends inside a character
  (`drivers/telnet.py:73`), which the relay takes for the end of the session; the
  comment at line 74 names that case for negotiation only.
- Several undo batches do not restore all there was, by what the preview cannot
  know: `NotFound`, `NotPutBack` and `ForgetsThePeer` in `ChangeCatalogue` name each case,
  and `ChangesAreAllOrNothing` excepts exactly these.

## What is proved

`ChangePipelineProofs`: `IInv` is inductive for any number of calls, workers,
plans, devices, values, drifts and crashes. The checked invariants are not inductive by
themselves, because they say nothing of how a row, a list entry, a request and a
worker belong together. `IInv` adds that (a row exists exactly when its request
passed the lock; an entry and a busy worker name such a request; a request names
a stored plan) and, for every worker, what its `stage` implies of its plan: its
status, whether the commands and the inverse were sent, what was seen. That a
second worker cannot enter follows from the DRAFT check, as a first worker in
flight means APPLYING. From `IInv` follow `TypeCorrectness`, `MutualExclusion`,
`AppliedPlansAreVerified`, `SucceededJobsAreSettled`, `StrandedPlansAreReported`,
`OnlyConfirmedPlansReachDevices` and `PipelineImplementsLifecycle` (every step is
a step of `ChangePlanLifecycle` under the mapping `StoredStatus`, or stutters).
They rest on `NoJobIsNotACall` and `PipelineAssumption`: the constants that mean
"nothing" are distinct from real ones.

`ConnectionGateProofs`: the invariant is that what an open `acquire` read (no cooldown, each
count below its limit) still holds as long as it is not dirty. Every step that could falsify
it, an EXEC that admits or one that closes the endpoint, dirties all transactions that watch
the key; every other step only shrinks counts (`QuietStep`). So EXEC adds one to a count
below its limit. A retry reads again (`AcquireAgainPreserves`), and a permit its client does
not know of is counted as any other (`Permitted`). `LimitsAlwaysHold` and
`ClosedEndpointsAdmitNobody` follow, for any finite number of clients and any limits, from
`GateAssumption` and `ClientsAreFinite`. A second invariant, `WInv`, is about time: a rate
window is sorted by age and reaches no further back than the expiry allows
(`WindowsAreSorted`); an open admission or failure report that is not dirty has counted what
is in the window still (`FreshAdmissions`, `FreshFailures`), so the one it adds is below the
limit or starts the cooldown; and a cooldown lasts as long as the failures that caused it
(`CooldownsLast`). Trimming a window cuts its old end off (`Older`, the part after the first
young entry), which keeps it sorted; so does a retry, which moves the entry it finds of its
own to the end (`RemovingKeepsOrder`, `RedatedComesLast`, `AcquireAgainKeepsWindows`). From
`WInv` follow `TypeCorrect`, `RatesAlwaysHold` and `FailuresCloseEndpoints`.

`TerminalSessionProofs`: the checked invariants do not say who will give a permit back.
`IInv` adds the custody of a permit: it is the task's (`mine`), or a thread's that acquires
or releases, or nobody's any more after the gate failed or a second cancellation; and what
each `await` implies of shell, relay and thread. A cancellation moves a permit from one keeper
to another and never drops it while `detached` is FALSE; a ttl that runs out anywhere
changes nothing of who would give it back. From it follow `ShellsCounted`,
`OneCancelIsCleanedUp`, `LoginsReported` and `TypesHold`, for any finite number of
terminals, any number of permits and cancellations, from `TerminalAssumption`.

`InventoryProofs`: a request reads, logs in for seconds, and writes what it then
believes; `IInv` says why that is safe at every stage. A request that will write a row
holds its lock from the read on (`Held`), the id of a device that is being registered
is nobody else's (`Claimed`), the login is tried with the candidate's key for as long as
the candidate can be resolved, or with the pin a re-pin replaces (`Meant`), and a test
knows the status of its device unless it is `behind` (`Current`). `OthersKeep` states once
what a step must leave alone for the invariant of every other request to survive. From
`IInv` follow `PinsConfirmed`, `RegistrationsTested`, `SnapshotsWhole` and `StatusFollowed`, for
any number of devices, keys and requests, from `NothingAssumption`: the constant that
means "nothing" is no device, client, key, row or candidate.

`AssistantProofs`, of the chat: that what is sent keeps the contract of the chat APIs
says nothing of how it came to. `ChatInv` adds that stored messages know their places
(`Placed`); that unless `torn` one turn runs at a time (`OneTurn`), what is stored is legal
between calls (`Settled`), and during them legal but for the last announcement, which is
answered up to `next` (`HalfAnswered`); and that a turn has its question in what it sends
(`TurnInv`). The heart is that `Trim` of any conversation is a window of it, with or
without the instructions, that begins with no orphaned result and contains the newest
question: a legal conversation can be cut there (`Replayable`, `WindowIsLegal`). A request for a
summary is such a window of what is folded (`Excerpt`), which ends where the fold does: it is legal
exactly if no announcement that is sent has results beyond (`ExcerptIsLegal`, `Cut`). From it
follow `StoredAlwaysLegal`, `WindowsAlwaysLegal` and `QuestionAlwaysSent`. That the window
is legal is not enough for Anthropic, whose blocks carry exactly the results of the calls
before them: a window could be legal with a result too many. `CopyInv` excludes that, torn
or not: what is sent are copies of stored messages, and every stored result is numbered
within the calls of its announcement. From both follows `BlocksAlwaysLegal`; the messages
that `Spoken` keeps are counted by their rank (`Rank`, in `SequenceLemmas`). All hold for
any number of websockets, any budget, window and round limit, from `ChatAssumption`.

`AssistantProofs`, of the allowance: the row lock is let go by the commit in `enqueue`,
before the count is written, so any number of requests may stand between the two.
`AllowanceInv` says that whoever is about to queue knows the count (`Alone`), that of those
that have yet to count one at most was let in alone, and that the applies, with the one that
request will queue, are no more than are allowed, are counted or will be counted by any of
those, beyond the ones that escaped (`Counted`); `AllowanceKept` follows for any allowance,
from `AllowanceAssumption` and `NobodyAsks`.

`ConfigurationsProofs`: the scenes with one input keep it, so what is asked of it is shown
once. `LinkIsJudged` is about a network of any size in which no two analysed devices share a
hostname: the record of a neighbour makes one edge, the two configurations found under its
names are those of the link's ends, and each branch of the drift check says what the ports
alone say; a port that is named in short is unknown; `LinksAreAlwaysJudged` is its case of
two devices. `OnlyRefusedLoginsEverCount` holds for every set of markers a message may
contain: whatever marker is found first, its failure is not the login's.
`RefusedAlikeAlways` compares the three copies of the policy. These need no assumption on
constants.

`ConfigurationsProofs`, of the changes: `ChangeIsWhole` and `ChangeInterruptsNothing` are
about every configuration a device can hold (`WellFormed`), not only the instances: any
VLANs, routes, processes, statements and words, with what the running configuration itself
guarantees, that a prefix and a hop make one route, a process has one version line, and a
peer one AS; of a change of a trunk they assume a device with VLANs, as one without them has
no administrative mode that would be accepted. A device without VLANs refuses the lines of
one (`NoVlans`), so a change that names one leaves it as it was (`VlanRefused`). The lines
of a batch take the device through `States`, a recursive function. That it exists, that a
part of a batch does what the whole does up to there (`SentInPart`), and what a whole class
of lines never touches (`BatchKeeps`: the routes, the processes and, unless a line sets it,
the port), is shown of batches of any length by the least length at which it would fail.
Then each change type has its lemma (`...Whole`): the states its lines lead through, what
its inverse makes of each of them, and that the post-check finds the last; a refused line (a
router asked for layer 2) ends the batch where it is (`AccessWhole`). What was read at the
preview is all that is kept of it (`PreviewReads`), so a device that reads the same at the
apply is undone as if it were the same; `SinceIsWellFormed` and `DevicesAreWellFormed` say
that the instances are such configurations, and `ChangesAlwaysAllOrNothing` and
`LowRiskNeverInterrupts` follow.

`AnalysisRunsProofs`: rows are made in order and the worker is at the newest, which is
why pruning never takes the result it has just stored (`NewestStays`, by the cardinality
of a singleton); and a query that no other crosses finds the session as it has set it
(`Own`). From `IInv` follow `ResultsKept`, `AnswersOwn` and `ExpiredLost`, for any number
of requests, queries and rows, from `AnalysisAssumption`.

`CASE` in TLA+ picks any guard that holds, where TLC takes the first. The operators proved
about therefore have guards that exclude each other, or the `if ... elif` of the code as
`IF ... ELSE IF`: `Translate`, `Disagree` and `Do` have an early branch that the later
ones overlap.

Only model-checked: liveness (`LockIsReleased`, `AcceptedApplyRuns`, `GateReopens`,
`CooldownEnds`, `PermitsComeBack`, `SessionsEnd`, `TurnsEnd`, `RequestsEnd`), as the
prover has no rule for fairness here. Every other property of a passing run is a theorem.

## Not modelled, and the plan

In this order:

1. Startup configuration and `save_running_config` in `ChangePipeline`: it takes neither
   the device lock nor the plan's row.
2. The Telnet reader as a function of how its bytes are split over reads.
3. The frontend's USB transport (open and close races of a port that is one
   per browser) and the loop of Auto mode in `useAssistantChat.ts`.
4. Discovery's thread pool, which keeps no state, and first-run setup, which has one
   step that changes any.

Further theorems planned: that `Dispatch` stores a result for every call but those that
end a turn; what `Refusal` and `Members` say of every registered device.

Left out for good: credential and provider rows, which are plain create, read,
update, delete; encryption and tokens, which are pure functions of secrets;
sanitizing and the command blocklist, which are about text; the parsers of the
providers' streams; rendering in the frontend; deployment beyond the restart policy
and the number of workers; the wording of audit records.
