# A verification of the Num runtime

`num` is a language toolchain in Rust: a compiler (`num-compiler`), a runtime
(`num-runtime`), a command line (`num-cli`) and a language server (`num-lsp`).
Much of it is sequential code over trees and texts, which tests reach well. What
tests hardly reach is the rest: durable workflows, where several worker processes
share directories of files, nothing but the atomicity of single file-system calls
orders them, and any of them may be killed between two calls; the executor of
single actions, which promises replay instead of repetition under the same
conditions; how the interpreter unwinds budgets, scopes, sagas and stores of
records when something nested in them fails; what the checker knows on each path
of a body; and the places where a command meets the world: child processes, HTTP
clients, git, a registry and an artifact directory that a kill can leave half
written. Those are modelled here, the durable workflows first and in most detail.

Paths below are relative to `src/language/crates/`; `RT` is `num-runtime/src`,
`CM` is `num-compiler/src`, `CLI` is `num-cli/src`.

## 1. Inventory

| Component | State it keeps | Operations | Interacts with | What makes it correct | Module |
|---|---|---|---|---|---|
| Lease queue, `RT/events.rs` | event files, lease files, dead letters in one directory | enqueue, dequeue, claim (recover expired, pick, rename, stamp), ack, fail, heartbeat | worker, command line | no event lost but by a kill inside the rewriting of its lease; one claimant per file; dead only when exhausted; every event settles | `LeaseQueue`, `PlainDrain` |
| Worker, `RT/worker.rs` | none of its own | `drain` (at most once), `drain_leased` (at least once) | queue, engine | an acknowledged event was applied; a replay is not a failure | `DurableWorkers`, `PlainDrain` |
| Lifecycle engine, `RT/engine.rs`, `RT/tenant.rs` | none of its own | start, wait, resume, complete, fail, compensate, cancel; each plain, `_as` a tenant, and `_for_event` | store, audit sink | permitted transitions only; ended stays ended; one audit line per event; tenants apart | `WorkflowLifecycle`, `WorkflowEngine` |
| State store and audit sink, `RT/storage.rs` | workflow files, audit lines | load, save (temporary file and rename), append | engine, reports | a save is all or nothing | `WorkflowEngine` |
| Action executor, `RT/execution.rs` | idempotency records | execute with retry, timeout, replay, cost | interpreter, cost ledger | a recorded success is not run again; what is repeated was late or not recorded; attempts run out | `ActionExecutor` |
| Interpreter and cost ledger, `RT/interpreter.rs`, `cost.rs` | scope stacks, budget scopes, saga flag and compensations, records | run workflow, route and test; statements; calls of functions, workflows and actions | everything in the runtime | scopes balanced on errors; budgets hold for what is nested; compensation newest first, once, its own only | `Runtime` |
| Rate limits, `RT/rate_limit.rs` | windows, in memory or in a shared file | check | interpreter, service | a refusal is earned; at most twice the limit over two windows | `RateLimit` |
| HTTP service, `RT/http.rs`, `service.rs`, `session.rs`, `jwt.rs` | open connection | serve loop, route, session | interpreter, audit sink | who asks politely is answered; who is refused at the door had no effect; any other answer is on record | `HttpService` |
| Process connectors, `RT/process_connectors.rs` | child process, pipes | call with timeout | executor | a call ends; an answer is whole; no child left | `ProcessConnector` |
| Values and data libraries, the other files of `RT` | none | conversion, formats, hashing, encryption, redaction | everything | data correctness | `CivilDates`, `Decimals` |
| Reports and metrics, `RT/*_report.rs`, `metrics.rs` | none | aggregate | files the others wrote | read-only | |
| Compiler, `CM` | none across runs | lex, parse, collect imports, check, lower, format, lint | command line, language server | what the checker accepts does not fail that way at run time; imports complete and in order | `FlowChecks`, `ImportGraph` |
| Language server, `num-lsp/src` | open documents | one message at a time | compiler | the last text wins | |
| Registry, packages, `CLI/registry.rs`, `package.rs` | registry and install directories, lock file, git checkouts | publish, install, lock, lock --check; clone, fetch, checkout | file system, git | what an undisturbed install puts in place is what it validated; a pin stays a pin | `PackageRegistry`, `GitCheckout` |
| Deployment, `CLI/deploy.rs` | artifact directory | materialise, replace | file system | a manifest stands for a whole artifact | `Deployment` |
| Version upgrade, `CLI/version_upgrade.rs` | manifests | rewrite a graph of manifests | file system | versions resolve afterwards | `PackageRegistry` |
| Workflow command line, `CLI/workflow_cli.rs` | none | starts the processes of the first three rows | queue, worker, engine | event ids unique | |

How the first four rows interact: `num workflow enqueue` writes an event file.
`num workflow drain` runs `drain_leased`: until its limit is reached it claims an
event, which first requeues or buries the expired leases of others; it passes the
event to the engine, which loads the workflow file, returns at once if the
workflow remembers the event id, checks tenant and transition, saves, and appends
to the audit log; and it acknowledges the event or reports it failed, which
requeues or buries it. `num workflow lease-heartbeat` is a further process that
rewrites a lease. Everything is shared through files: there is no lock, no
message and no daemon. The other rows meet through calls: the service runs a route
in the interpreter, which calls actions, which call connectors, and every command
loads its program through packages and imports.

The hard behaviours are interleavings of processes at single file operations,
kills between two of them, leases that expire in the hands of a worker that is
still at work, redelivery, errors that unwind what was nested by hand, and
partners that stop answering. `PROJECT.json` lists them one by one under
`hazards`, each with the properties that would catch it.

## 2. Modules

| Module | What it is |
|---|---|
| `LeaseQueue` | the queue directory and `drain_leased`, one action per file operation, with the result of applying an event left open |
| `WorkflowLifecycle` | what the engine promises: each request is one atomic permitted transition, or nothing |
| `WorkflowEngine` | the engine over the store and audit log, one action per file operation, and its refinement mapping to `WorkflowLifecycle` |
| `DurableWorkers` | `LeaseQueue` and `WorkflowEngine` composed, a worker being a worker of the one and a process of the other |
| `PlainDrain` | the loop without leases, over the same directory |
| `ActionExecutor` | one action call over the file of idempotency records: cost, lookup, attempts, timeout, save |
| `Runtime` | one run of a program: the stack of constructs and what each saves, changes and restores |
| `FlowChecks` | the checker's knowledge along a body, beside a run of the same body |
| `ImportGraph` | the walk over `use` declarations, against the graph |
| `CivilDates`, `Decimals` | calendar and decimal arithmetic, against counting and against integers |
| `RateLimit` | one shared window and the processes that check it |
| `ProcessConnector` | one call: caller, child, pipes, timeout |
| `HttpService` | the serve loop and its clients |
| `PackageRegistry` | publish, install, lock and upgrade of one package |
| `GitCheckout` | one git dependency, the processes that resolve it, and origin |
| `Deployment` | the artifact directory |
| `LeaseQueueProofs`, `WorkflowEngineProofs`, `ActionExecutorProofs`, `RuntimeProofs` | theorems about the module of that name; those about `WorkflowLifecycle` are in `WorkflowEngineProofs` |
| `DurableWorkersProofs` | theorems about the composition, from those about its parts |
| `WorkersProofs` | theorems about `DurableWorkers` and `PlainDrain`, in the settings `MCWorkers` gives them |
| `LanguageProofs` | theorems about `FlowChecks`, `ImportGraph`, `CivilDates` and `Decimals`, in the setting `MCLanguage` gives them |
| `SurroundingsProofs` | theorems about `RateLimit`, `ProcessConnector`, `HttpService`, `PackageRegistry`, `GitCheckout`, `Deployment`, as `MCSurroundings` puts them side by side |
| `MC*` | the instances TLC checks |

### `LeaseQueue`

A file is a record: its prefix (`seq`), its event, the attempt count, and for a
lease its owner and whether it is older than `lease_ms` (`stale`). A lease whose
`owner` is `Nothing` is a file that was renamed into `leases/` and not yet
rewritten with its metadata. `torn` has the paths of the leases that were opened for
writing, which empties them, and not yet written. `pc[w]` says where a worker stands in `drain_leased`
and in the `claim` it called, `todo[w]` holds the lease paths its recovery scan
listed and has not read, `held[w]` the item it works on; all three vanish with the
process. The actions follow the code's file operations:

- `Enqueue`: `enqueue`. The temporary file and its rename are one step, since
  `next_event_path` takes only names that end in `.json`.
- `StartClaim`, `SkipLive`, `FindExpired`, `AbortScan`, `Recover`, `Unlink`,
  `AbortUnlink`: `recover_expired_leases`, which lists the lease directory, reads
  what it listed, writes a copy or a dead letter for each expired lease and removes
  the lease. A listed file that is gone when it is read or removed makes the whole
  claim fail (`?`), and the drain with it.
- `Pick`, `PickNothing`, `Rename`, `LoseRename`, `Truncate`, `Stamp`: the rest of
  `claim`. The last two are the two calls of `fs::write` in `write_leased_item`: a
  worker killed between them leaves an empty lease, and the event is gone.
- `ApplyOk`, `ApplyErr`, `Ack`, `Fail`, `Drop`: the rest of `drain_leased`.
- `HeartbeatRead`, `HeartbeatTruncate`, `HeartbeatWrite`: `heartbeat_lease`, run by
  another process. Its opening of the file puts back a lease that was removed since it
  was read; its write goes to a file that may have been removed since it was opened.
- `Crash`, `HeartbeatKill`, `Expire`: kills, and the passing of time.

`sent`, `applied`, `deliveries`, `lapsed` and `emptied` are history: no guard reads
them, but that each event id is enqueued once. `emptied` has the events a lease of
which was left empty by a kill.

### `WorkflowLifecycle` and `WorkflowEngine`

The workflow state keeps what the engine decides by: status, processed event ids
(`marks`) and tenant. `WorkflowEngine` has the file (`store`), the temporary file
(`tmp`), the lines of the audit log by workflow (`audit`), and for each process
where it stands (`at`), the request it serves and the state it is about to save.
A request is one of the seven kinds, queued or direct, with or without a security
context. `Call` enters a method; `Guard` is the load of the tenant check;
`LoadForStart`, `Reload` and `LoadForTransition` are the loads the decisions are
made on; `Write` and `Rename` are `save_workflow`; `Audit` and `AuditError` are the
append. An audit line keeps the kind of the request, and as history its event id.

The refinement mapping takes `store` as it is and `audit` with the line owed by a
process between its rename and its append. Under it the rename is the transition
and every other step is a stutter.

### `DurableWorkers`

While the queue module waits at `apply`, the engine module serves the request the
event stands for: `Deliver` is the end of `claim` and the call of `apply_event`,
`Finish` the return of that call and the choice between `ack` and `fail`, and
`Crash` stops both. The history variable `applied` is set by `Finish` only when
the engine returned `Ok`.

### `ActionExecutor`

Each executor is a process with a `FileIdempotencyStore` on the same root; `at[p]`
says where it stands in `execute`, and a call it serves has a key or none, a number
of attempts, a time limit or none, and a cost within its limit or not. `Begin` is
`enforce_cost` and the choice whether there is a record to look up; `Load` the
lookup; `RunInTime`, `RunLate` and `RunFails` one attempt with what the match makes
of it; `Write` and `Rename` are `save`; `SaveFails` an error of either. The operation
itself is outside: all that is kept of it is that it took effect (`effects`), and
what it returned. A timeout is noticed after the operation returned, so `RunLate`
takes effect and counts as a failure that may be retried.

What a saved value reads back as is the constant `ReadBack`: a secret comes back as
the redaction marker, null not at all. A value that was replayed and one that was
computed are therefore equal only up to `ReadBack`, and `RepliesAgree` says that.

`effects`, `lost` and `replies` are history. `lost` counts the successes that were
late and those that a kill or an error of the store kept from being recorded.

### `PlainDrain`

`drain` lists (`List`), reads (`Read`) and removes (`Remove`) the first file and
then applies it; the removal is what only one worker can do, and a kill after it
loses the event. `before` remembers what was in the queue when an event came, which
is what the order of deliveries is stated with.

### `Runtime`

The program is left open: wherever the interpreter evaluates a next statement, any
statement may be it. `stack` is the Rust call stack reduced to the constructs that
save something: a frame keeps the locals of `exec_stmt` or of the call (`was`, `pre`,
`todo`, `kept`, `tries`, `limit`), and as history what there was when it was entered.
`failing` says that an error is on its way up. So `FailBlock` is the `?` that leaves
an `if` or a `match` before `pop_scope`, `FailSaga` the restoration of the flag and
the splitting of the list, and `Perform` and `Leave` the taking away and putting back
of the idempotency store around an action. Costs are amounts of one currency.

What the model shows of the code, besides its properties: the cost of an action is
charged after its effect, and if an action it called spent the money meanwhile the
charge is refused and the effect stays; a route that fails never compensates, only
workflows do; a workflow that fails runs its compensations from a copy and leaves the
list as it was; a replay inside a saga registers the compensation again; the key does
not contain the name of the action; and the command line makes a new `Runtime` for
each run, so without a store keys do not outlive it.

### `FlowChecks` and `ImportGraph`

A behaviour of `FlowChecks` writes a body statement by statement. A block is an
environment of the checker and a scope of the interpreter at once: what the checker
knows (`env`), whether every path ends (`ends`), whether the run is in it (`live`), what
the variables it sees hold (`holds`) and which of them it declared itself (`own`);
`left` is the run's. `Let` declares a variable, which may hide one of the name, `Assign`
resets what the innermost block knows and changes the variable where it was declared.
A `transaction` is the exception: the interpreter opens a scope for it, the checker
goes on with the environment around it, so `EndTransaction` keeps what was learnt and
drops what was declared. Two histories name what the checker gets wrong:
`outdated`, learnt before an inner block assigned the variable, and `leaked`, learnt of
a variable that a transaction declared. `Implied` is `option_checks_implied_by`, with
its rules for `!`, `&&` and `||`. The rest of the type system is not in it.

`ImportGraph` starts from any files, paths and `use` lines; the walk is
`collect_imports` with its own stack and `visited`, and the properties compare what it
collected with reachability in the graph.

### `CivilDates` and `Decimals`

Both translate closed formulas and check them against a definition that counts:
the days of each year by the table of months the parser uses, and the operations on
decimals as equations between integers. The width, 2^127 - 1, and the precision, 9,
are constants of `Decimals`; overflow is at `MaxCoefficient`.

### `RateLimit`, `ProcessConnector`, `HttpService`

`RateLimit` has the file, the temporary file that all processes share, and for each
process the time it took and the window it is about to write. The time is taken before
the file is read, so a process may decide by a time that has passed.
`ProcessConnector` has both pipes with their capacity, and a child that reads, writes and
exits in any order it likes; an heir is a process the child left behind with the pipes
open.

In `HttpService` each client has a manner: a whole request; the same, and gone before the
answer; one that cannot be parsed; one whose Content-Length is no number, which like a
request that breaks off or exceeds a limit is an error of `read_request` and ends the
server (`ReadFails`); silence. The checks before the route, the route, the record and
the answer are steps in the code's order. Refusals `AtTheDoor` are those
by the request itself: unparsed, refused for its token or its body, or of another tenant.
Everything else is classified as `classify_route_error` does it, by the error that the
interpreter noted last and then by the text of the message, so an error inside the
body (`FailInside`), after its effects, may get the answer of one before it (`FailEarly`):
a 404 or a 429 does not say that nothing happened. `recorder` says whether audit events are
written to a file; without one, or with one that prints, nothing is kept.

### `PackageRegistry`, `GitCheckout`, `Deployment`

Each is a sequence of operations on files that may be stopped between any two, and
be started again.

A package is the revision of each of its files; its hash is that function, so hashes are
equal exactly if the files are. Commands are processes that overlap freely, two publishes
or a publish and an install among them, and may be killed inside the writing of a file
(`HalfWritten`), which leaves a file that is cut or metadata that is garbled. An install
never reads `num.lock`, as in the code: what keeps it to the lock, if anything, is that
nothing was written since `lock --check`. `made`, `torn`, `dirty`, `drifted`, `upgraded`,
`checked` and `overlapped` are history, and say what a property excepts.

In `GitCheckout` a git command is a step and does what git does: `checkout <branch>` takes
the local branch, which only the first checkout made from origin's, and `origin/<branch>`
is tried when that fails (`SelectAgain`). A checkout or a fetch may fail because another git
holds the lock file it needs, or was killed and left it (`left`); `is_ok()` takes a
failed checkout of a revision for one that is not there, and fetches. `since`, `cached` and
`alone` are history.

In `Deployment` the files from memory are of the version that was loaded, `num.toml` and
`num.lock` of the version on the disk at the time they are copied.

## 3. Runs

| Run | What it shows |
|---|---|
| `lease_queue` | two workers, one event, two attempts, one kill of a worker or a heartbeat anywhere, one heartbeat: no event is lost but by a kill inside the rewriting of its lease, none buried early, a lease file has one claimant, two deliveries overlap only after an expiry, and unless a kill left a lease that cannot be decoded the directories are eventually empty, so that every event is applied or dead-lettered |
| `lease_queue_poisoned` (violation) | with a kill between the rename and the end of the rewriting, no event is: the lease it leaves makes every later claim an error |
| `workers` | four settings. *engine*: two processes, never both on the same workflow, killed anywhere before the rename, implement the atomic lifecycle, and tenants stay apart. *restarted*: one worker, killed twice anywhere and run again, two events of one workflow: what it acknowledged is marked, nothing is audited twice, a delivery of an applied event never counts as failed. *sharded*: two workers on events of different workflows, appends that fail: they never meet in the engine. *plain*: two plain drains, three events, one kill: once, in order, lost only by the kill |
| `engine_concurrent` (violation) | two processes on one workflow overwrite a terminal state |
| `workers_duplicate` (violation) | one expired lease recovered by two workers is applied and audited twice |
| `action_exclusive` | two executors, never both under one key, killed anywhere, saves that fail: replies under one key agree, nothing runs after a reply, an effect is repeated only after a success that was late or not recorded, and every call ends |
| `action_null` (violation) | a success that returned null is recorded as a kind the reader does not know: every later call under its key is an error |
| `language` | five settings. *run*: every run of up to five constructs, four deep, with three actions and two budgets. *check*: every body of up to four statements, three deep, over an Option, a Result and an enum of two. *imports*: every graph over three files and three paths. *dates*: every day of 1899 to 2001. *amounts*: every pair of decimals with coefficients up to 12 and scales up to two, and two operations in a row |
| `success_not_repeated` (violation) | an action called by an action repeats a success that was recorded |
| `flow_available` (violation) | `option.value` is accepted after an inner block assigned None, and after a transaction checked another variable of the name |
| `surroundings` | six settings, one for each module from `RateLimit` to `Deployment`: processes that overlap, partners that hang, break off or are gone, and kills between and inside the writing of files |
| `git_branch` (violation) | a dependency on a branch stays at the commit of the first clone |

`workers`, `language` and `surroundings` check components that share nothing, or do
not run at the same time: the initial state says which one runs, and nothing else
changes. Each property of such a run is about one of its settings. Some of them are
conjunctions of parts that are defined, and explained, one by one in the module:

| Property | Parts |
|---|---|
| `RestartsAreSafe` | `AckedIsMarked`, `OneEntryPerEvent` of `DurableWorkers` |
| `DrainsHandOver` | `HandedOnce`, `HandedInOrder`, `LostOnlyByKill` |
| `BudgetsHold` | `WithinBudget`, `BudgetsBalanced` |
| `CompensatesItsOwn` | `UndoesNewest` of each step, `UndoesItsOwn` and `SagaFlag` of each state it leads to |
| `ImportsInOrder` | `VisibleIsReached`, `UsesComeFirst`, `DuplicatesAreReal`, `UnknownIsReported` |
| `DatesAreDays` | `DatesAreCounted`, `DaysAreDates`, `ShiftsReturn` |
| `AmountsAreExact` | `ResultIsExact`, `EqualIsIdentical`, `QuotientIsTruncated`, `RoundsHalfAway` |
| `LimitIsKept` | `RefusalIsEarned`, `AtMostTwice` |
| `ChildIsCollected` | `OkIsComplete`, `NoneLeftBehind` |
| `CallsReturn` | `TimedCallsReturn`, `AnswerArrives` |
| `AnswersAreTrue` | `RefusedHasNoEffect`, `AnswerIsAudited` |
| `InstalledIsTrue` | `InstalledIsPublished`, `InstalledIsLocked` |
| `PinHolds` | `PinIsCached`, `PinIsExact`, `RecordedIsUsed` |
| `ArtifactIsWhole` | `ManifestMeansWhole`, `ReportedIsWhole` |

### Bounds

- Two workers: a worker interferes with another through the directory only, and
  every hazard listed involves a lease's claimant and one other process.
- One event in the queue's runs: files of different events have different paths,
  and the code relates files only by path and by name order. Copies of one event
  made by recovery and by failing workers are what can go wrong, and the runs have
  several of them. The settings of `workers` have two events, or three.
- `MaxAttempts = 2` gives a first delivery, a redelivery and exhaustion.
  `MaxCrashes` (which counts killed heartbeats too), `MaxHeartbeats` and `MaxCalls` bound how often the environment acts,
  not what the program does; four calls are enough for a start, a transition, a
  replay and a conflicting request. The worker settings set `MaxCalls` out of reach.
- The clock and the attempt counts need no bound: attempts end at `MaxAttempts`
  and every prefix drawn belongs to an enqueue, a failed delivery or a recovery.
- *engine* kills only before the rename and lets no append fail: a kill after it loses
  the audit line for good, since a redelivered event is a replay, and the lifecycle
  would not be implemented. *restarted* kills everywhere. *sharded* kills nobody: two
  workers that recover the lease of a killed third can both put its event back
  (`workers_duplicate`).
- The executor's run has two keys and three calls: a call that succeeds late or is
  killed, one that repeats it and one that finds the record; and calls without a key,
  over their cost limit, with a limit of nothing, and with zero attempts asked for.
- `MaxDepth = 4` and `MaxSteps = 5` admit a saga in a function in a saga with an action
  in each, a retried action that calls another, and a budget in a budget. The actions
  are one with a key, a cost, a retry and a compensation, one that may time out, and
  their compensation, which has none itself.
- Bodies of four statements in three blocks have a condition, an assignment inside it
  and a read after it. A body the run has left is not continued, for no property says
  anything of it.
- Three files have chains, diamonds, cycles and a path without a file. One
  representative is taken of programs that differ in names only, and the last file
  has at most one `use` line.
- 1899 to 2001 has the end of a century without a leap day, the end of a 400-year
  cycle with one, and the epoch with days on both sides.
- A pipe of two units and requests and replies of up to three have each case: fits, just
  fits, does not. A window of two ticks, a limit of two and five requests cross two
  window ends. Two clients of a server that ends after two requests: both are answered, or
  the other ended it. Two registry commands and four runs, where one that is started
  beside another counts double: a publish, a lock, a check and an install in a row, or a
  publish and an install that meet, after a publish; one edit or upgrade between any two steps. Three
  revisions pushed while two processes resolve; two versions of a project.
- Deadlock checking is off where a system really may stop: its bound on calls, steps or
  runs is used up, its body is complete, its server was stopped. In the others a
  worker can always start a claim.

### Fairness

`FairSpec` of the queue assumes that each worker that can take a step does (a drain that
ended is started again, as `num workflow drain` is meant to be run repeatedly), that a
heartbeat process that is not killed goes on (a kill inside its rewriting is one of the
kills the model has), and that time passes, so a lease
that stays unrefreshed expires. Nothing is assumed of enqueuers, kills or new
heartbeats. Weak fairness is enough: a worker's next step is never disabled by
others, since each look at the directory has a continuation for every outcome.

For the executor `FairSpec` assumes that a process that is not killed goes on and
that operations return: one that hangs hangs its call, because nothing interrupts it.
In `surroundings` the caller of a connector goes on, its timeout passes, and a child
does not pause for ever unless its call says that it hangs; the server goes on.

`CallsReturn` holds for a request that fits the pipe. A larger one is written before the
timeout starts, and a child that fills its own output meanwhile waits for the caller for
ever; so does a caller whose child leaves a process behind that holds the pipe.
`PoliteAreAnswered` needs that every client sends a whole request with a length that can be
read, parsable or not, and waits for its answer. A silent one blocks the server; one that
breaks off, exceeds a limit, sends a Content-Length that is no number or is gone when it
is answered ends it, and those behind it are not served.

## 4. Proofs

TLAPS checks the following for every value of the constants that satisfies the
assumptions named: every number of workers, events, attempts, kills, heartbeats, and
every set of requests, workflows and tenants; every program, file and client. Every
invariant was run through TLC, on the instances of section 3 (with ranges of numbers where
it quantifies over all of them).

`LeaseQueueProofs`, from the queue's assumption on its constants:

- `TypeCorrect`: the type invariant. It is inductive.
- `ClaimsAreExclusive`: one claimant per file. The strengthening says that prefixes
  are unique below the clock, and that the file a claimant holds is no longer in the
  queue, so a second rename cannot succeed.
- `DeadLettersAreExhausted`: the attempt count of every file, of every item a
  worker holds and of the lease a heartbeat read is at most the number of
  deliveries of its event; a dead letter is written only from an item that reached
  the limit.
- `NoEventIsLost`: a file is removed only when its event is settled or carried by a
  younger file, so one is always named after it (`Tracked`); and an empty one is about to
  be written, or a kill emptied it (`TornInv`). The strengthening records, for each label at
  which a worker is about to remove a file, why the removal is covered (`CoverInv`).
- `OverlapsFollowExpiry`: an event no lease of which has run out, under a live worker or a
  dead one's, is carried by one file of the queue or by one worker that may still apply
  it or put it back, never by two (`OnePlaceInv`); what recovery copies had a lease that
  ran out (`StaleInv`).

`WorkflowEngineProofs`, from the engine's assumption, which implies the one of
`WorkflowLifecycle`:

- `TypeCorrect`, under every interleaving.
- `EngineImplementsLifecycle`: `ExclusiveSpec => Lifecycle!Spec`, if the append
  cannot fail and a process is not killed between its rename and its append. The
  inductive invariant says that the state a process is about to save was made from
  what is stored now (`DraftsAreCurrent`), that the temporary file is that state
  (`TmpIsDraft`), and that only starts load twice. It needs `Exclusive`: without it
  the runs `engine_concurrent` and `workers_duplicate` show how it fails.
- `TerminalIsFinal`, `AuditedOnce`, `TenantsAreIsolated`: from the same invariant,
  with kills and failing appends anywhere.

- `AnswersAreRemembered`, `RefusalsAreNew`: what a caller may conclude from the answer.
  They are what the workers need of the engine.
- `TrailIsHistory`: in the abstract specification an event has at most one entry in the
  audit trail, and the trail replays to the stored status. The invariant adds that the
  events in the trail are those that are marked (`TrailIsMarked`), so that a replayed
  request, which is refused for its mark, cannot add a second entry.
- `AuditReplays`: the trail of the engine replays as well, between the save of a status
  and its audit line. No invariant of the engine is needed for it: it follows from
  `EngineImplementsLifecycle` and `TrailIsHistory`, under the hypotheses of the former.

`DurableWorkersProofs` is compositional. Every step of a worker is a step of the queue or
leaves it alone, and a step of the engine or leaves it alone (`QueueIsImplemented`,
`EngineIsImplemented`), so the theorems about the parts hold of the whole: `QueueIsKept`
has those of the queue. What neither part says alone needs the invariant that joins them
(`Joined`): the engine serves the event the queue's worker holds, exactly while the worker
waits at `apply`.

- `AcknowledgedIsRemembered`: what is acknowledged is marked, and audited once, if one
  worker at a time works on a workflow. Two workers under one recovered event break it:
  `workers_duplicate`.
- `RestartsAreSafe`, `ProcessedIsNoFailure`, if there is one worker (`Alone`), for then
  nothing else need be assumed; the second if the audit log can be written, since an
  append that fails is reported as the failure of an event that is marked.
- `ShardsNeverMeet`, `ShardsAreSafe`, for workers whose events belong to different
  workflows (`Sharded`), if nobody is killed and no lease runs out in the hands of its
  worker (`TimelySpec`). The invariant: every lease is in the hands of a worker, and none
  is stale, so nothing is ever recovered and no event has a second copy.

The theorems assume `Suited` of the constants, the assumptions of both parts; TLC
evaluates it, with `Alone` and `Sharded`, for the instances of `workers`.

`WorkersProofs` is about `PartsSpec` of `MCWorkers`, the specification the run `workers`
checks:

- `RestartedWorkersAreSafe`, `ProcessedIsNeverFailed`, `ShardedWorkersNeverMeet`: the
  theorems `RestartsAreSafe`, `ProcessedIsNoFailure` and `ShardsNeverMeet` above,
  transferred to the settings *restarted* and *sharded*. `MCWorkers` instantiates
  `DurableWorkersProofs`, so its theorems come with the instance. What is proved anew: the
  constants of each setting meet the hypotheses (`Suited`, `Alone`, `Sharded`), the initial
  states of the setting are initial states of the composition, and every step of the
  setting is one of its steps.
- `DrainsAlwaysHandOver`: `PlainDrain`, for any number of drains, events and kills. The
  invariant (`DrainInv`): an event has at most one file, whose prefix no other has, and was
  not handed over as long as the file is there (`FilesAreNew`); a file that a drain has
  chosen will not get its name again once it is gone (`ChosenWereQueued`), so a
  removal that succeeds removes what was read. For the order: what was in the queue when an
  event came has been handed over or still stands in front of it, and has been handed over
  once a drain chose its file (`EarlierInFront`).

`ActionExecutorProofs`, from `ExecutorAssumption` (reading a value back twice gives
what reading it once gives, and the markers are distinct):

- `TypeCorrect`, under every interleaving.
- `RepeatsExplained`, `RepliesAlwaysAgree`, `ReplyIsFinal`, if one executor at a time
  works under a key. The inductive invariant: an executor past the lookup has seen no
  success, and there still is none (`LookedFirst`); the temporary file holds what its
  executor is going to rename (`TmpIsMine`); every effect but one is accounted for by
  `lost`, and that one only if it is recorded or in the hands of an executor about to
  record it (`Accounted`); what was returned, or is about to be, is what the record
  says (`RepliedIsSaved`). Each fails with two executors under one key, which look up
  before either saves.

`RuntimeProofs`, from the assumption of `Runtime` on its bounds and on the declared
actions. The five theorems rest on one inductive invariant, since what a construct
restores is what its frame saved, and that is right only if everything nested in it is:
its shape (`ShapeInv`: which frames may stand on which, and what each saved), the list of
compensations (`UndoableInv`), variable scopes (`ScopesInv`), budget scopes (`BudgetsInv`,
`LevelsInv`), the saga flag and the lists of the sagas (`FlagInv`, `SagasInv`), and the
records (`RecordInv`).

- `TypeCorrect`, which for this module says that no `split_off` and no `pop` is out of
  range.
- `BudgetsAlwaysHold`, `ScopesAreBalanced`, `SuccessesStay`, `CompensationsAreOwn`: the
  properties of the run, for any depth, number of steps and set of actions. A frame's
  claims are about the state at the time it was entered; the invariant says how far the
  state may have moved since, frame by frame.

`SurroundingsProofs`, from `SurroundingsAssumption`. Each component has an inductive
invariant that its own steps keep and that the steps of the others cannot touch; so each
theorem is about `PartsSpec`, the specification the run `surroundings` checks.

- `ChildrenAreCollected`: what was collected, lies in the pipe and is still to be said is
  the reply (`NothingLost`); a call that is done has no child left.
- `ClientsAreToldTheTruth`: a refusal at the door is decided before the route could take
  effect; with a recorder any other answer is sent only after the events of the request
  were recorded, and an error of the recorder replaces it by an internal error, which is the one
  answer behind which effects may be unrecorded (`TracesAreEarned`, `OutcomeIsTrue`). Of
  the other answers it says nothing about effects, for the code does not.
- `PinsHold`: once cloned the cache is not cloned again (`ClonedOnce`), and HEAD is where a
  checkout of the selector leaves it, whichever process made it, unless the selector is
  a branch, of which there are two (`ReadsAreChosen`). A cached revision is found without
  the origin by a process that is alone with the checkout and finds no lock left
  (`PinStays`); others may be made to fetch, and to fail, by a lock.
- `ArtifactsAreWhole`: while files are written, those that are there and those still to
  come are together the version's; none comes twice; the manifest is last but for the
  runbook.
- `LimitHolds`: every request in the count of the window was let through inside it
  (`CountsAreBacked`), so a refusal has its reason. Where processes take turns, the last
  requests let through are those the window counts, and a window's length before it began
  saw no more than the limit (`WindowsFollow`), so that none sees more than twice.
- `PublishedPackagesResolve`, `InstallsAreVerified`: whoever met a command that disturbs
  it is known to have (`MeetingsAreKnown`), and claims are made of the others only. What such
  a command listed, hashed and has copied so far is of its source as it still is
  (`ReadsAreOfSource`), unless the project is edited while it is published; what it resolved
  is what the metadata says, if there is any (`ResolvedIsValid`); between two publishes, of
  which none was left unfinished, the metadata is a hash that was made (`RegistryHolds`).
  What `lock --check` accepted is what the lock names until a publish, an upgrade or a lock
  begins (`CheckedIsLocked`): a package that is replaced after the check is installed
  without a word, since an install does not read the lock.
- `PartsAreTyped`: the type invariants of all six.

`LanguageProofs`, from `LanguageAssumption` (bounds are numbers, files are numbered), is
about `PartsSpec` of `MCLanguage`, the specification the run `language` checks.

The flow checks, for bodies
of any length and nesting over any variables and variants. `FlowIsSound` is the inductive
invariant `FlowInv`; the two properties are what it says of the innermost block. As long as
the body was not left, it says of every open block, by its number:

- What is known in a block that runs is so, and it has not ended (`KnowsRight`), with
  three exceptions: what the blocks inside it assigned so far, what was learnt
  before such an assignment (`outdated`), and what was learnt of the variable of a
  transaction (`leaked`). They are the code's: `assign_stmt` resets what the innermost block
  knows, and no other's, and a transaction has no environment of its own.
- A block sees the variables of the one around it, but for its own (`Inside`). Of two
  branches the one that runs is the one the condition led to, and what that answer implies
  is so around it, but for what the branch assigned; if the first one ran and was
  left behind, it did not end (`BranchIsTaken`). So where one branch ends, what the other
  implies may be kept, as `EndIf` does, and where both do the body was left.
- An arm that ran and was left behind did not end (`ArmsAreTaken`), so a match all of whose
  arms end was left, or had none that matched and failed.

That a condition implies what the checker learns from it, under `&&` and `||` as well, is
`ImpliedIsSo`.

The imports, for any set of files, paths and names and any `use` lines, cycles and missing
files included. `WalkIsInOrder` is the inductive invariant `ImportInv`:

- the open files lead from the entry to the innermost one (`OpenIsPath`), and every path
  that a `use` line named, in a file that was left or before the current line of an open one,
  was met (`LinesAreMet`);
- a file is entered exactly when a path of it is met first, once (`MetAreEntered`,
  `EnteredOnce`), and what is entered or met is reached from the entry
  (`EnteredAreReached`);
- a file that was left stands behind the files it uses, but for those that lead back to it
  (`UsesAreFirst`): an open file on its path is the one way a cycle shows.

`ImportsAreInOrder` is what that says when the stack is empty. One inclusion is
`EnteredAreReached`; for the other the files collected are closed under `use`, and
`Reached` is the smallest closed set, which is how the proof gets by without induction over
paths.

The calendar, for every year, before 1970 and after. `DatesAreInStep`: the state's date
and day number, which count side by side by the table of month lengths, stay equal under
`days_from_civil`. `DatesAreAlwaysDays` states all of `DatesAreDays`:

- Both conversions are split at cycles of 400 years, and inside a cycle at centuries, leap
  cycles, years that begin in March, and months. `civil_from_days` is the inverse
  (`CivilIsBack`, `DaysAreBack`), because the corrected division of `year_of_era` finds
  the year a day lies in (`DayHasYear`) and the linear formula finds the month (`MonthOfDay`,
  against the table: `TableIs`).
- The formula counts: the next accepted date has the next number (`NextIsCounted`), and a
  year is 366 days long when it is a leap year (`LeapDaysAre`). By induction over the years,
  forwards and backwards from 1970, the days before a year are those of the years between
  (`YearsAreCounted`).
- A shift moves by as many hours as it says (`ShiftMoves`), on days and hours together, so it can
  be undone.

The decimals, for every width, precision, coefficient and scale. `AmountsKeepForm`: every
operand is in the form without trailing zeroes (`IsDecimal`), and a result is the one of the
operation that was applied to the operands (`AmountsInv`). `AmountsAreAlwaysExact` adds,
from what each operation computes:

- a decimal `d` stands for a coefficient `c` and a scale `s` if `c` is `d`'s coefficient times
  ten to the scales' difference; what `new` returns stands for its arguments (`NewStands`),
  since it cuts the largest power that divides;
- sums and products stand for the sum and product of the aligned coefficients
  (`SumIsExact`, `ProductIsExact`, from `TenToSum`: powers of ten add);
- one value has one form (`FormIsUnique`): of two decimals that align to the same number, the
  one with the larger scale would end in a zero. So `cmp` is `Equal` only on identical ones;
- a quotient is truncated (`RatioIsTruncated`), and dropping its zeroes changes nothing of it;
  an amount is the nearest one, halves away from zero (`RoundedIsNearest`). Division and
  remainder are those of Rust, towards zero on both sides.

The width does not occur in the proofs: an operation that fits is exact, one that does
not has no result.

`PartsAreTyped`: the types of every part. The interpreter runs in the executions
of `MCLanguage` as it does alone (`PartsRun`), so the theorems of `RuntimeProofs` hold there,
its properties in the run `language` among them.

Every safety property of the passing runs is stated by a theorem. Only model-checked:

- liveness (`DrainsUnlessPoisoned`, `CallsEnd`, `CallsReturn`, `PoliteAreAnswered`), which
  is out of the prover's reach;
- what the runs that expect a violation show, each by its counterexample.

Induction over numbers is cited as a statement about sets (`NatSetInduction`: a set that
has 0 and with each number the next has all), proved from the well-foundedness of the
naturals, and recursive definitions (powers of ten, days before a year, what an import
reaches) are recursive functions, or the smallest set closed under a rule.

## 5. Assumptions and what is left out

- A rename and the removal of a file are atomic, and a killed process loses only
  its memory. A power failure that loses writes already made is not modelled; the
  code does not call `fsync`.
- Writing a lease is two calls, the opening that empties the file and the write; the
  write itself is one step, an item being smaller than a page. The clock advances between
  two writes (the code moves a prefix forward until it is free, on one machine).
- Writing a temporary file is one step: half of one is never renamed, because the
  process that was killed while writing it does not rename it, and the next writes it
  anew. Distinct workflows and distinct keys have distinct files; `safe_file_id`
  maps some distinct ids to one, see the hazards.
- One executor at a time per key is assumed, not provided by the store.
- An applied event can end among the dead letters, when its worker was killed after
  the last permitted delivery was saved: `DeadOnlyWhenExhausted` says only that the
  attempts were used up.
- Event ids are unique among the events sent. The default ids of the command line
  are not always; see the hazards.
- The archive file of an applied event, the status reports and the JSON codecs.
- Registry commands do not lock. Nothing is assumed of how they overlap; but nothing is
  promised either of an install that met a writer of the package or another
  install, which may put a mixture in place, nor of a registry whose publish met another.
- That the first clone of a git dependency is alone and not killed is assumed
  (`GitCheckout`).
- An upgrade with `--write-dependencies` rewrites manifests inside the registry, after
  which the package no longer matches its hash and does not resolve: `PublishedResolves`
  excepts it.

### Not modelled

The reasons, component by component, are under `components` in `PROJECT.json`. What
remains is of four kinds: text that is generated or parsed (the lexer, the parser, the
formatter, OpenAPI, SQL, deployment files, migrations, the connector SDK), tables
(built-in connectors, compatibility, lints), functions on values (JSON, XML, hashing,
encryption, redaction, the typing and evaluation of expressions), and argument handling.
They are the larger part of the source by lines, with the tests that stand in the same
files; the models cover state and control. Known and left out:

- The default event id of wait and resume depends on the workflow only
  (`CLI/workflow_cli.rs`), so a second wait is taken for a replay of the first.
- `safe_file_id` maps different ids to one file name.
- The age of a lease is the difference of two wall clocks; a clock set back makes
  leases outlive their time or expire early. Both happen in the model, since `Expire`
  may come at any time or late.
- `lock --check` looks at registry packages only, not at git dependencies. A tag that was
  moved at origin makes `git fetch --tags` fail.
- `registry install` does not read `num.lock`, and a package without metadata is valid to
  it, such as one whose publish was killed before it wrote them. Both are in the model,
  and no property claims otherwise.
- Two processes that resolve one pinned git dependency can fail each other: a checkout that
  finds the index locked is taken for a missing revision, and fetched. With a branch the
  revision recorded may differ from the one whose manifest was read.
- An error of a route whose text contains "not found" is answered with 404, and an error
  that was noted by an earlier attempt decides the class of a later one. Both are in
  `HttpService`, as outcomes that say nothing of effects.
- Years beyond 9999 are written in a form the parser does not accept.
- An upgrade that fails half-way leaves the manifests it has written.

## 6. Plan

1. Done: all modules of section 2, their runs, and the proofs of section 4. Every safety
   property that a run checks is proved.
2. Models that could follow: the graph of packages that `lock` walks and the graph that an
   upgrade rewrites; labels of data (secret, redacted) as they flow through values.
