# ultracore in TLA+

A verification project for ultracore: TLA+ modules for the parts of the system
whose correctness depends on concurrency, failure and order, the TLC
configurations that check them on small instances, and TLAPS proofs of the
properties that matter most for every value of the constants.

Paths below are relative to the repository root (`src/` in `PROJECT.json`).

    tlc -workers 2 -config AgentLoop_faults.cfg MCAgentLoop     # one run
    tlapm AgentLoop_proofs.tla                                  # one proof module

`PROJECT.json` lists the components, the runs, for every definition the lines it
models, for every property a mutation of the model that breaks it, the hazards
the properties are for, the findings and the theorems.

## 1. Inventory

ultracore is a durable-session substrate for agents: sessions are append-only
event logs in Postgres, agent runs advance step by step through jobs on a queue,
and sessions own resources that pluggable providers create. The processes are
`cored` (API), `coreworker` (queue workers) and `coreadmin` (operators); all
shared state is in Postgres.

| Component | State | Operations | Interacts with |
|---|---|---|---|
| Step worker (`loop/step.go`) | `agent_runs`, `agent_run_steps`, the envelope a delivery holds in memory | claim, compact, stream, commit, fail, cancel | queue (its jobs), waits (settlement), event log |
| Children and waits (`loop/spawn.go`, `waits.go`, `waittimeout.go`, `postgres/multiplayer.go`) | `spawn_key`, `run_waits`, `run_wait_members`, timeout jobs | spawn, create wait, close wait, resume parent, sweep | step worker of parent and child, queue |
| Run API (`http/agent_handler.go`) | the same rows | StartRun, AnswerRun, CancelRun | races with every delivery |
| Run policy (`policy.go`, `http/convert.go`) | `agent_runs.policy` | subset check, tool and kind gates | StartRun, spawn, tool execution |
| Event log and bus (`postgres/session.go`, `eventbus.go`) | `sessions.last_seq`, `session_events`, one goroutine and wake channel per subscriber | append, notify, forward read, poll | every transaction that reports an event |
| Event streaming (`http/session_handler.go`, `sdk/events.go`) | the open stream, the client's last seq | authenticate, send, reconnect | bus, API keys |
| Job queue (`jobqueue/`) | `jobs` (inproc) or river's tables | transactional enqueue, claim, retry, rescue, operator retry and cancel | step worker, sweeper, resource jobs |
| Resource lifecycle (`resourcework/`) | `session_resources` | provision, suspend, resume, restart, terminate, reconcile | providers, queue, tool cache |
| Tool client cache (`mcp/cache.go`) | clients by resource and token epoch, in each process | get, invalidate | resource lifecycle, tool calls |
| Providers (`provider/localdocker`, `k8s`, `nomad`, `static`, `nullresource`) | the handle; containers, pods, jobs, secrets, volumes at the control plane | provision, adopt, restart, status, terminate | resource lifecycle, an external control plane |
| Tunnel provider (`provider/tunnel/`) | offered connections, waiting dials | offer, take, time out, disconnect | environment agents, resource lifecycle |
| Admin commands (`admin/command/engine.go`) | audit rows, token bucket, commands in flight | authorize, look up, preview, apply, audit | almost every table |
| Admin reads (`admin/store`, `admin/query`, `admin/authz`) | none of their own; a cursor at the client | list by keyset, get, timeline, related objects | every table, operators |
| Memory and labels (`loop/memorytools.go`, `http/session_handler.go`) | `session_memory`, `sessions.labels` | set, delete, update, each with its event | event log, step worker (cost) |
| Tenants, keys, credentials (`http/org_handler.go`, `http/auth.go`, `postgres/org.go`) | `tenants`, `api_keys`, `credentials`, `provider_instances` | every scoped call | every handler |
| Models and secrets, binaries, generated code, test kit, web UI | see `PROJECT.json` | | |

What is hard here, and hardly reached by the repository's tests:

* A step is delivered at least once, and a model call of minutes lies between
  the transaction that reads a run and the one that writes it. Two deliveries,
  a cancel, an answer and a child's end may all fall in between.
* A parent parks in a wait and is resumed by whichever comes first: its last
  child, the deadline sweeper, an answer, a cancel. A second resumption runs a
  step twice, a missed one parks it forever.
* The sweeper claims in one transaction and resolves in others.
* Spawning looks for an existing child outside the transaction that creates it.
* A subscriber sleeps between a read and a notification that may be lost, on a
  stream that may break, under a key that may be revoked.
* A policy is narrowed at each level of a spawn tree by a relation over lists
  with stars and denies.
* A resource's jobs read it without a lock and write its state
  unconditionally, between calls to a provider that may act and not answer.
* An adapter makes several calls to a control plane that deletes
  asynchronously, and may die between any two of them.
* A dial that times out races the connection it waited for.
* An operator's command is looked up by its key, previewed, applied and audited
  in separate steps, while the worker moves the object.
* Lists are paged by value over tables that change, and rows are decoded by
  position.
* Transactions of one session take row locks in different orders and read what
  others commit in between.
* A streamed answer is buffered, flushed by a timer, repeated by a redelivered
  step and continued by a fallback model.

What makes the components correct: a run's steps are committed once each and in
order; a run that should advance has a delivery, and a parked one a way to wake;
a cancel is final; nothing said in a conversation is lost; one tool call spawns
one child, within the cap; the log is gapless and a subscriber gets every event
once, in order, eventually, and nothing new once its key is revoked; no run may
do what a run above it may not; a resource always has a job that will look at
it, its runtime is on file and opens to the token on file; an adapter makes one
unit and leaves none; a connection has one holder; a job is worked once it is
committed, by one worker, until it is settled; an operator's command that was
refused did nothing and one that was acknowledged is on record; a page walk
shows every row once, and each field shows the column it is named for; no
tenant reaches another's rows.

## 2. Modules

| Module | Models |
|---|---|
| `AgentLoop` | step worker, children and waits, sweeper, run API, the queue as the loop sees it |
| `StepStream`, `EventKinds` | what a delivery of a step does between claim and commit; stored payloads and the API's messages |
| `SessionTx` | transactions of one session by statement: memory, labels, wait and settlement |
| `EventLog` | event log, bus, streaming handler, SDK subscription |
| `EventStream` | what the `EventBus` interface promises (`event.go`); `EventLog` implements it |
| `JobQueue` | the inproc queue and River, with attempts, rescue, crashes, operators |
| `JobDelivery` | what the `Queue` interface promises (`jobqueue/jobqueue.go`); `JobQueue` implements it |
| `ResourceLifecycle` | resource jobs, API and watchdog on one row; the tool client cache |
| `Providers` | the six adapters as programs of control-plane calls |
| `TunnelBroker` | the broker's pool, its waiters, the agent's dialer |
| `AdminCommand` | the command engine and every operator command |
| `AdminQuery` | keyset paging and cursors |
| `AdminRead`, `AdminMessages` | the other reads, operators, columns and message fields |
| `RunPolicy` | policies, their subset relation, spawn trees |
| `Tenants` | authentication, tenant resolution and scoping of every call |
| `MCAgentLoop`, `MCResourceLifecycle` | symmetry sets and bounded inputs for TLC |
| `MCProviders`, `MCAdmin`, `MCStorage`, `MCPlatform` | modules that share a subject, side by side: a variable `part`, fixed at the start, says which one a behavior is of |
| `AgentLoop_proofs`, `AgentLoop_wait_proofs` | theorems about the loop: types, steps, cancellation, spawning; deliveries, waits, the conversation |
| `EventLog_proofs`, `ResourceLifecycle_proofs` | theorems about the module each is named after |
| `Providers_proofs` | theorems about `Providers` and `TunnelBroker` |
| `Storage_proofs` | theorems about `SessionTx` and `JobQueue` |
| `Platform_proofs` | theorems about `RunPolicy`, `Tenants` and `StepStream` |
| `Admin_proofs` | theorems about `AdminCommand` and `AdminQuery` |

Definitions marked "Fault variant" or "mutant" are not part of a model: each is a
plausible bug in the definition that follows it, and `PROJECT.json` names the
property that detects it.

Several modules look at the same code at different depths. `AgentLoop` takes a
transaction for one step and a model call for another; `SessionTx` opens the
first, `StepStream` the second. `ResourceLifecycle` takes a provider's operation
for one step; `Providers` opens it. `AgentLoop` has a queue that delivers at least
once; `JobQueue` says what the two queues really do and implements `JobDelivery`.

### AgentLoop

The variables are the columns and rows they are named after: `runState`,
`cancelReq`, `parent`, `spawnAt` (the step and call in `spawn_key`), `steps`,
`history` (the set of entries of the stored envelope), `waitState`, `members`,
`resumed`, plus the jobs (`queue`, `sweepJobs`), what each worker holds in memory
between its transactions (`worker`, with the envelope read at the claim), and the
sweep under way (`sweeper`).

**One database transaction is one action.** That is sound because the
transactions in question serialise on row locks: each locks the run it changes
(`GetForUpdate`), `Events.Append` updates the session row and so holds it until
the commit (a nested `Store.Tx` joins the outer one), and the foreign key of
`run_wait_members` takes a key-share lock on the child's row, which conflicts
with the lock under which the child becomes terminal. A deadlock between them is
aborted by Postgres and retried by the queue. What the database does not
serialise is split: claim and commit, the unlocked spawn lookup and the spawn
transaction, the unguarded write of the compaction marker, the sweeper's claim
and each of its resolutions.

| Code | Actions |
|---|---|
| `claim` | `ClaimStale`, `ClaimCancelled`, `Claim` |
| compaction in `Work`; model call | `Compact`, `StartStream` |
| `spawnChild` | `SpawnLookup`, then `SpawnDenied`, `SpawnAdopt`, `SpawnCreate` or `SpawnFails` |
| `commitOutcome` | `CommitStale`, `CommitCancelled`, `CommitContinue`, `CommitQuestion`, `CommitComplete`, and with `createWait` `CommitWaitConflict`, `CommitWaitClosed`, `CommitWaitPark` |
| `handleStreamError`, `failRun` | `StreamCancelled`, `FailRun`, `Retry` |
| `settleTerminalRun`: `abandonParentWaits`, `tryCloseWait`, `resumeParent` | `Settle` (`AbandonWaits`, `ClosedBy`, `MayResume`), part of every terminal action |
| `WaitSweeper.Sweep` | `SweepClaim`, `SweepResolve`, `SweepDone`, `SweepError`, `SweepCrash` |
| `StartRun`, `AnswerRun`, `CancelRun` | actions of the same names |
| queue rescue (job timeout plus 30 s) of a slow worker | `Redeliver`: two deliveries from then on |

What the model says is nondeterministic: any outcome may follow a step, any
children may be waited for. Message texts, costs, attempts and streamed deltas
are left out (`StepStream` has the last two). A run makes at most one wait per step, as
`commitOutcome` does.

### EventLog and EventStream

`lastSeq` and `rows` are the committed log; `txSeq` and `txRows` what an open
transaction has bumped and inserted; `notified` a notification on its way;
`bus` the goroutine of `EventBus.Subscribe` (`drain`: about to read, `send`:
pushing a batch, `empty`: read nothing, not yet in its select, `idle`: in the
select); `pipe` its channel; `sending` the event the handler has authenticated
and not yet written; `wire` what is in flight; `received`, `fromSeq`, `open` the
SDK's side; `keyEnd` the log's end when the key was revoked. `EventStream` has
three variables: the log's length, where each subscriber began, what it got.

### RunPolicy

The functions of `policy.go` are operators over records of sets; a list's order
and repetition do not matter to them. `above` is an auxiliary variable, the
ancestors of each run. Root runs get a requested or the default policy, children
a whole policy, a tool list or a copy of their parent's, and every run may
execute the tools its step offers it.

### StepStream and EventKinds

`dlv` is what a delivery holds: its step, the attempt `countAttempts` gave it, the
envelope it claimed, the batcher's two buffers, delta index and timer, and what
the model has said. Every append outside the commit may fail and is then only
logged, as in the code. Actions are the callbacks (`OnTextDelta`,
`OnReasoningDelta`, `OnToolCall`, `OnToolResult`), the batcher's timer, the switch
to the fallback, compaction, cancellation, `commitOutcome`. `heard`, `said` and
`lossy` are history variables. `EventKinds` has, for each event kind, the fields
of the struct that is stored and those of the message it is decoded into.

### SessionTx

Rows, locks and what each transaction has written. A statement sees what others
have committed (READ COMMITTED) and its own writes; a row it writes stays
locked until the end; `Deadlock` aborts one of a cycle. `Lock` is the advisory lock
of the memory store; every event updates the session row. Operations:
`SetMemory`, `DeleteMemory`, `UpdateSessionLabels`, a step that creates a wait, a
child's end (`FailRun`, a finishing step) with `SettleTerminalRun`, `CancelRun`.

### JobQueue and JobDelivery

A job's row (`st`, attempts made and allowed, due), the worker processes, and
`backend`, chosen at the start. With inproc a worker holds the row lock while it
works, so a crash gives the job back at once; with River the row is marked
`running` and rescued after `RescueStuckJobsAfter`. What River does by itself is
external. `JobDelivery` has four variables: the phase of a job, which jobs were
worked, are out of attempts, were revoked.

### ResourceLifecycle

`row` is the resource's row, `jobs` what the queue holds, `worker` the job in the
hands of each process and how far it is, `runtime` what the provider holds under
the resource's name. Each statement and each provider call is a step. Age has
three values: within the provision timeout, past it, past ten of it. `cache`,
`tool` and `revoked` are the clients of `mcp/cache.go` and the calls that hold one.

### Providers and TunnelBroker

An adapter's operation is a sequence of names of control-plane calls; `prog` is
where the worker is in it. A call may fail before or after it had its effect; the
worker may die between two, and the queue runs the job again. `units` are
containers, pods, allocations and processes, `kept` volumes, secrets, services
and job registrations. The control planes are external. `TunnelBroker` has the
pool, the waiters' channels, one record per dial and per dialer goroutine.

### AdminCommand, AdminQuery, AdminRead

A request goes through `Engine.Run` step by step (`pc`), with `obj`, the object it is
aimed at, moved by others between the steps. `Exec` is the table of what each
command reads and does. `changed` and `raced` are history variables. `AdminQuery` is a
table, a page walk and the cursor's values as strings, with null and the empty
string it becomes. `AdminRead` writes a column's value as its name, so that a row
decoded by wrong positions shows.

### Tenants

`db` is the set of committed rows with the tenant they belong to; a request
authenticates, resolves its tenant and acts. `touched` is what the last step read
into an answer or changed, and for whom. `TenantServiceSpec` is `CreateTenant`
alone, with `hstore`, the handler's field it rebinds.

## 3. Runs

Where one question has several parts, the run checks their conjunction; each part
is a named definition with its own comment.

| Run | Property | Parts, or what it says | States |
|---|---|---|---|
| `AgentLoop_faults` | `StepsContiguous` | a run's steps are 0, 1, 2, ... | 1.0 M |
| | `NoOrphanRun` | a run that should advance has a delivery | |
| | `OpenWaitStillPending` | no completed or failed child leaves a wait open behind it | |
| | `CancelHolds` | `CancelStopsRun`, `CancelledIsFinal` | |
| | `ConversationKept` | no commit overwrites what was said | |
| `AgentLoop_waits` | `WaitIsSwept` | `OpenWaitIsTimed`, `ClaimedWaitIsTracked` | 0.8 M |
| | `ParkedIsResumable` | a parked run's wait still has its one resumption | |
| `AgentLoop_spawn` | `SpawnOnce`, `ChildCap` | one child per tool call, at most the cap | 1.1 M |
| `AgentLoop_liveness` | `WaitEnds` | a wait resumes its parent or is given up | 0.1 M |
| | `RunsSettle` | `ActiveRunSettles`, `CancelEnds` | |
| `EventLog` | `Gapless`, `ReceivedInOrder` | the log has no holes, and neither has what a subscriber got | 0.2 M |
| | `NoLostWakeup` | no goroutine sleeps beside an event it was told of | |
| | `RevokedSeesNothingNew` | nothing committed after the revocation is sent | |
| | `ImplementsStream` | refinement of `EventStream` | |
| | `StreamsServed` | `EventDelivered`, `RevokedStreamEnds` | |
| `ResourceLifecycle` | `RuntimeInStep` | types, `TokenNotAhead`, `RuntimeOnFile` | 0.45 M |
| | `Watched` | a resource that is not over has a job that will look at it again | |
| | `OneLiveClient` | in one process only the cached client is not revoked | |
| | `ProvisioningEnds` | it does | |
| `Providers` | `UnitsFit` | types, `OneUnit`, `NothingLeft` | 0.45 M |
| | `FreshCredential` | a ready resource's unit opens to the token on file | |
| | `WorkOutlasts` | `WorkSurvivesRestart`, `DisconnectSuspends` | |
| | `TerminationEnds` | it does | |
| | `ConnsAccounted` | types, `OneHolder`, `ParkedIsListed`, `NoIdleWhileParked` | |
| `Admin` | `RecordHolds` | `SlotsBalanced`, `RefusedDidNothing`, `SuccessIsOnRecord` | 2.1 M |
| | `RetryAppliesOnce` | a retry of a command that is on record applies nothing | |
| | `ObjectsHold` | types, `WorkIsQueued`, `FinishedRunStays` | |
| | `PagesWhole` | types, `ListedInOrder`, `NothingSkipped`, `OneQuery` | |
| | `ReadsWhole` | `OnlyKnownOperators`, `ShownIsStored`, `WaitShownWhole`, `NoneHidden`, `TimelineWhole` | |
| `Storage` | `SessionKept` | types, `MemoryCapped`, `LogTellsState` | 0.1 M |
| | `ParentIsWoken` | a child's end in any interleaving wakes its parent | |
| | `JobInOneHand` | types, `WorkedIsCommitted`, `OneWorkerPerJob` | |
| | `ImplementsDelivery` | refinement of `JobDelivery` | |
| | `WorkEnds` | `EveryTxEnds`, `EveryJobSettles` | |
| `Platform` | `PolicyHolds` | types, `NoEscalation`, `DeedsWithinAncestors` | 0.55 M |
| | `TenantsApart` | types, `Isolation`, `AdminOnly`, `OneOwner`, `ProviderOutlivesResources` | |
| | `StreamTold` | types, `LogFollowsModel`, `EventsReadable` | |
| | `DeliveriesApart` | `AttemptsApart`, `HistoryIsOfRecord` | |

Bounds. `MaxSteps`, `MaxAnswers`, `MaxFaults`, `MaxSeq`, `MaxFrom`, `MaxCuts` and
`WireCap` bound the models; `Batch`, `Limit` and `PipeCap` are small values of the
code's limits 32, 256 and 64, chosen so that the limit is reached. The faults
run has two workers and two faults, so a step may be delivered twice and a
delivery fail besides, with a parent, a child, two steps and an answer. The waits run has
two waits parked at once and a batch of one, which is when a sweep must re-arm;
it has no sweeper faults, since with them two of its properties fail (below). The
spawn run has three calls, three children and a cap of two for two deliveries.
The log run has a channel of one and a read limit of two, two lost
notifications or crashes and two broken streams. `ResourceLifecycle` has two
workers and two of requests, faults and tool calls together: a request that
overtakes a job that dies. `Providers` has two faults, so a retry may fail too, and
three tokens, so two restarts; three connections, three dials and one keeper are
the least in which a late offer meets both an abandoned and a new waiter.
`Admin` has two requests with one key, an audit failure or crash, and two moves by
others; three rows over two sort values with pages of one, so that a page ends
between equal values. `Storage` has three transactions over one key and the
cost key with room for one of them, and two jobs with two attempts and two
faults. `Platform` has every combination of allow and deny lists over the tools
that are gated, one kind and a star, on a chain of three, the shortest in which
a grant could skip a level; two requests and two changes for two tenants; two
overlapping deliveries of two steps, two pieces and one trouble, with a history
that is long enough to compact once it holds an answer.
`CHECK_DEADLOCK FALSE` is set where all runs, requests or transactions may have
ended.

Symmetry is used in the safety runs only, over workers, calls, children,
writers, and in `Platform` requests and runs below the root, which the
specifications treat alike.

Fairness. For the loop: weak fairness of each worker's next step (the queue
delivers pending jobs; a model call ends, at the latest by the two-minute job
timeout), of deadlines and of sweeps. For the stream: of each subscription's bus
goroutine, including its poll ticker, of the handler and of the client's loop.
For resources: weak fairness of a worker's steps and of time, strong fairness of
claiming a provision or restart job, since workers that keep taking other jobs
come back to the queue and it hands out the oldest. For providers: of the worker,
and of a control plane that starts and removes what it was told to. For jobs: of
the worker processes, which are restarted, and of the queue's maintenance. For
transactions: strong fairness of a transaction's next statement, because
Postgres queues lock waiters.
Nothing is assumed of notifications, users, operators or failures; failures are
bounded, that is, they do not go on forever. `AgentLoop` takes the queue to retry
without limit; `JobQueue` has the limit. `ActiveRunSettles` is about a run not being
lost: a run that goes on calling tools forever is cut off by `MaxSteps`.

### Disagreements between the code and what it says

Two runs end in a violation on purpose; `findings` quotes the lines.

* `AgentLoop_cancelled_child`: `CancelRun` of an awaiting child does not resolve
  its parent's wait, which then lasts until its deadline.
* `Tenants_store_swap`: two overlapping `CreateTenant` calls restore the handler's
  store in the wrong order and leave it bound to a finished transaction.

Seen in the models too, without a run of their own:

*Agent loop.* A sweep that fails after `ClaimDue` leaves a timed-out wait that the
re-armed sweep cannot find (`loop/waittimeout.go:77` against 71). An answer to a run
parked on children leads to a commit that overwrites the wait's result
(`http/agent_handler.go:140` against `loop/waits.go:241`). A superseded delivery can
fail a run that has moved on (`loop/step.go:426` against 59). `ClaimDue` skips a due
wait whose row is locked, and a sweep that did not fill its batch does not re-arm
(`postgres/multiplayer.go:188` against `loop/waittimeout.go:25`). `AnswerRun` and a
late stream cancellation leave states that `RunState.Terminal` calls final
(`http/agent_handler.go:140`, `loop/step.go:353` against `run.go:26`). At the cap, a
repeated spawn is refused instead of adopting its child (`loop/spawn.go:310`
against 264).

*Streaming.* The fallback goes on under the attempt and the delta index of the
primary, after its partial text, without tool or reasoning callbacks, and may
execute tools again (`loop/step.go:248` against `event.go:111`). The same triple
also appears twice when `step_started` could not be appended, or when two claims
race. A late compaction writes an old envelope over a newer one
(`loop/step.go:152`), which is why `ConversationKept` is checked with
`LongHistory = FALSE`, and why `HistoryIsOfRecord` allows an answer to be missing. `flushLocked` emits reasoning before text whatever came first. A
`periodic_prompt_fired` event is never appended.

*Memory.* No key is reserved: a client may write `system.cost.latest`, which the
cost accounting overwrites without an event (`loop/automation.go:16`). What the
log tells of that key is therefore not what the memory holds, and
`LogTellsState` excepts it.

*Policy.* A requested cap of 0 becomes the default cap when tools are named
(`http/convert.go:315` against `docs/security.md:40`). `wait_for_agents` is offered to
a run whose policy denies it (`loop/spawn.go:77` against `policy.go:12`).

*Resources.* A late provision or failure overwrites a terminated row
(`resourcework/resourcework.go:422`, 558). A terminate job that overtakes a provision
reads no handle and leaves the runtime; so does a restart that completes between
release and commit. After a failed health check of a restart the undo terminates
at the provider, and with it the workspace the restart preserved. A client of an
old epoch can be created again after `Invalidate` (`mcp/cache.go:84`), and other
processes' caches are not invalidated: the token is refused there. The
`provision_resource` tool waits for ready or failed only.

*Providers.* `Terminate` of Kubernetes says "A handle that was never written means
nothing was created" (`provider/k8s/lifecycle.go:396`); a worker that died before
`SetHandle` refutes it. `ListOwned` of Nomad looks for another prefix than it
names jobs with, that of Kubernetes sees pods only, that of the tunnel nothing. Nomad's readiness
may be that of the old allocation. Docker's restart that dies half way leaves the
old id on file. The static adapter cannot adopt: a retry starts a second process.

*Tunnel.* A connection offered to a waiter that has given up is lost with it;
`Disconnect` misses connections in a channel or in a hand
(`provider/tunnel/broker.go:145`); `issued` only grows; the agent's `Connections` does
not bound what it keeps open, since `Serve` returns at once.

*Jobs.* The inproc queue's `Stop` cancels its handlers at once
(`jobqueue/jobqueue.go:85`: "Stop drains gracefully"). A `CORE_RESCUE_AFTER` just above
`CORE_JOB_TIMEOUT` leaves a slow worker no grace.

*Admin.* Two concurrent requests with one key are both executed
(`admin/command/engine.go:149` against `docs/admin-ops.md:111`), which is why
`RetryAppliesOnce` excepts them; the key is not bound to command and targets; a
crash between change and audit leaves no record; several refusals write none
(against `docs/admin-ops.md:33`). `ReprobeProvider` marks healthy without probing.
Rows whose sort value is null are skipped after a page that ends before them, and
a page that ends in them cannot be continued, or with a text column starts again
(`admin/query/compile.go:388`). `GetRun` and `GetProvider` leave a count of their
summary at zero. `GetWait` drops the error of reading the result. Previews are
cut at byte 256, which may split a character.

*Tenants.* Deleting a tenant's provider with resources is refused by a foreign key
where `docs/onboarding-kubernetes.md:78` describes another order;
`waitStore.Members` is not scoped by tenant; `PutPeriodicPrompt` answers with a run it
did not store.

## 4. Proofs

The theorems hold for any sets of runs, workers, calls, writers, subscribers,
connections, dials, jobs, processes, requests and keys and any bounds, under the
named assumptions of the modules (`LoopAssumption`, `LogAssumption`,
`PolicyAssumption`, `BrokerConstants`, `ProvidersConstants`, `JobAssumption`, `ConstantsOK`,
`LimitsAssumption`, `SessionAssumption`, `TenantsAssumption`, `StreamAssumption`,
`QueryAssumption`), which only say that bounds are numbers, limits are positive,
markers such as `NoKey` are no keys, and memory keys are not the names of other rows. Every inductive invariant was checked
with TLC on the bounds of section 3 before it was proved.

* **AgentLoop.** `TypeCorrect` from `TypeInv`: the types and what a busy worker
  holds (`WorkerOK`: a run, and within a spawn a call). `StepsContiguousHolds`
  from `LoopInv`, which adds `NoHoles`: contiguity is not inductive by itself,
  since a job for step i could commit it before i-1, so the invariant also says
  that for every queued and every executing job the steps before it are
  committed. From `TypeInv`, one case per action, follow `CancelledIsFinalHolds`
  and `CancelStopsRunHolds`, together `CancelHoldsAlways`. `SpawnOnceHolds` rests
  on the lookup being repeated in the creating transaction, `ChildCapHolds` on
  `CapInv`, which adds that a run's children are finitely many.
* **AgentLoop, deliveries and waits.** The actions are gone through once to say
  how a step moves one run (`RunMoves`), one worker, one wait (`WaitMoves`) and
  one stored conversation; the theorems are then about those moves.
  `NoOrphanRunHolds`: that a run which should advance has a delivery needs
  `FamilyInv`, which says that no run is a member of its own wait (settling it
  would resume it without a job), that a delivery in hand is of a run that has
  begun, and that a run whose last step is committed is over.
  `OpenWaitStillPendingHolds`: every open wait has a member that is not over or
  was cancelled (`Awaited`); the proof is the argument that creating a wait and
  settling a child exclude each other.
  `ParkedIsResumableHolds`: the wait of a step not yet committed is untouched
  (`WaitAfterStep`), so the one a run has just parked on is fresh, and whatever
  resumes it un-parks the run in the same transaction.
  `ConversationKeptHolds`: an executing delivery's envelope holds what the row
  said, or its step is committed already and its commit will be refused
  (`EnvFresh`).
* **AgentLoop, hypotheses.** Three of the theorems carry one, and each names a
  disagreement of section 3 and nothing else: `OpenWaitIsTimedHolds` that
  `ClaimDue` skips no locked row (`"skip" \notin SweepHazards`); `WaitIsSweptHolds`
  that sweeps neither skip, fail nor crash half way (`SweepHazards = {}`);
  `ConversationKeptHolds` that no envelope is long enough to be compacted
  (`~LongHistory`). Without them TLC finds the violations described there. The
  first two rest on `SweepAhead`: an open wait has its timeout job, or one of the
  sweeps under way or to come will find it due.
* **EventLog.** `GaplessHolds` from `LogInv`: at most one transaction holds the
  row (`OneTx`), and what it has inserted follows the committed log
  (`TxFollows`). `ReceivedInOrderHolds` from `DeliveryInv`: what was received, is
  on the wire, is being sent, is in the channel and is in the batch are
  consecutive pieces of the log, which is what makes a reconnect from the last
  seq safe wherever the stream broke. `StreamImplemented`: `EventLog` implements
  `EventStream`, a commit being a `Publish` and a receipt a `Deliver`.
  `RevokedSeesNothingNewHolds` from `PassedOn`: what is received, on the wire or
  in the handler's hand, past its authentication, was committed before the key
  was revoked; the batch and the channel may hold later events, which the
  handler's check then stops. `NoLostWakeupHolds` is inductive as it stands: a
  notification leaves its mark in the wake channel of a goroutine that has read
  and is not yet asleep.
* **JobQueue.** `JobInOneHandHolds` from `QueueInv`, for both backends at once. That
  no two workers have one job is not inductive without saying how a claim shows:
  in River's table as the row's state, with inproc as nothing but the row lock
  (`HandInv`), and that a row which waits has an attempt left (`RowInv`).
  `DeliveryImplemented`: `JobQueue` implements `JobDelivery`, every action being one
  of its steps or none.
* **SessionTx.** Both theorems are from `SessionInv`, which says what a transaction
  has locked and written at each of its statements (`TxOK`) and that no two hold one
  lock. `SessionKeptHolds`: a count is taken before the insert it allows, so the cap
  needs `RoomKept`: who has counted has the advisory lock until its commit and still
  finds room. What the log tells of a row is what the row holds, because a write
  and its event become visible together (`MemoryFits`). `ParentIsWokenHolds` is
  from more than it says (`WaitAndRuns`): in committed rows an open wait never
  stands beside a child that is over, whoever is in flight. Both sides lock the
  session row with their event before they look at the other's row, so a wait is
  committed open only beside a child that runs (`WaitFits`), and a child that ends
  finds a wait there is and resolves it (`EndFits`).
* **ResourceLifecycle.** `WatchedHolds`, `RuntimeInStepHolds` and
  `OneLiveClientHolds` from `LifeInv` and `ClientInv`. "A job will look at it again"
  is not inductive, because the jobs write the row without a lock and some of
  them end without leaving another. The invariant therefore tells the jobs that
  can be counted on: a queued job that will not pass over the state on file
  (`Counts`), or one in hand whose closing transaction will find what it expects
  if the state stays (`Sure`); a step that changes the state under such a job
  brings a job of its own. `TokenNotAhead` and `OnFile` need that what a job
  remembers is never ahead of the row (`JobsFit`).
* **AdminCommand.** `RecordHoldsAlways`, `RetryAppliesOnceHolds` and
  `ObjectsHoldAlways` from `EngineInv`. A lemma goes through the eighteen commands
  (`GoodEffect`): whatever one does to an object leaves work for a state that needs
  it and a finished run finished. The slots in use are the requests that hold one
  (`SlotsInv`), finitely many although the requests need not be. `PairsInv` is the
  argument for retries: of two requests with one key that are both past the
  lookup, one was under way when the other looked, or the outcome of one was
  never recorded.
* **AdminQuery.** `PagesWholeHolds` from `QueryInv`, for any table and page size. A
  cursor splits the rows nobody has touched: those listed are at or before it
  (`Behind`), and those not beyond it are listed (`Covered`). The page that is read
  from the cursor is any sequence `ORDER BY` and `LIMIT` allow.
* **RunPolicy.** `IsSubset` is transitive in what it permits; hence
  `NoEscalationHolds` by induction over the tree's growth, for any depth, and
  `DeedsWithinAncestorsHolds`, together `PolicyHoldsAlways`.
* **Tenants.** `TenantsApartHolds` from `TenantInv`: an id is given once, to rows
  that are committed and to rows still in a transaction alike; what a row refers
  to is there and of its tenant; and who is about to remove a provider has an
  admin's key, which a concurrent revocation does not take back.
* **StepStream.** `DeliveriesApartHolds` from `StreamInv`: steps are committed without
  gaps; a delivery's snapshot of history is older than its step, so an answer
  appended to it comes last; its attempt is the number of starts of that step it
  had seen, and its own start comes after those (`StartsFit`), hence whoever sees
  the start counts one more.
* **Providers.** For any bounds on units, tokens, failures and retries, each action
  is taken apart by kind of adapter. `UnitsFitHolds` from `UnitsInv`: that there is
  one unit needs to know which programs can be under way, so `JobFits` says what a
  program of a kind and a job may still hold and that it ends in the platform's
  step; `Removed` says how far a termination is, by the calls that are behind it;
  and whatever a job left half done, all but the units that are going are one
  (`AtMostOne`). `WorkOutlastsHolds`, an action property, from `ProgInv`: no
  program of a restart contains the calls that take a workspace away.
  `FreshCredentialHolds` from `FreshInv` on top: whose token a unit has depends on
  where a restart is. For those that follow a handle it is the unit the program has
  in hand, for Docker everything once the new container is made, for Kubernetes
  the secret, which is written after the old pod is gone and before the new one
  is made (`InOrder`); a program that was cut short leaves its job queued, and the
  row is not fresh until that job ends. Kubernetes' wait for the old pod is the
  step the proof turns on: `K8sRestartAtOnce`, without it, is the run's mutant.
* **TunnelBroker.** `ConnsAccountedHolds` from `BrokerInv`. That a connection has one
  holder is not inductive: the broker offers it without looking, so the invariant
  says that whatever lies in the pool, is issued or is with an attempt was filed
  and not made anew since (`FiledOnce`). That a waiter listed twice, or listed with
  something in its channel, would make an offer skip it needs `ListedIsWaiting`:
  the list has no repetitions, and who is on it is parked or gone with an empty
  channel. Hence the first waiter always has room, and the code's loop over the
  waiters never drops one that waits.

Only model-checked: liveness (`WaitEnds`, `RunsSettle`, `StreamsServed`,
`ProvisioningEnds`, `TerminationEnds`, `WorkEnds`), which the proof system cannot
express under fairness. `StreamTold` compares the log with what the model said by
`SelectSeq` and `FlattenSeq`, whose values are defined by recursion over a sequence;
the prover has no induction over data. `ReadsWhole` is for its greater part a
computation over constant tables, columns and message fields, which TLC carries
out in full.

## 5. Not modelled

`PROJECT.json` gives the reason for each component. Within the modelled ones:
paged `GetEvents` and subscriptions without reconnect; schedules of periodic prompts;
resource capability grants; the filter grammar and the SQL text of admin lists;
specs and manifests of the adapters; encryption and redaction; the environment
agent's own server; wiring, flags and the SDK's request plumbing. Generated code is
modelled only where a property compares its messages with what is stored. An
attempt to open a stream with a revoked key is refused and changes nothing.

## 6. Plan

Done: all modules of the table above, with the theorems of section 4. Next:

1. The wait transactions of `SessionTx` as a refinement of `AgentLoop`'s.
