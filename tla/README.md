# APEX Stream: a verification project

TLA+ models of the APEX Stream services, the TLC configurations that check them
on small instances, and proofs of their main safety properties for every value of
the constants. Paths below are relative to the repository (`src/` here).

APEX Stream is a set of agents (aria, atlas, sentinel, archivist, warden) that
collect and archive public material, an orchestrator that gives them work and
answers a dashboard, and one PostgreSQL database through which all of them
interact. There is no broker and no shared memory: the queue, the events, the
agents' memory, the audit log and the rows under review are tables. So the
concurrency of the system is the interleaving of SQL statements issued by
processes that may stop between any two of them, and that is what the models
describe: **one SQL statement, or one call of an outside service, is one step**.

## 1. Inventory

| Component | Source | State | Operations | What is hard |
|---|---|---|---|---|
| Task queue | `packages/agent-runtime/src/bus.ts`, migration 003 | rows of `agent_tasks`: status, lease token, receive count, `visible_at` | `send`, `receive`, `ack`, `nack`, `heartbeat` | leases that lapse under a working holder, stale acks and nacks, retries |
| Agent loop | `packages/agent-runtime/src/agent.ts` | tasks running in a process, capacity read before an await, draining flag | `start`, `process`, `runTask`, drain | crash anywhere, unhandled rejections, drain deadline, capacity |
| Event bus | `bus.ts`, migration 003 | `agent_events`, append-only | `publish` | an event that is lost after the state it announces has changed |
| Beast runs | `services/orchestrator/src/beast.ts`, migration 001 | rows of `runs` with a partial unique index and a JSON budget | `preflight`, `activate`, `deactivate`, `accrue`, `expireOverdueRuns` | two operators at once, results applied concurrently, crash half-way |
| Dispatcher | `services/orchestrator/src/dispatcher.ts` | none | `dispatch`, `fleetDepth` | tasks that outlive their run |
| Comments and replies | `routes/comments.ts`, `services/agent-warden/src/{index,store}.ts`, migration 002 | `comment_classifications`, `reply_drafts`, `youtube_credentials` | triage, draft, approve, reject, connect, disconnect | an outside effect (a public reply) between two statements; stale reads |
| Audit ledger | `services/orchestrator/src/db.ts`, `packages/core/src/audit/ledger.ts` | `audit_log`, a hash chain; an advisory lock | `append`, `range`, `verifyChain`, `/api/audit/verify` | concurrent appends, rollbacks, commits whose answer is lost, tampering |
| Workflow engine | `packages/workflow-engine/src/*`, `services/orchestrator/src/effects.ts` | graph, frontier, counters, effects sent so far | validate, execute, de-duplicate notifications | limits against paths, partial side effects, check-then-insert |
| Evidence pipeline | `services/agent-archivist/src/*`, `agent-runtime/src/store.ts` | objects under lock, rows of evidence | sweep, capture, lock, name, announce | crash between object and row, a batch that one target aborts |
| Collecting agents | `services/agent-{aria,atlas,sentinel}/src/agent.ts`, `agent-runtime/src/{store,memory}.ts` | sources, observations, baselines | claim by shard, read, measure, store, report, mark | read-modify-write of a baseline, overlapping claims, an observation stored before its anomaly |
| Live stream session | `services/agent-sentinel/src/stream.ts` | connection, buffer, consecutive failures | connect, cut into segments, back off, give up | failure limit against reconnects, audio lost with a connection |
| Warden polling, YouTube client | `services/agent-warden/src/index.ts`, `packages/youtube/src/index.ts` | live chat cursor per source, cached client, error of the credential | join, poll, insert, advance or clear the cursor | cursor against rows across a crash, two processes on one cursor, a revoked grant |
| Sentinel launcher | `services/orchestrator/src/sentinel.ts` | running executions (outside) | launch, stop | count, then start; whose name is the newest |
| Migration runner | `services/orchestrator/src/migrate.ts` | schema, checksums, advisory lock | migrate | overlapping deploys of different versions, a holder that dies |
| Scoring | `packages/core/src/scoring/*` | none | score, band, counterfactuals | weights and contributions rounded one by one |
| Access control | `packages/core/src/security/rbac.ts`, `orchestrator/src/{auth,server}.ts` | claims and tokens (outside) | `decide`, guard, handle, audit | denials of one role against grants of another, tokens older than their claims |
| Classifier, drafter | `agent-warden/src/{classify,draft}.ts` | none | calls to a language model | its outcomes only |
| HTTP routes | `orchestrator/src/routes/index.ts`, `server.ts` | none of their own | mostly one statement each | except those named above |
| Encryption, parsing, logging, configuration, dashboard | see `PROJECT.json` | none | - | pure functions or pure I/O |

How they interact:

    operator -> routes -> BeastController -> dispatcher -> agent_tasks -> Agent loop -> handler
                   |            |                              ^              |
                   |            +-> runs (budget) <- accrue ---|-- (nobody) --+-> agent_events
                   |            +-> audit_log                  |
                   +-> comments: reply_drafts <- Warden triage-+
                   +-> workflows: executor -> effects: agent_tasks, notifications

`accrue` is meant to be called by a consumer of `task.completed`; the repository
has no such consumer, so its promise "Cost accrues from real task results" (`beast.ts:27`)
rests on code that does not exist yet.

What makes each component correct, in the order of importance:

* **Queue**: a lease moves a row only for the one who holds it; retries end; a task
  that was sent leaves the queue in the end; a completion is duplicated only when a
  lease lapses under a working holder; a process stays under its concurrency.
* **Beast**: one run at a time; a run that is over stays over and is in the ledger; no
  cost is lost; a run over budget is halted, one near it is warned of once; a run ends by
  itself.
* **Replies**: nothing is public that no operator approved and no row records; one
  open draft per comment; what is approved is resolved.
* **Ledger**: one chain, without gaps or forks, whatever fails; what was returned is
  there; an alteration shows.
* **Workflows**: an accepted graph has no cycle, a rejected one has the cycle that is
  named, and the nodes reported unreachable are those no path reaches. An execution
  goes along every branch, accounts for its effects, passes its budget by one node at
  most, notifies of a source once; a dry run changes nothing and foretells the real one.
* **Evidence**: a row of evidence names a content and a manifest that are both locked; what
  is captured without a row is the leftover of a failure; what a task took on is archived
  in the end, unless the bucket refuses it or an older target of the batch.
* **Collectors**: what was flagged is reported once, or lost to a failure; the tasks of one
  fan-out lose no sample of a baseline.
* **Live stream**: audio is stored, counted as unstored, buffered, or less than a segment
  per connection; a watch ends.
* **Warden polling**: no message between the joining of a chat and its cursor is skipped.
* **Launcher**: the ceiling is passed by concurrent launches alone, and an execution that
  the ledger does not name has a reason.
* **Migrations**: a file is committed once, with its row, on the schema it was written for.
* **Scoring**: the score is the mean of what was measured, and the counterfactuals agree.
* **Access**: what a handler does is granted by a role and denied by none, and on record.

`PROJECT.json` lists the hazards one by one, each at its line, with the property
that would catch it or the reason no property does.

## 2. Modules

| Module | Models | Role |
|---|---|---|
| `TaskQueue` | queue, agent loop, their events | component |
| `Worklist` | what the queue promises to senders and readers | abstract specification |
| `MCTaskQueue`, `TaskQueueProofs` | | instance, proofs |
| `BeastRun`, `MCBeastRun`, `BeastRunProofs` | Beast runs, expiry sweep, the tasks of a run | component, instance, proofs |
| `CommentReplies`, `MCCommentReplies`, `CommentRepliesProofs` | triage, drafts, approval, posting | component, instance, proofs |
| `AuditLedger`, `MCAuditLedger`, `AuditLedgerProofs` | append, its transaction and lock, verification | component, instance, proofs |
| `WorkflowGraph`, `WorkflowGraphProofs` | the graph checks of `validateWorkflow` | component, proofs |
| `WorkflowEngine`, `MCWorkflowEngine`, `WorkflowEngineProofs` | executions of workflows, their effects and their record | component, instance, proofs |
| `EvidencePipeline` | Archivist and its vault | component |
| `Collectors` | Aria, Atlas and Sentinel, their sources, baselines and observations | component |
| `StreamSession` | one watch of a live stream | component |
| `WardenPolling` | live chats, videos, cursors and the YouTube client | component |
| `SentinelLauncher` | watches started on demand | component |
| `Migrations` | the migration runner of overlapping deploys | component |
| `Scoring` | `scoreObservation` and its counterfactuals | component |
| `AccessControl` | roles, tokens, the guard of the routes and their entries | component |
| `Services`, `MCServices`, `ServicesProofs` | `WorkflowGraph`, `Collectors`, `WardenPolling`, `SentinelLauncher`, `Migrations`, `AccessControl`, `Scoring` | collection, instance, proofs |
| `Progress`, `MCProgress`, `ProgressProofs` | `AuditLedger`, `TaskQueue`, `EvidencePipeline`, `StreamSession` | collection with fairness, instance, proofs |

`Services` and `Progress` do not compose what they instantiate. The components in each share
no state, so exploring their product would show nothing: the variable `part`, chosen in
`OneInit`, names the one that runs, and the variables of all others stand still. One run then
explores the instances one after another, and what is proved of `OneSpec` is proved of each
component by itself. Several settings of one component (two shards or two tasks for one
source; one process or two) use the same variables; which settings there are, and the
bounds of each, are constants, so `MCServices` and `MCProgress` only give them values.

In each component module an operator that follows the comment "Mutant" is a
plausible wrong version of the definition below it. Nothing uses it; it is there
so that every property can be shown to fail on some wrong program
(`PROJECT.json`, "mutants").

### TaskQueue

`row[t]` is the row of task `t` in `agent_tasks` (`visible` is
`visible_at <= now()`), `deliveries` are the calls of `runTask` that have not
returned, each at the statement it is about to run (`pc`), `loop[w]` is where
process `w` stands in the `while` of `Agent.start`, and `capacity[w]` is the limit it
computed before the `receive` it awaits.

* `Send` is `TaskQueue.send`; `Poll`, `Claim`, `ReceiveEmpty`, `ReceiveFails` are the
  loop around `receive` and its one UPDATE (`FOR UPDATE SKIP LOCKED`, so two claims never
  pick the same row; with few rows in reach a skipped row is claimed by the other at
  once, which is the same as running the claims one after another).
* `Begin`, `HandleReturns`, `HandleThrows`, `KeepAlive`, `Ack`, `Nack`, `Report` are
  `runTask` statement by statement. `ack` and the success report stand inside the `try`,
  so `SuccessPathThrows` sends finished work through the `catch` block.
* `Crash` is a process that dies: killed, or ended by Node because `void this.process()`
  (agent.ts:124) leaves a rejection unhandled. `Drain`, `Stop`, `Restart` are SIGTERM,
  the end of `start` and the platform.
* Time is `LeaseLapses`, `BackoffElapses` and `Expire`; a lease that lapses under a holder
  that still works is counted in `lapses`.

`Worklist` has three pieces of state per task: ready, leased or closed; how often it
was leased; how often a completion was announced. `ImplementsWorklist` maps a row to
them: a row that is `in_flight` is leased, whether or not anybody still works on it.

Left out: `depth()` (it only reads), the `agent.heartbeat` event (nothing reads it), the
nack for a task addressed to another agent (`send` writes `agent_id` from
`targetAgent`, so a process never receives one).

### BeastRun

`run` is the table `runs`; `call[c]` is a request of an operator or a result being
applied, at its next statement; `tasks[r]` counts the tasks of a run: queued, being
worked on, finished with their result not applied.

* `Preflight`, `Insert`, `Dispatch`, `DispatchEnds`, `RecordDispatched`,
  `AuditActivated`, `AnnounceActivated` are `activate`. `Insert` includes the partial
  unique index: the second of two concurrent inserts gets error 23505 and the call ends.
* `ReadRun`, `Cancel`, `AuditCancelled`, `AnnounceCancelled` are `deactivate`. `Cancel`
  does not ask for the status that was read, as in the code.
* `Accrue`, `Halt`, `AuditHalted`, `AnnounceExhausted`, `Warn` are `accrue`; `Adds` is its
  UPDATE and `Verdicts` what it may do with the row that returned. The comparisons with 80%
  of the budget are on doubles: `Reaches` leaves their answer open at the mark itself, and
  only there, since costs have six decimals. `spent[r].onMark` remembers that a run was there.
* `Sweep`, `SweepAudits`, `SweepFails` are `expireOverdueRuns`.
* `CallFails` and `Crash` end calls between two statements.

`Consumer` is the set of readers of results that call `accrue`. It is empty in the
repository (a run is never halted on its budget there); the runs that study `accrue`
give it members.

### CommentReplies

`draft` is `reply_drafts`; `triage[t]` a triage loop of Warden, with the snapshot of
comments it works on; `request[q]` an approval or rejection being served;
`published[d]` what YouTube shows; `connected` whether a credential exists.

`StartBatch`, `Classify`, `ClassifyThrows`, `SaveDraft`, `DraftThrows` are triage.
`Approve`, `BuildClient`, `MarkApproved`, `Post`, `PostRefused`, `MarkPosted`,
`AuditPosted`, `MarkFailed`, `AuditFailed` are the approve route in its order;
`PostUnanswered` is a reply that is out while its answer is lost, `RecordThrows` a failed
statement after it. `SaveDraft` and `MarkApproved` include the index
`reply_drafts_one_open_idx`. The text of comments and replies, labels and the
language model are seen only through their outcomes.

### AuditLedger

`log` is the committed part of `audit_log`; `writer[w]` a call of `append` with its
open transaction; `lock` the advisory lock 847211; `report` the last answer of
`/api/audit/verify`. `Begin`, `Lock`, `ReadHead`, `Insert`, `Commit` are the statements of
the transaction; `Rollback` is a failure anywhere before COMMIT, `CommitUnanswered` one
after it. `Verify` is `range` and `verifyChain`. `Alter`, `AlterAndRelink`, `Delete` are
what someone with rights to disable the trigger may do, once.

SHA-256 is taken to be free of collisions, so a hash is the tuple of what is hashed.
`ip_address` and `user_agent` are not hashed by `computeEntryHash`, so a change of them
would not show; they are left out of `Content`.

### WorkflowGraph

`findCycle` and `reachableFrom` (`packages/workflow-engine/src/validate.ts`), one turn of
a loop per step. `adjacency` is what `buildAdjacency` makes of the edges, chosen in
`Init` among all graphs within the bounds, with parallel edges, self loops and targets
no node has; which node a search starts from is left open, so every order of the
canvas is covered.

* `Start`, `Leave`, `Skip`, `Enter`, `CloseCycle`, `NoCycle` are the search with its
  explicit stack; the iterator of a frame counts from 1 here and from 0 in the code.
* `TraceBack`, `TraceEnds` read the cycle off the parents.
* `Visit`, `ReachEnds` are `reachableFrom`; its stack is a set here, because what it
  returns does not depend on the order. A visit handles all edges of a node.

The checks of `validateWorkflow` that look at one node or one edge at a time (labels,
ports, settings) are left out; so is the case of no or several triggers, in which
`reachableFrom` does not run.

### WorkflowEngine

`executeWorkflow` and `runNode` (`executor.ts`), the effects they are given (`effects.ts`) and
the route that starts and records an execution. `exec[x]` holds the local variables of an
execution: the frontier (`queue`), the cost, the steps logged so far, and while a node runs
its `frame`, the items its loop has still to come to (`todo`) and its own cost. `tasks` and
`notices` are what was written to `agent_tasks` and `notifications`.

* `Begin` is the route up to the first turn, `Halt`, `Complete` and `Take` the head of the
  `while`, with the three limits asked in `Exhausted`.
* `PassOn`, `Fetch`, `Filter`, `Divide`, `Skip` are the nodes that change nothing outside.
  `Dispatch` is one item of `agent_task` or `archive`; `Look` and `Send` are the SELECT and the
  INSERT of `notify`; `Acted` is the end of such a node's loop. `Produce` is what follows
  every node: the step is logged, and the items of each branch go along each edge that
  matches.
* Orders are stated rather than computed: `Pushed` lists the pairs of a branch and an edge
  (`Ways`) by how many come before, and `Buckets` the cases by the first item that
  opens each (`Openers`). Both are the loops of the code, and can be proved about.
* `NodeFails` is the `catch`: an effect throws, before or after it took hold. `Die` is a
  process that ends, or an INSERT into `workflow_executions` that fails.
* `WindowEnds` is time: a notification falls out of its window.

Abstracted: what `compare`, `readPath`, `render` and `transform` compute - a filter keeps the
items its definition says, an item takes the case it says, and no node changes the
source of an item. All agent tasks have one price, and a window has one length. The text of
an unlabelled edge and an empty `defaultLabel` are both `Unlabelled`, since the code tests
`branch.edgeLabel` for truth. A workflow that is a draft or disabled executes like any
other: the route does not ask for its status. Nothing in the repository reads the queued
notifications.

### EvidencePipeline

`detected` is the table of anomalies in the order of `detected_at`; `capture[i]` is what the
i-th call of `EvidenceVault.capture` has left: its target, its two objects, the custody as the
order of its entries, and whether a row names it (`named`) and an event announced it.
`work[w]` is a task of Archivist with the `target` it works on and the rest of its batch
(`todo`): a set, since what comes next is always the oldest of it.

* `Sweep` is a task without a target: `pendingArchival` (`Pending`), oldest first, up to its
  limit; `TakeFrom` takes the next target of a batch.
  `Order` is one for a single observation; its payload names no anomaly, so its row does not
  take the anomaly off the list.
* `StoreContent`, `LockContent`, `StoreManifest`, `LockManifest` are the four calls of
  the bucket (`file.save` and `file.setMetadata`, twice), `SaveEvidence` and `Publish` what
  follows them. `Refuse` is a target the bucket always refuses: `handle` rethrows, and the
  rest of the batch goes with it. `Fail` is any failed call or a crash.

An anomaly stands for its observation too. Hashes of the custody chain are left out.

### Collectors

`observed` is the table of observations in order, with its unique key; `memory` says how many
samples each baseline or histogram counts and `samples` how many were taken; `work[t]` is a
task with the sources it claimed, the items of the present reading and the value it read
(`prior`, `previous`).

* `Claim` is `claimSources` (`Mine` is the part of it that does not change); `Fetch` is a feed,
  a page or a stream, with any items of `Feed` or any content.
* `StartItem` asks `observationExists` for Aria alone; `ReadMemory` and `WriteMemory` are
  the get and the put of a baseline; `ReadLatest` is the copy Atlas compares with.
* `SaveObservation` is the insert with `ON CONFLICT DO NOTHING`; `SaveAnomaly` fails when there
  is no observation to name, and with it the source. `Publish`, `MarkPolled` follow.
* `Throw`, `Crash` are a failed statement and a process that dies; `IntervalPasses` is time.

What the scoring says is a choice (`Verdict`), but for Atlas, which flags a page that is not
what it was. `SamplesCounted` speaks of sources that one fan-out serves, with one task per
slot: tasks of two fan-outs, or a task delivered again while its first delivery still runs,
may lose updates of each other, as the code reads and writes a baseline in two statements.

### StreamSession

`session` is where `segments()` stands, with `failures` and the end of its delay; chunks are
counted: `received`, `buffered`, and in segments `stored` and `unstored` (whose upload
failed). `Answered`, `Refused`, `LoopEnds`, `WakeUp` are the loop with its `catch` (`Caught`);
`Chunk` may complete a segment; `Persist` is the upload, whose failure is only logged; `Yield`
hands the segment on, and the consumer may throw, which closes the session. `EndOfBody` goes
back to the condition of the loop without a delay, `Broken` goes through the `catch`.

A clock that passes the end of the window and the longest delay would show nothing more
(`Tick`). Transcription is left out but for its failure.

### WardenPolling

A thread is a sequence of numbered messages: 0 is the video's, b the chat of the b-th
broadcast. `cursor` is the row of `live_chat_cursors`; `from` in it is not stored by the
code: it remembers at which message the chat was joined. `work[w].client` is the grant
`this.youtube` was built with, once per process.

* `Begin`, `NextSource`, `Join`, `ReadPage`, `Insert`, `WriteCursor`, `ChatGone`,
  `ClearCursor`, `ReadVideo`, `MarkPolled`, `RefreshFails`, `RecordError`, `Triage` are
  `handle`, `pollLiveChat` and `pollVideoComments` statement by statement. Comments are
  inserted one by one, then the cursor is written.
* `Broadcast`, `EndBroadcast`, `Post`, `Connect`, `RevokeGrant`, `PollAfter` are the channel,
  its operator and time. `Throw`, `Crash` are failures.

YouTube is taken to hand out a next page token with every page and to take any token it
handed out for a chat that is live.

### SentinelLauncher

Executions are numbered by their creation. `Count`, `Run`, `Newest`, `Audit` are `launch` and the
rest of its route: `Run` is `runJob`, whose answer may or may not carry the name, and
`Newest` then takes the name of the latest execution, whoever started it (`misnamed`). `End` is
an execution that ends or is cancelled.

### Migrations

`schema` lists the files that are committed, `recorded` is `schema_migrations`, `lock` the
runner whose session holds the advisory lock. `Start`, `Lock`, `Read`, `Compare`, `Apply`,
`Complete`, `Unlock` are `migrate`; `Apply` is one transaction, whose COMMIT may be
answered or not. `Fail` and `Crash` may strike without bound. The pool is used by one
statement after another and has one connection while it is idle for less than its timeout,
so its lock is the session's; a connection that is cut ends the process, as nothing handles
the error.

### Scoring

`Observe` gives a signal a reading, `Score` is `scoreObservation`: effective weights, points and
sum with the rounding of each. Numbers are whole: what lies half way is rounded either way,
as its binary form may be. `ScoreIfRemoved` and `ScoreIfMaximal` are the counterfactuals.
The values a normalizer yields are a constant; normalizers (curves over the reals), the
confidence (a square root), coverage, the input hash and the texts are left out.

### AccessControl

`Grants` and `Denies` are `ROLE_DEFINITIONS`, a permission being a pair. `Decide` is `decide`. `claims`
are the custom claims of each operator, `token` the claims its present token carries:
`Provision` changes the first and not the second, until `SignIn`. A request goes through `Arrive`
(which keeps the names of roles there are), `Guard`, `RecordDenial` and `Refuse`, or `Handle` and
`RecordAct`; `Fail` is a statement that throws. Seven routes stand for those that
change something or answer with evidence; `executeWorkflow` and `stopWatch` leave no entry.

## 3. What is model-checked

| Run | Instance | Distinct states | Question |
|---|---|---|---|
| `TaskQueue` | 2 tasks, 2 processes of 2 slots, 2 attempts, 1 lapse, 1 fault | 947,504 | leases, attempts, concurrency, outcomes; refinement of `Worklist` |
| `BeastRun` | 2 runs, 2 operators, 1 consumer, 1 fault | 1,664,873 | single flight, ends are final and audited |
| `BeastBudget` | 1 run of up to 3 tasks, 2 operators, 2 consumers, 1 fault | 611,963 | budget, warnings, costs, termination |
| `CommentReplies` | 1 comment, 2 drafts, 2 triage loops, 2 requests, 1 fault | 40,776 | one open draft, record, ledger, resolution |
| `WorkflowEngine` | 2 executions of 2 workflows of 5 nodes, 2 items, 1 fault | 215,190 | branches, effects, budget, dry runs, repeats, termination |
| `Services` | every graph of 3 nodes; collectors, Warden, launcher, deploys, requests, scores, each alone | 946,831 | what none of these may ever do |
| `Progress` | ledger, queue, Archivist and a stream, each alone, with fairness | 172,984 | what must happen in the end, and what stays complete on the way |

Runs that end with the violation of a statement the repository makes (section 5):
`TaskQueuePriority`, `ReplyOnce`, `ReplyRecovery`, `AuditVerify`, `ScoreRange`.

The properties, each commented in its module:

* `TaskQueue`: `OneLeaseHolder`, `PendingHasAttemptsLeft`, `ConcurrencyCeiling`,
  `OutcomesAccounted`, `ImplementsWorklist`; `EventuallySettled` in `Progress`.
* `BeastRun`: `SingleFlight`, `EndedRunsAudited`, `NeverReopened`;
  `OverBudgetRunIsHalting`, `WarnedAtMark`, `CostConserved`, `EventuallyEnds`.
* `CommentReplies`: `OneOpenDraft`, `PublishedIsOnRecord`, `PublishedIsAudited`,
  `ApprovedIsResolved`.
* `AuditLedger`: `UntamperedVerifies`, `ReturnedIsInLog`, `TamperingShows`.
* `WorkflowGraph`: `CycleIsReal`, `NoCycleMissed`, `ReachableIsExact`.
* `WorkflowEngine`: `EveryBranchFollowed`, `EffectsAreReported`, `DryRunForetells`,
  `SpendBounded`, `SendsOnceItself`, `ExecutionsEnd`.
* `EvidencePipeline`: `CustodyComplete`, `TakenIsArchived`.
* `Collectors`: `FlaggedIsReported`, `SamplesCounted`.
* `StreamSession`: `AudioAccounted`, `SessionEnds`.
* `WardenPolling`: `NoCommentSkipped`. `SentinelLauncher`: `CeilingHeld`. `Migrations`:
  `SchemaInOrder`. `AccessControl`: `AccessAccounted`. `Scoring`: `ScoreExplained`.

`TypeOK` is no property of a run. Where there are proofs it is proved or part of the
invariant (section 4); of the other modules it was checked on the same instances when they
were written, and says nothing more.

### Bounds, and why they are enough

* *Two of everything that competes*: two tasks, processes, operators, consumers, triage
  loops, requests, deploys. The races of this system are between two: two claims, two
  activations, an approval and a rejection. The ledger has three writers, so that one
  may wait for the lock while another takes the head of a third.
* `MaxAttempts = 2` is the least with both a retry and a give-up. The lease of the task
  claimed last may lapse once under its holder (`MaxLapses`); a lease without a holder
  lapses as often as it likes. In `Progress` one process that may fail once and two that do
  not are settings of their own: liveness with both at once is out of TLC's reach here.
* `MaxFaults` bounds crashes, drains and failed statements together; one of them,
  anywhere, reaches every partial state the code can be left in. The safety properties
  that the proofs cover hold for any number of them. In `TaskQueue` the bound of what a
  failure may silence (`NoSilentSettlement`) is as large as the two tasks once a fault has
  happened, so the run tests it without one; the theorem is about any number of tasks. Deploys may fail and die without bound.
* In `BeastBudget` the limit is 10 and a result costs nothing, 1 or 8: one of 8 is at 80%
  exactly, where both answers of the comparison are tried, and the next of 1 leaves the mark;
  two of 8 jump over it and the limit, 1 and 8 land between the two. In `BeastRun` one result reaches the limit.
* In `AuditVerify` the page is two rows and the log three: the route reads 2000 of a
  log that only grows. In `Progress` the page holds the whole log of three rows.
* Three nodes have cycles of length one, two and three, diamonds with a double edge, and
  components the trigger does not reach; the proofs cover graphs of any size.
* In `WorkflowEngine` one workflow has a branch whose cases share an edge's target, so that
  items come to the notification in two parts; the other is a diamond whose end runs
  twice, with a node limit that cuts it off and a cost limit that one node passes. Both
  items have one source, so the window matters. A fault is an effect that fails, a death,
  or the duration running out.
* Archivist has two tasks at once and two anomalies, one of which the bucket refuses: it is
  detected before or after the other, so a blocked and an unblocked sweep occur.
* Collectors: two sources with two contents, and feeds of one or two items; two shards of
  Aria over both, and two tasks for one source of each agent. Two or three readings are
  enough for a page that returns to an earlier version.
* Warden: a chat of two messages, one of them staff's, with two processes; a chat and a video
  with one process whose grant is revoked and renewed. A page holds both messages, so
  a cursor moves by none, one or two.
* The launcher has two requests and four executions, so the third starts after the
  ceiling was passed. The second deploy edits a file of the first and adds one; four deploys
  follow one another, overlap and repeat.
* A stream has a window of 5, segments of 2 chunks, 4 chunks, 2 dropped connections, and
  gives up after 3 failures: a segment ends within a connection or is cut by its end. The
  proof covers any segment and any number of connections.
* Claims are an operator's; an owner's with a viewer's, whose denial wins; and an analyst's
  with the name of a role that is none. Two operators have two requests between them.
* Scores: five signals, each missing, with too few samples, or at 0, a third, or 1.

`CHECK_DEADLOCK FALSE` is set where the system ends: the Beast runs, when every id has been
used and every run is over; workflows, when every execution is recorded; and parts of
`Services` and `Progress`, when validation, a score or a watch is done or a bound is
reached.

### Fairness

The safety properties need none, and `Services` assumes none.

* Queue: the clock moves, so a backoff elapses and a lease that nobody holds lapses; a
  process runs its loop; a handler returns or throws; the platform replaces a process
  that ended (all weak). Fairness of `runTask` is stated per task and process, because
  `await` serves every continuation. Nothing promises a send, a `keepAlive`, a deadline,
  or a fault.
* Beast: windows close, the timer keeps firing (`Sweep`), agents and consumers go on.
  Operators owe nothing; `EventuallyEnds` rests on the sweep alone.
* Replies: a request being served goes on, and operators go on deciding; triage owes
  nothing.
* Workflows: an execution goes on - the loop is one async function whose awaits are
  answered or throw. Windows owe nothing.
* Archivist: a task that runs goes on. Nothing more: Beast mode dispatches its sweeps once,
  when an operator activates it (`beast.ts:171-191`), a task ignores its `sweepUntil`, and
  nothing in the repository schedules another. `TakenIsArchived` is therefore about what a
  task has taken on, not about what was flagged.
* Stream: the clock moves and the session goes on; whether the stream answers, sends or
  breaks is open.

## 4. What is proved

TLAPS checks the following for every set of tasks, processes, runs, calls, drafts, writers,
workflows and executions, and every bound. The only assumptions are the `ASSUME`s of the
modules: that the constants have the types their comments say; that a normalizer clamps
what it yields (`clamp01` in `normalizers.ts`); that tasks, requests,
operators and items are finitely many; that Beast mode numbers the slots of a fan-out from 0
(`SlotsNumbered`, `beast.ts:171-186`), a directory has no two files of one name
(`FilesNumbered`), an operator is provisioned with some claim, a segment is at least a chunk.
TLC evaluates each of them on the instances.

Every safety property that a run checks is a theorem, and so is every action
property. Where a property is not inductive, the invariant it was strengthened to is named
below.

* `TaskQueueProofs`
  * `TypeCorrect`: `[]TypeOK`, with the finiteness of `deliveries` (`TypeInv`), which
    counting them needs.
  * `LeaseSafety`, `RetriesBounded`: `OneLeaseHolder` and `PendingHasAttemptsLeft` are
    not inductive. `LeaseInv` adds that the token and the receive count of a row are
    the number of its claims (`TokensNumberClaims`); that a delivery holds a token that
    was issued, hence at most the current one (`TokensWereIssued`); and that a delivery
    about to nack was made for an attempt before the last one (`NackHasAttemptsLeft`). A
    nack that matches the row is then one of the current attempt, so the row has
    attempts left - although the code decides on the count of the delivery, not of
    the row.
  * `CeilingHolds`: `ConcurrencyCeiling` is inductive with `TypeInv`: between the read of
    the capacity and its use no other step of the process starts a delivery.
  * `QueueImplementsWorklist`: every step is a step of `Worklist` or a stutter. The one
    that needs an invariant is the announcement of a completion: `CompletionsBacked`
    says that completions plus deliveries that may still complete are at most the
    claims. A nack needs `LeaseInv`.
  * `OutcomesAgree`: `OutcomesAccounted`. The number of completions has no bound that is
    kept by itself; `LapsesPay` counts what a task may still complete: announced
    completions, deliveries that may complete, and one more claim while the row is open
    (not settled, and not leased to a delivery that may complete it) are at most one
    more than its lapses. `ReportsAreLast`: a delivery that reports has settled its
    row or lost it, and a lost row stays lost. `NoSilentSettlement` is inductive with
    `ConcurrencyCeiling`: a step without a failure leaves no row without its announcement
    (`SettlementTold`), and a failure silences only tasks of one process, of which there are
    at most its concurrency (`FaultSilences`).
* `BeastRunProofs`
  * `TypeCorrect`; `SingleFlightHolds` from `OneActive` (no two different active runs).
  * `EndsAreFinal`: `NeverReopened` needs `FreshRuns`: a call about to insert a run has a
    run that does not exist yet and that no other call has; otherwise the insert could
    revive a run that is over.
  * `NoCostLost`: `CostConserved`, inductive by itself.
  * `BudgetHalts`: `OverBudgetRunIsHalting` needs `FreshRuns` and `NoCostBefore`: a run
    that was not inserted has no cost, so an insert never makes an over-budget run active.
  * `EarlyWarning`: `WarnedAtMark` needs `WarnedInv`: whoever is at the mark is on record as
    having been there, a second warning needs a cost past it, and the cost, which only
    grows, leaves it once; and, since an insert must not make a run active whose cost is past
    the mark already, `FreshRuns` and `NoCostBefore`.
  * `EndsAreAudited`: `EndedRunsAudited` needs that a call stands before its entry until the
    entry is written or the call lost, and before an announcement only behind the
    entry (`AuditInv`).
* `CommentRepliesProofs`: one inductive invariant `IInv` = `TypeOK`, `OpenIsUnique` (two
  open drafts of a comment are the same), `PostingIsOnRecord` (a request past
  `MarkApproved` has a draft that is approved, posted or failed - and since `Reject`
  asks for `pending`, nothing takes it out of these), `PublishedIsOnRecord`,
  `PublishedIsAudited`. From it: `TypeCorrect`, `OneDraftAtATime`, `NothingOffRecord`,
  `NothingUnaudited`.
* `AuditLedgerProofs`: one inductive invariant `IInv` = `TypeOK`, `Shapes` (the log is
  finite, rows have the fields of an entry), `LockIsHeld` (who has read the head holds the
  lock), `HeadIsCurrent`, `Linked` (an untampered log is numbered from 0 without gaps
  and each row carries its predecessor's hash and its own), `ReportedIntact`,
  `ReturnedIsInLog`, `DefectStays` (an alteration leaves a defect at its row or the next,
  which no append repairs). From it: `TypeCorrect`, `NoForks`, `NoFalseAlarm`,
  `ReturnedStays`, `TamperEvident`.

* `WorkflowGraphProofs`: two inductive invariants.
  * `SearchInv` for `findCycle`: the stack is a path of the graph that the parents agree
    with (`StackIsPath`), and the nodes coloured as in the stack are on it, once
    (`StackIsColoured`); the edges followed lead to finished nodes, but for the one to the
    next of the stack (`FollowedAreFinished`); no edge leaves the finished nodes
    (`FinishedIsClosed`), among which there is no cycle (`FinishedIsAcyclic`: the node that
    was finished last has no edge back, by the two before); the walk back goes down the
    stack (`TraceFollowsStack`). From it: `CycleReported`, `AcceptedIsAcyclic`.
  * `ReachInv` for `reachableFrom`: what was seen and is not pending has its edges among
    what was seen, and every closed set with the trigger holds what was seen. From it:
    `ReachableExact`.

* `WorkflowEngineProofs`. Every step is first brought to what it does to the fields of one
  execution (`OneStep`), so that each invariant has a proof by kinds of steps.
  * `EngineTyped`: `TypeOK`, in `EngineInv`, which adds that items are observations or the
    trigger's one blank item, never both (`Coherent`).
  * `NotifiesOnce`, `DryRunHarmless` from `NoticeInv`. `SendsOnceItself` is not inductive:
    `LookedStillHolds` adds that what an execution's SELECT found of its own rows is still
    so at its INSERT - others may send in between, the window may end, but the execution
    itself does nothing else - and `RowsAreReal` that whoever has a row has begun and is no
    dry run.
  * `RecordIsTrue`: `EffectsAreReported` from `ReportInv`: the rows of an execution are those of
    the acting steps it logged and of the items behind it at the node in hand; a failed
    step may have part of them.
  * `SpendKept`: `SpendBounded` from `SpendInv`: what is left to do at a node (`todo`), at the
    price of each, is what the node may still add, and a node begins within the limit.
  * `DryRunTells`: `DryRunForetells` from `ReplayInv`: the steps of an execution determine the
    queues it went through, from the trigger's frame on, and the last of them is the
    present one. Two executions of one version whose fetches agree have the same
    queues by induction on the steps; `Induction`, over a set of numbers, follows from
    the well-foundedness of `<` (`WFMin`).
  * `BranchesFollowed`: `EveryBranchFollowed` from `FollowInv`, a balance: runs of a node on a set
    of items and frames of them still in the queue are as many as the hand-overs to it
    (and the one from the start). A step takes one frame off and `Pushed` adds one for
    each hand-over; the queue of a completed execution is empty.

* `ServicesProofs`
  * `SchemaKept`: `SchemaInOrder`, for any deploys and versions. The invariant says that who
    reads, compares or applies holds the lock (`LockIsHeld`), that a runner starts at its
    first file (`AtFirstFile`), that what is recorded is what the runner read and what it came
    past since (`KnowsRecord`), and that the file it applies was not in what it read
    (`NewFile`). Who holds no lock changes neither table, so its steps leave these of the
    holder alone.
  * `CeilingKept`: `CeilingHeld` from `LaunchInv`: executions that run and launches that have
    counted are at most one more than the requests (`Admitted`).
  * `CommentsKept`: `NoCommentSkipped` from `PollInv`: a process that resumed from a cursor, or
    is inserting, or is about to write one has everything between the joining of the chat and
    where it stands in the table (`RowBacked`), and so has the cursor (`CursorBacked`);
    comments are only ever added, so two processes that write it over each other move it
    between places for which this holds.
  * `SamplesKept`: `SamplesCounted` from `PriorIsLatest`: the shards of a fan-out give a source to
    one slot (`SlotsNumbered`), so nobody writes a baseline between the read and the write
    of the task that serves it.
  * `FlaggedKept`: `FlaggedIsReported` from `OneReport`: an anomaly that is owed is owed by one
    task, which stored the observation itself; what nobody owes any more is lost to a fault.
  * `AccessKept`: `AccessAccounted` from `AccessInv`: the guard decided for the roles and the route
    the handler is called with, and denials and acts are counted against their entries.
  * `ScoreKept`: `ScoreExplained` from `ScoreInv`: a contribution, which is rounded twice, is at
    most one unit of the included weight from its term of the weighted mean (`Near`). The sum
    over a set of signals is a fold of the library: `TotalSplits` proves that it is the sum
    without any one element and that element, `TotalsCombine` that bounds of the terms of two
    sums bound the sums. The mean, its bounds and both counterfactuals follow.
  * `ScoreNearlyScaled`: the scale of 0 to 100, which the run `ScoreRange` shows a score to pass,
    is passed by at most a hundredth for each included signal.
* `ProgressProofs`
  * `AudioKept`: `AudioAccounted` for any segment size and stream. `BufferCut` is what it needs:
    the buffer is full exactly while its segment is about to be stored, so a connection
    never ends with a full one.
  * `CustodyKept`: `CustodyComplete`. Each stage of a capture has left exactly what `Stage` says,
    and no two tasks hold the same capture; a capture that nobody holds and no row
    names was left by a fault; and rows of an anomaly with the tasks that are still due to
    archive it are at most the tasks (`OncePerTask`), since a sweep takes it up only where
    no row names it.

### Only model-checked

* Liveness (`EventuallySettled`, `EventuallyEnds`, `ApprovedIsResolved`, `ExecutionsEnd`,
  `TakenIsArchived`, `SessionEnds`): properties under fairness and `ENABLED` are outside
  the prover.

Sums, lists and counts that the models once took from the library's recursive operators are
sets, cardinalities and orders where the proofs could be had without induction over data.
Where they could not, the library's theorems of induction, whose parameter is an operator, are
of no use: a least counterexample (`WFMin`), which is a fact about sets, takes their place
(`Induction`, and `SetInduction` for the subsets of a finite set).

## 5. Where the code and its documents differ

1. `TaskQueuePriority`: "Lower number runs first" (`packages/core/src/types.ts:134`); the
   claim orders by `priority DESC` (`bus.ts:53`).
2. `ReplyOnce`: posting "happens exactly once per approved draft" (`comments.ts:16`);
   two concurrent approvals both post.
3. `ReplyRecovery`: a draft left approved by a crash is "visible and recoverable"
   (`comments.ts:158`). `GET /api/comments` shows it beside its comment (`comments.ts:91`);
   the list of replies does not, and no route moves it on.
4. `AuditVerify`: `/api/audit/verify` "Proves the audit chain has not been altered"
   (`routes/index.ts:383`); it reads the first 2000 rows. Asked for a later page it
   compares the first row with the genesis hash and calls an intact chain broken.
5. `ScoreRange`: "the final 0..100 score" (`engine.ts:22`) and `CHECK (score BETWEEN 0 AND
   100)` (migration 001). With Aria's four signals all at 1 the rounded weights sum to
   1.0001 and the score is 100.01: the insert of the anomaly is refused, its observation is
   stored already, and the next poll skips the item. A steady source makes any burst
   a z-score past ten (`memory.ts:134` puts the deviation at 0.00003 or more), which is 1 to
   four places.

Met while modelling, and shown by no run of their own:

* "Concurrency ceiling. Per agent and fleet-wide" (`beast.ts:31`): each agent's share is a
  quarter of the cap and there are five agents, so a burst may run 28 tasks under the
  default cap of 24.
* "Early warning at 80%" (`beast.ts:279`) compares doubles, so a run whose cost is 80%
  exactly may be warned twice or never. With a limit of 1, 0.8 warns; a result of 0.02 makes it
  0.82, and 0.82 - 0.02 is 0.7999999999999999, which warns again. With a limit of 3, 2.4 is
  below 3 * 0.8 = 2.4000000000000004 and does not warn; a result of 0.01 makes it 2.41, and
  2.41 - 0.01 is 2.4000000000000004, which is not below the mark and does not warn either.
  `WarnedAtMark` therefore excepts the mark.
* Archivist's sweep is "the backstop for evidence that would otherwise be lost"
  (`agent-archivist/src/agent.ts:50-53`), but runs only when an operator activates Beast mode,
  takes at most 200 targets, and ends at the first that fails: nothing promises that a flagged
  anomaly is ever swept.
* "Suppress repeats for the same source within this window" (`schema.ts:112`): two executions
  at once look before either inserts, and both send; `SendsOnceItself` therefore speaks of
  one execution.
* "The next task resumes exactly where this one stopped" (Warden's `index.ts:137`): a 403, which
  is also the answer to an exhausted quota, drops the cursor; what was posted before the
  chat is joined again may be missed. `NoCommentSkipped` counts from that joining.
* A conflict on an observation "is normal ... not an error" (`store.ts:142`), but it returns
  no id, and Aria and Atlas then try to save the anomaly without one, which fails the
  source. In Atlas a page that returns to an earlier version does so on every poll until it
  changes again, and the edit is never reported.
* "A hard ceiling" of two executions (`sentinel.ts:54`): concurrent launches pass it, by one
  execution for each request beyond the first (`CeilingHeld`).
* "All actions audited" (`docs/SECURITY.md:100`): `POST /api/workflows/:id/execute` and
  `DELETE /api/watches/:executionName` leave no entry. A role that is taken away acts until
  its token is renewed.
* The client of a Warden process keeps the grant it was built with: after a reconnect its
  failed refresh puts an error on the new credential.
* A stream whose body ends normally is connected to again at once: only a failure backs off.

## 6. What is not modelled

* The classifier and drafter of comments, encryption, parsing of feeds and pages, logging,
  health, configuration and the dashboard: pure functions of text or bytes, calls of a
  language model or a key service, pure I/O. They keep no state the other parts depend on,
  and appear as choices where a model uses their outcome.
* Of the partly modelled components: the normalizers and the confidence of scores
  (arithmetic over the reals); the checks of `validateWorkflow` on one node or edge;
  routes that only read, labels, the OAuth callback and `DELETE /api/evidence`, which every
  role is denied; the rate limit and CORS of the server; the expiry of rows of
  `agent_memory`. The feed of events is not modelled beyond the events that properties
  mention: nothing in the repository consumes them.
* `fleetDepth`, `depth()` and `agent.heartbeat`, which change or tell nothing the models use.

## 7. Plan

The modules planned at first are written. What would add most to them:

1. A composition of `BeastRun` with `TaskQueue`: the counters `tasks[r]` of `BeastRun` as an
   abstraction of the rows of the queue; and of `WardenPolling` with `CommentReplies`, which
   starts where a comment is unclassified.
2. Theorems of the weaker promises that hold where a run finds a documented one broken, as
   `ScoreNearlyScaled` is for `ScoreRange`: how often an approved reply can be posted, what a
   verification of a later page of the ledger does tell.
3. Abstract specifications of the evidence pipeline (what a task took on is archived
   or blocked) and of the ledger (an append-only sequence), with refinements.
4. Larger instances of `Progress`: two processes that may fail, and two streams.
