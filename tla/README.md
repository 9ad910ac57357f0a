# LeAgent: a verification project

LeAgent (`src/backend/leagent`) is an agent platform: a chat agent, a workflow engine, scheduled jobs,
background tasks, channels and tools behind one FastAPI process. This directory keeps TLA+ models of its
stateful parts, TLC configurations that check them on small instances, and TLAPS proofs of what matters
most. `PROJECT.json` is the index: components, runs, mutants, the map from definitions to source lines,
findings, hazards and theorems. Paths below are relative to `src/backend/leagent/`.

## 1. Inventory

| Component | State | Operations | Hard behaviour |
|---|---|---|---|
| Workflow scheduler (`workflow/engine/graph.py`) | ready / in-progress / completed / skipped / blocked sets, strong links, pruned edges, cancel flag of one attempt | add_node, select_branch, reopen_or_add, stage_ready_batch, complete, fail, block, cancel | routing, data links, loops and failures meet in one node; results of a concurrent batch are applied one after the other |
| Workflow executor (`workflow/engine/executor.py`, `runner.py`) | run state (status, variables, current node, error list), output cache, `_active_lists`, `_states`, snapshots | execute_async, cancel, pause, resume, cleanup | cancel and pause at an await, deadline, block and resume, restart |
| Workflow service (`workflow/services.py`) | execution rows (SQL), background asyncio tasks | enqueue, run, start, cancel, pause, resume | read and write of a row in separate transactions; several tasks for one row; restart |
| Workflow state store (`workflow/state_store.py`) | one snapshot per state id | save, load, load by prompt, delete | written at another time than the row |
| Background tasks (`services/task_manager.py`, `tasks/`) | task rows, owned asyncio tasks, abort contexts, output files | create, start, cancel, kill, shutdown, recover | terminal status decided on a stale read; cancel against completion |
| Cron (`cron/`) | job objects and the list of them, APScheduler's jobs, rows, executions, a semaphore | add, edit, pause, resume, remove, trigger, tick, run, retry, start, stop | a run ends after its job was edited, paused or removed; saves that fail; restart |
| Circuit breaker, LLM routing (`llm/`) | a breaker per provider, the chain of a task, calls under way | complete, stream, record success / failure, reload | answers that come after the breaker opened, asking a breaker changes it, retries around failover, streams that break |
| Execution plane (`runtime/`) | registry of live and blocked runs, pause tokens | start, block, resume, stop | resume of a run that is going away |
| Agent loop (`agent/controller.py`, `agent/query.py`, `agent/control.py`) | conversation, tool calls and budgets of a turn, registry of running turns, steer messages | begin, ask the model, gate, dispatch, deliver, recover, pause, steer, cancel, save | turns of one session overlap; cancel and disconnection at every await; pairing of calls and results |
| Tool approvals (`tools/approval.py`, `tools/auto_review.py`, `tools/executor.py`) | pending request, grants for one run and for the session | check, request, reply, review | one permission is checked in three places and one of them uses it up |
| Session store (`services/session/`) | the transcript and the interrupted turn of a session, an LRU tier, a lock per session | load, save, evict | read at the start of a turn, replaced at its end |
| MCP client (`mcp/client.py`, `mcp/manager.py`) | a process, two locks and a request counter per client, the registered client of a server | connect, call, disconnect, request, time-out | overlapping requests over one pipe, answers that come after a time-out, a server that ends or hangs |
| Agent kernel and checkpoints (`sdk/kernel`) | turn checkpoints, sub-agents | pause, resume | resume of a run that is going away |
| Events, webhooks, event bus | subscriptions, queues, deliveries | publish, deliver, retry | slow subscribers, duplicates |
| Output caches (`workflow/engine/caching.py`) | LRU and RAM-pressure entries | get, set, evict | accounting, eviction before a resume |
| Others (API, auth, channels, memory, context, tools, code execution, front end) | see `PROJECT.json` | | mostly I/O, rendering and CRUD |

How they interact: an HTTP handler (or a task handler, or a cron job) calls the workflow service; the
service writes an execution row, loads the document and awaits `executor.execute_async`, in the handler
itself (`run`, `start`) or in a background asyncio task (`enqueue`). The executor builds an
`ExecutionList`, stages batches of ready nodes, gathers `NodeRunner.run` over each batch, and applies the
results in the order of the node ids. A node that blocks ends the run with a snapshot; `resume` starts a
new attempt on the same state, with the output cache in place of the completed nodes. `cancel` and
`pause` reach a run only through `_active_lists` and `_states`, by the state id that the row holds.

A chat request runs a turn in the controller: it loads the transcript from the session store, asks the model
through the LLM service (which fails over along a chain of providers, each behind its breaker), has the tool
executor run the calls of an answer, and saves its conversation. Other requests of the same session steer the
turn, cancel it, or answer the card of an approval. A cron job starts a chat, a workflow or a tool, and writes its
job back when the run is over.

What makes each of them correct: *scheduler*: no node starts before its inputs, none is forgotten, none
runs twice unless a loop says so; *executor*: a run ends, its verdict is true, a stop is obeyed, a resume
loses nothing; *service*: a row that says live is being driven, a row that is over stays over, a control
that was acknowledged has its effect; *tasks*: one run per task, a terminal status is final; *cron*: a pause
holds, what is removed stays away, memory and rows agree, every run gives its place back; *routing*: nobody asks a
provider that is cut off, a stream has one source, every call ends; *agent*: the model is asked with a history that
providers accept, nothing gated runs without a decision that allows it, a cancel reaches every turn and is obeyed,
no message is lost or doubled; *MCP client*: an answer goes to the request it answers, a request ends, a
process is held by somebody; *execution plane*: what is registered is alive and what is alive is registered.

## 2. Modules

| Module | What it is | Uses |
|---|---|---|
| `RunStatus` | the statuses of a run and `FinalStatus`, the verdict `execute_async` computes | |
| `ExecutionList` | the scheduler as pure operators on a record (ready, in progress, completed, skipped, blocked, cancelled, chosen routes) for a document of at most a few nodes | |
| `WorkflowExecutor` | the executor as a state machine over the scheduler's operators | `ExecutionList`, `RunStatus` |
| `WorkflowRun` | the abstract specification: what an executor promises about one run at a time | `RunStatus` |
| `WorkflowService` | tasks that drive runs and handlers that cancel and pause them, over rows, states and snapshots | `RunStatus` |
| `TaskManager` | background tasks: coroutines, requests that cancel or kill, shutdown, crash and recovery | |
| `Cron` | jobs in memory, in the scheduler and in rows; clients, runs, the semaphore, saves, stop and restart | |
| `LLMRouting` | a breaker per provider and the calls that fail over and retry along a chain | |
| `Transcript` | the messages of a chat session, what providers accept, and the repair that brings a transcript there, as pure operators | |
| `AgentSession` | the turns of one chat session, tool approvals, steer messages, cancellation and the stored transcript | `Transcript` |
| `MCPClient` | handlers that connect to, call and disconnect from one external tool server over a pipe | |
| `MCWorkflowExecutor`, `MCWorkflowService`, `MCTaskManager`, `MCCron`, `MCLLMRouting`, `MCAgentSession` | instances for TLC; `MCPClient` needs none | the module of that name |
| `...Proofs` | the theorems; `AgentSessionProofs` builds on `TranscriptProofs` | the module of that name, `TLAPS` |

How they compose: `WorkflowExecutor` contains the scheduler's state as one variable, `sched`, and calls
its operators where the executor calls its methods. `WorkflowExecutor` is shown to implement
`WorkflowRun`. `WorkflowService` does not repeat nodes and batches: for it a run is something that starts,
may block, may be stopped and ends with a verdict that `FinalStatus` (shared with the executor) allows.
`AgentSession` joins four parts of the program that act on the same session (controller and query loop, approvals,
steer and cancel registry, session store), because what goes wrong there goes wrong between them. The other modules
stand alone: a workflow task is one of `TaskManager`'s handlers, a target of `Cron` is something that ends, fails or
times out, and a question to the model is a step of `AgentSession` that answers or fails, which `LLMRouting` opens up.

### ExecutionList

A document is a record of functions on node ids: `data` (strong links), `next` (`control.next`), `alts`
(the alternatives of a condition or gate), `branches`, `handler` (`control.on_error`), and `routes`, `retry`
and `exhausted` for what a node may return as `next_node`. Node ids are numbers in the order in which the
code sorts its ids, because batches are staged and results are applied in that order.
Each method of `ExecutionList` (graph.py) is one operator, with every call it makes: `CompleteNode`
promotes the dependents, `SelectBranch` prunes and skips subtrees, `ReopenOrAdd` resets a loop body and
adds its head. The depth-first walks of the code are breadth-first closures here (`Walk`); they collect
the same sets, and `AddNodes` adds a set of seeds at once, which is why no recursive operator is needed.

### WorkflowExecutor

`phase` is the place of the asyncio task in `execute_async`: `loop` (head of `_run_loop`), `gather` (the
batch runs), `apply` (results are applied one by one), `save` (the snapshot is written), `finish` (after
the loop), `ended`. Control is given away at the awaits in `gather` and `save` only, so `Cancel`, `Pause`
and the deadline interleave there and nowhere else. `RunNode` is `NodeRunner.run` with the cache lookup
before and the cache write after the node's own code, which may return, route, fail or block as its kind
allows. `Restart` forgets the in-memory states and the output cache and keeps the snapshot.

### WorkflowService

A task in the model is the coroutine of one run: `load` (read the row and the document), `run` and
`blocked` (inside the executor), `raised` (an exception on its way out), `record` (write the verdict), `done`.
A handler reads the row (`Accept`), calls the executor (`CallExecutor`) and writes the row (`WriteRow`), in
three steps, since they are three awaits. Every task and handler acts on the same `_active_lists` (`active`),
`_states` (`inMemory`), snapshots (`saved`) and `WorkflowState.status` (`stateStatus`).

### TaskManager

`row` is the committed status of a task; `OPEN` stands for a row that a transaction has inserted and not
committed. `run` are the coroutines of `_run_task`: `poll` (waits for the row), `handler`, `read` and
`write` (the last session, which tests the status and then writes it), `done`. A cancelled coroutine can only
be `Interrupted`, at the await it is suspended in, and then marks its row killed unless a kill has taken
over that duty (`killOwned`). A request loads the row (`Load`, or `CallKill` for callers that do not), acts
(`CancelTask`, `KillTask`), reads (`KillReads`, with the loaded row if there is one) and commits.

### Cron

A job is one object (`job`) that is listed or not (`jobs`), known to APScheduler or not (`scheduled`) and saved
or not (`rows`, `row`). A request changes it in memory and in the scheduler at once, under `CronManager._lock`, and
saves it in a step of its own (`op`, `SaveChange`, `DeleteRow`), since the save is an await. A run (`run`) is
submitted by the scheduler (`Tick`) or a request (`TriggerJob`), waits for the executor's semaphore (`queue`), runs
its target with retries and time-out, then changes and saves the job it began with, without the lock (`EndRun`,
`SaveRun`). What a save writes is what memory says at that moment; it may fail (`unsaved`). `Stop` is
`CronManager.stop`, `Restart` a start from the rows after a stop or a crash. The conditions under which the code puts
a job into the scheduler are kept as they are: `update_job` tests the status before it is set, which is why a
client's resume leaves the job unscheduled (section 7). Two facts seen in the code and of no consequence to the
properties: `execution.timeout()` is overwritten by the manager's `execution.fail`, and `cancel_execution` never finds
an execution to cancel.

### LLMRouting

A breaker is its state, its counters, whether its timeout has passed (`expired`) and the `is_healthy` that the
service keeps beside it. A call (`Wake`, `Return`) is at a place of the chain: a pass asks the candidates that are available
one after the other, and `_with_transient_retries` rests and makes another pass. Whether a breaker is available
changes it (`Asked`: an open one whose time is up becomes half-open by the question), so the choice of the next provider and
the record of the last answer are one step, as they are in the code between two awaits. `Reload` rebuilds the
providers, and calls under way go on.

### AgentSession

`Transcript` has the messages: a message is its role, the calls it asks for or answers, and the kind of its body; a call is
a turn, a number and a tool. `Repair` is the pair of passes over a history before the model is asked and before it is saved:
`DropOrphans` leaves out tool rows that answer nothing, `AddStubs` puts a placeholder for each call without a row. `WellFormed`
is what providers accept. `run[t]` is the place of a turn: `load`, `ask` (the model answers), `gate` (permission of one call of the batch after the
other), `pause` (the card), `dispatch` (the calls run), `steer` (messages are drained), `close`, `save`. `conv` is the
controller's conversation, which is saved, `hist` the query loop's messages, which the model is asked with; a truncated
answer is kept in the one and dropped from the other. Steps that the code takes without an await are one step: the check for
a cancel and the check of a call's permission before it starts; the draining of steer messages and their delivery; the
card and the pending row. `book` notes what was decided and done, for the properties only.

### MCPClient

A handler is a request to the HTTP API that connects the server, disconnects it or calls one of its
tools. A request over a client passes `write` (waits for the write lock), `drain` (has written, waits for room in the pipe), `wait`
(for the read lock) and `read`; a handler that connects makes several, one after the other (`init`, then up to three lists). Both
locks are `asyncio.Lock`, which wakes its waiters in their order; that order is the order of the request ids, and
`Foremost` says so without keeping queues. `asked` is what the server has read and not answered, `pipe` what it has
written and nobody has read; whoever holds the read lock takes the head, for the code does not compare ids (client.py:340). `got` records
whose answer a handler took. The manager's part is one server's: `Connect` tests for a connected client and makes a new one, `Open`
registers it after the awaits of the handshake, and `Ended` unregisters whatever is there by then (manager.py:417). The server is
external: it answers, ends, and may stop reading.

## 3. Runs

| Run | Question | Bounds |
|---|---|---|
| `wf_core` | Does a run ever hang, forget a node, start a node before its links, run it twice, go on after a stop, report a wrong verdict, lose what was computed, or never end? | three documents taken from the templates and the shapes they use, 128 forward documents of 5 nodes, 16 with a condition and 18 with a loop; two nodes per batch; one run, one resume, one restart |
| `svc_core` | Is a live row driven until the process restarts, a settled row left alone, does a cancel reach a resumed run, what survives the restart, and does every queued row get settled? | 1 execution, 3 tasks, 1 handler, all entries, one restart, fair |
| `tm_core` | Is a running task attended to, a kill complete, an ended task left alone, and does every task end? | 1 durable task, 2 coroutines, 2 requests, shutdown or crash and recovery, fair |
| `cron_core` | Does a pause hold, is a removed or disabled job ever scheduled, do rows say what memory says, does every run end? | 1 job, 2 runs, 1 retry, 1 place in the semaphore, 2 changes by clients, 2 processes, fair |
| `llm_routing` | Is a provider asked while it is cut off, a breaker closed past its threshold, a stream continued by another provider, a call endless? | 2 providers, a chain of 3 places that names one of them twice, 2 calls, thresholds 2, 2 passes, 1 reload, fair |
| `agent_session` | Is the model ever asked with a history that a provider refuses, does a gated tool run without leave, is a steer message lost or doubled, is a turn out of a cancel's reach or deaf to it? | 2 turns that may overlap, 1 answer each, up to 2 calls, one recovery, one steer, one cancel, disconnection or failure, a reviewer |
| `agent_ends` | Does every request come to its end? | 2 turns that may overlap, 2 answers, up to 2 calls, one recovery, one trouble, the user decides, fair |
| `mcp_client` | Do answers keep in step with the requests although no id is compared, and does every handler end? | 3 handlers, 2 clients, up to 1 list after the handshake, a server that answers in order, falls silent, stops reading or ends, fair |

*Why these bounds are enough to be of interest.* In `wf_core` the templates contain what the code treats
specially: a loop over a gate and a refine node with an exhausted branch, a condition, an error handler, a
node that blocks in one batch with another that does not, a node that blocks alone. The 128 forward
documents vary the data links, the agreement of control edges with them, the handler and the outputs,
so that no property depends on one drawing; those with a condition have two ways that meet or do not, and data links within and across
them, found when the run begins or when it arrives there; the documents with a loop vary its body and what leaves it. Two nodes per
batch suffice for the order of results to matter.
One resume is where the cache and the snapshot are used. In `svc_core` three tasks for one execution are
enough for a run, its resume and another after a restart; `svc_safety.cfg`, kept beside it, has two handlers and lets two resumes overlap (`MCWorkflowService`; it passes); executions share nothing but the maps keyed by
their own state ids. In `tm_core` two coroutines allow the start before and the recovery after a restart; two
requests allow a cancel to race with a kill, and a kill with another; tasks do not share anything keyed by
something else than their own id, so one task stands for all. In `cron_core` two runs of one job allow one that waits
while another holds the semaphore, ends and saves; two changes allow a pause and its undoing, or an edit and a removal,
around a run; jobs share only the semaphore. In `llm_routing` a chain that comes back to its first provider lets a call meet the
breaker it has opened itself, and two calls let one's late answer meet the breaker the other has opened.
In `agent_session` the batches are none, a question to the user, and a gated call followed by two safe ones of which the last
exceeds the limit of calls; two turns are enough to overlap, to answer the other's card, to steal its steer
message and to save over it. More answers per turn are in `agent_ends`. In `mcp_client` three
handlers are a connection or a disconnect with two calls, or three requests of which one gives up and two read on; the second client is the
one that a later or a concurrent connection makes.

Four more runs each show one place where the program does not do what its documentation or comments say;
section 7 lists these and others that are kept as configurations.

Every property of a passing run has a mutant of the code in the module it is about (`...Swapped`,
`...NoWait`, `...Mutated`, and so on, in a comment each): with the mutant in place TLC refutes the property.

`CHECK_DEADLOCK FALSE` stands where the system stops: clients send a bounded number of requests, and when they are
answered nothing is left to do. `wf_core` checks deadlock, since a finished run there stutters explicitly.

## 4. Fairness

*Executor.* `Scheduled`: the event loop resumes a coroutine that can go on, and a deadline that was set
passes (`asyncio.wait_for`, executor.py:338). That the nodes themselves return is not assumed: it is the premise
`NodesReturn` of `EveryRunEnds` and absent from `DeadlineEndsRun`. A step that takes a node out of the batch in
phase `apply` is exactly a step that applies a result, which is how the fairness of the three Apply actions
is written. *Service.* Weak fairness of each task and handler; that the executor's run ends is
`EveryRunEnds` of the executor's own module. Nobody is assumed to resume a blocked run, and no client to
call anything. *Tasks.* Weak fairness of each coroutine (a handler is bounded by the task's timeout,
task_manager.py:289), of each request, of the commit or rollback of an open transaction (bounded by the database)
and of the recovery at startup. *Cron.* Weak fairness of each run, of the end of its target (bounded by the job's timeout)
and of the save that holds the lock (the database answers or fails). *Routing.* Weak fairness of each call's waking and of
the provider's return (`complete` is cut by the task's timeout, a stream by the one for a chunk). *Agent.* Weak fairness of
each turn: providers and tools answer or time out, and the event loop runs what can run. *MCP client.* Weak fairness of each
handler's own steps, a time-out among them; of the server nothing is asked. No client, tick, shutdown,
crash or cancel is assumed to happen anywhere.

## 5. Environment assumptions

- *Forward documents.* `ForwardDepsFinished`, `ForwardRunsOnce` and `ForwardOutputsFinished` are about
  documents without a loop-safe node (`Forward`). A node that some outcome of a condition leaves out, or that comes after one
  (`LeftOut`), may be skipped; what goes wrong then depends on when a data link to it is found. `ForwardRunsOnce` is about
  documents in which every such link is on the way from the outputs or the start (`EarlyDocs`), so that `add_node` never walks up to
  a node that was skipped; `ForwardOutputsFinished` about those in which no node waits for the data of the condition that
  may leave it out while others wait for its own (`UngatedDocs`), so that nothing stays neither run nor skipped. Beyond these
  both fail (`v_branch_twice`, `v_branch_output`), which is what makes the two classes the right ones.
- *No cycles.* `NoCycleAssumption`: the data links of the outputs have no cycle. `execute_async` raises
  `DependencyCycleError` otherwise (executor.py:206-207), before anything is staged.
- *Loops.* With a loop, `reopen` takes back the finished dependents of a
  node but not those that are ready, so a dependent can run beside the regeneration of what it links to.
- *`MayOverlap` of the service.* In `svc_core` clients do not resume an execution that is being resumed; `svc_safety` lets
  them. With overlapping resumes `WaitingIsDurable` fails: of two runs on one state the snapshot of one
  cannot be written, and the other records that it waits.
- *`InOrder` of the tool server.* The server answers in the order of the requests, as servers that handle one line after the
  other do; the protocol does not promise it. Without it answers get out of step (`v_unordered`). The server sends no lines unasked.
- *`SlowCommit` and `EarlyTraffic`* are false in `tm_core`: a start commits before its run gives up on the row
  after two seconds, and clients are held back until the recovery is over. The program guarantees neither
  (hazards at task_manager.py:270 and jobs.py:140); setting either constant to TRUE shows the consequence.
- *Database.* In `TaskManager` reads and writes succeed. In the workflow modules the snapshot and the loading of
  a document may fail; row updates do not. In `Cron` each save may fail, the load at startup does not (if it
  fails the manager runs without jobs). In `AgentSession` the load may fail, the save does not.
- *Bounds on behaviours.* One restart (two processes in `Cron`); requests, coroutines, executions, calls and turns are not
  reused after they are done; `MaxEdits`, `MaxReloads`, `MaxSteers` and `MaxTroubles` (cancels, disconnections and
  failures together) bound what the outside does.
- *A call that a provider does not refuse.* In `AgentSession` what follows an answer is one of `Batches`; the proofs take any
  set of sequences of tools.

## 6. Proofs

The proof modules need nothing but the assumptions on constants named in the modules and hold for every document,
number of nodes, tasks, runs, requests, jobs, providers, calls, turns, handlers and clients.

*`WorkflowExecutorProofs`.* First, facts about each scheduler operator: it maps a scheduler state to one,
and routing leaves blocked nodes and the cancel flag alone and puts no node in progress. `TypeCorrect` follows
action by action. `NoHang` (a loop never waits for a release) and `NoLostNode` (nodes in progress are the
batch) need `LoopInv`, which joins the two and adds that a block sets the local `paused` flag (`BlockSetsPaused`):
`NeverAwaitsRelease` alone is not inductive, because the loop is left by the flag and not by the blocked set. `Refinement` shows that every step of the executor is a step of `WorkflowRun` or a stutter, under
`RunInv`, which relates the status and the cancel flag while a run is in progress (`StatusAgrees`). `ForwardDeps` rests on `DepsInv`: in a
forward document every ready node has its links finished, which every way of becoming ready must preserve.
`StoppedStartsNothing` needs the types only: no step but a
new attempt clears the flag, and `StageBatch` is guarded by it.

`RunsOnce` rests on `OnceInv`, which holds while nothing has failed: a completed node is neither ready nor in progress, a node in
progress has its inputs, and no skipped node is anybody's input (`Ordered`). The last is what `EarlyDocs` gives: all such links
have been walked when the run begins (`Opened`), and routing skips no node with a dependent. It also needs that a node returns only
what its kind allows (`OutputsAllowed`, of cached results too), for otherwise routing could leave out anything. Each scheduler
operator is shown once to keep this (the lemmas `...Order`). `OutputsDelivered` says that a
run which ends COMPLETED has left nothing: under `AttendInv` every walked node that has its inputs is ready, in progress or finished, and a
successor that was left out is finished or some node's input (`Watched`, `Attended`); a loop that is left early has a status that says
so (`Halted`). When nothing is ready or in progress, the unfinished nodes that an output is
computed from would each wait for another of them (`RunsDry`), that is, lie on a cycle, which `NoCycleAssumption` excludes: the
argument is about the set of them and needs no induction along the links. `ResumeReplays` holds of the classic cache only, as an
assumption of the theorem says (`v_lru_resume` shows the default cache): `CacheInv` relates what is completed, what is in the
cache and what the snapshot holds, through the batch whose outputs are written to the cache one by one (`AppliedCompleted`), a block,
the snapshot and a restart.

*`WorkflowServiceProofs`.* Every step is of one of a few kinds by what it does to the tasks: it spawns some, lets one enter the
executor, moves one on, restarts the process or leaves the tasks alone (`StepKinds`); each operation is shown once to be of its
kind (the lemmas `...Effect`), and the invariants are shown over the kinds. `LiveIsDriven` needs that what a run is about to write
is not live (`RecordSettles`); it speaks of the time until the process restarts (`RestartedStays`), since nothing reads the rows at startup. `SettledIsFinal`
follows from the types. `CancelReachesResumed` needs `StateInv`, which says who runs on which state: a fresh run on its own
(`FreshState`), a row's state id is that of a run which is over (`RowStateDone`), and nobody else comes upon the state of a fresh
run (`FreshAlone`), because as long as there is one the process has not restarted and a resume finds the state it asks for in
memory (`Remembered`). `WaitingSurvives` adds one resume at a time (`OneResume`, where `~MayOverlap` is used), hence no two runs on one
state (`Alone`), and that the status of waiting is set together with a snapshot (`WaitSaved`, `RecordSaved`).

*`TaskManagerProofs`.* `TypeCorrect` is not inductive by itself: a run writes its verdict, so the verdict must be
terminal by then (`WritesTerminal`), and a request keeps the status it has read, so the row must be visible
(`RequestsDecide`). `NoTaskLeftRunning` adds who owes the row a verdict: `_running_tasks` agrees with the runs
(`RunningAgrees`), a cancelled run is awaited by the kill that cancelled it (`CancelledIsAwaited`), and an open start
has a run that polls for it (`OpenIsPolled`, where `~SlowCommit` is used). `KillIsComplete` and `OverIsOver`
use another invariant, `SoloInv`: a task has one run, the one in `_running_tasks`; the jobs to be recovered are
untouched (`RecoveryUndisturbed`, where `~EarlyTraffic` is used); a kill awaits every run of its task. The steps
of the runs, the requests and the process are summarised once (`RunEffect`, `RequestEffect`, `SpawnEffect`,
`ProcessEffect`) and the preservation lemmas cite these summaries.

*`CronProofs`.* One invariant, `CronInv`, carries all four theorems. `RowIsCurrent` needs to know that a job is off the list before
its row is deleted (`DeletedIsUnlisted`) and that whatever is listed or saved was created (`InUse`); `PauseHolds` is an
action property and needs that a job whose pause was answered is disabled in memory *and* in its row (`PausedIsOff`),
because a restart takes what the row says.

*`LLMRoutingProofs`.* `Sound` says of one breaker what the invariants say of all, and every way a breaker can change (asked,
success, failure, timeout, new) keeps it. `BreakerSteps` shows that no step has another way, `CallsLegal` what a call's place
implies. That nobody asks an open breaker rests on the lemma that asking an available one leaves it closed or half-open.

*`TranscriptProofs`.* `RepairWellFormed`: the repair of any messages that the program may write is a transcript that providers
accept, whatever was cut off, doubled or reordered in it before. Both passes concatenate pieces, and what a recursive concatenation
computes is shown once, by induction in the form of a least counterexample (`NatMin`, `NatInd`; the induction theorems of the library
take an operator, which the provers cannot instantiate): every piece has its place in the result, in order, and there is nothing
else (`Laid`, `FlattenLaid`, `ConcatsLaid`). The rest is about places: after the first pass every row follows the message that asked for
it (`OrphansGone`); the second pass moves the head of a block and its rows together (`AddsHead`), and adds what is missing at the
block's end (`StubsFacts`, `StubsRepair`). The lemmas `...Heard` say which steer messages a transcript holds afterwards: those it held.

*`AgentSessionProofs`.* `Legal` says what a turn is without its messages, and `Advance` is all that a step other than a cancel may
make of it; each operation is shown to make no more. `CancelReachesAll` and `CancelIsFinal` follow from these and from what the steps do
to the registry and the cards (`RegistryKept`, `CardsKept`). `NoRunWithoutAllow` uses `GrantInv`, the types of grants and of the
book (`GrantTypes`) together with `RunsNeedAllow`: used and unused grants are counted together, since a decision, a check
and a run happen in different turns. `SteersAreTakenInOrder` counts the messages
that were taken and those that wait as one sequence (`SteerInv`).
`Sound` adds the messages and the limits of a turn, and `Tidy` is what an operation makes of them; each operation is shown to be
tidy (the lemmas `...Tidy`), whence `TypesHold` and, with `RepairWellFormed`, `AskedWellFormedAlways`. The property cuts
the history anywhere, as compaction may, and the theorem holds for every cut. `SteeredOnceAlways` needs
`HeardInv`: a transcript, stored or of a turn, holds only steer messages that were taken, and the turn that took one holds it in one place,
or in none if it was cancelled. Two facts carry it: steer messages are taken in the order in which they are numbered (`SteerNumbers`),
so a number that is taken is in no transcript yet; and a turn that takes messages has loaded its transcript and does not read it again.

*`MCPClientProofs`.* `TypeCorrect` needs that a handler at work has a client. `AnswersInStep` assumes `InOrder` and rests on
`StepInv`, which speaks of the lines of a client that nobody has read (`lines`, answered or not): ids are given in turn
(`Numbered`); requests pass the two locks in the order of their ids (`Ordered`); a line that was written is unread until it is
read (`Written`); a line whose request has given up is preceded by a gap (`Matched`); whoever has read is behind all that is unread
and all that ask (`Behind`); answers lie in order (`Sorted`). `AnswersKeepStep` alone is not inductive, since it says nothing of
requests that have not read yet. What a step does to the lines is shown once (`LinesAdd`, `LinesAnswer`, `LinesRead`), then what it does to the
handlers; `ReadTakes` is the heart: the line that a reader takes is its own or, after a gap, an earlier one.

`BatchIsInProgress` and `HealthyIsUp` are proved and no longer part of a run (their theorems imply what the runs checked).

*Model-checked only*: the liveness properties, `DeadlineEndsRun` and `EveryRunEnds` of the executor, `QueuedIsSettled`,
`RunningEnds`, `EveryRunEnds` of `Cron`, `EveryCallEnds`, `TurnEnds` and `EveryHandlerEnds`: fairness
and ENABLED are out of the prover's reach. Every invariant and every action property of a passing run is a theorem.

## 7. Disagreements between the program and its text

Runs of the project, each with a finding in `PROJECT.json` that quotes the line it contradicts:

| Run | Property | What the program does |
|---|---|---|
| `v_control_lost` | `ControlSticks` | A first run cannot be cancelled or paused (its state id is written with its verdict): it is reported as cancelled or paused, goes on, and is then reported as completed. |
| `v_cron_deleted` | `DeletedStaysDeleted` | A run that ends after its job was removed saves the job again: the job is back after a restart. |
| `v_transcript` | `TranscriptKept` | Of two overlapping turns, the one that saves last takes the other's messages out of the transcript. |
| `v_approval_once` | `ApprovedRuns` | The gate uses up the grant for one run, and the executor refuses the call that the user has just approved. |

Further configurations reproduce a disagreement each; `tlc -config <name>.cfg <module>.tla` shows it.

| Configuration, module | Property | What the program does, and what it says |
|---|---|---|
| `v_refine`, `MCWorkflowExecutor` | `RefineDelivers` | A refine loop that fails its gate twice ends COMPLETED with nothing delivered: the refine node is still counted as completed when the gate routes to it again (graph.py:193). |
| `v_branch_twice`, `MCWorkflowExecutor` | `BranchRunsOnce` | A node skipped with the branch it is on is made ready again by the walk up a data link (`add_node`, graph.py:227-229), together with the node that links to it, which counts it as finished: that node runs without the input, and runs a second time when the input is there (graph.py:385-390), although the comment at graph.py:156-158 has it that pruning prevents "a data link that crosses a control branch from prematurely activating a gated downstream node". |
| `v_branch_output`, `MCWorkflowExecutor` | `BranchOutputsFinished` | A node whose control edge is pruned and to which another node links is neither skipped (graph.py:310) nor promoted: what waits for it never runs, an output node among them, and the run ends COMPLETED. |
| `v_resume_target`, `MCWorkflowExecutor` | `ResumeReachesBlocked` | The human's answer goes to the last node of the batch, not to the node that asked (executor.py:354). |
| `v_lru_resume`, `MCWorkflowExecutor` | `ResumeSkipsComputed` | With the default cache mode a snapshot holds no outputs: a resume after a restart runs the computed nodes again. |
| `v_double_start`, `MCWorkflowService` | `OneRunAtATime` | `start` with extra data runs an execution twice at the same time. |
| `v_terminal`, `MCTaskManager` | `TerminalIsFinal` | A terminal task status is overwritten by whoever decided on an older one. |
| `v_job_lost`, `MCTaskManager` | `JobSurvivesRestart` | An orderly restart marks a running durable job KILLED, so the recovery does not take it up; a crash would not lose it. |
| `v_cron_resume`, `MCCron` | `ResumedIsScheduled` | A job that a client resumes is not put back into the scheduler before a restart (manager.py:225; "Resume a paused job"). |
| `v_cron_overlap`, `MCCron` | `RunsAlone` | A scheduled run begins while another run of the same job is under way. |
| `v_timeout`, `MCLLMRouting` | `TimeoutFailsOver` | A call that times out at one provider fails and the next is not asked (llm/service.py:245; error_policy.py:46-49 calls timeouts retryable for failover). |
| `v_unread`, `MCAgentSession` | `UnreadKept` | A turn that could not read the transcript "just won't have history" (controller.py:579-596), and its save replaces the history that was there. |
| `v_denied_runs`, `MCAgentSession` | `DeniedStaysDenied` | A call that the reviewer refuses (auto_review.py:8, "fail-closed") runs all the same with the grant that another call of the batch was given: grants are per tool, not per call. |
| `v_finished_lost`, `MCAgentSession` | `FinishedIsReported` | A call whose result was on the way when the turn was cancelled is recorded as interrupted "before this tool finished". |
| `v_continue_lost`, `MCAgentSession` | `InterruptedCanContinue` | The state of a cancelled turn is saved "so the user can resume with 'continue'" (controller.py:742), and the save that follows wipes it (store.py:304). |
| `v_answers`, `MCPClient` | `OwnAnswer` | After a time-out the late answer stays in the pipe, and every later request is given the answer of an earlier one, for as long as the connection lasts ("Send a JSON-RPC request and wait for response", client.py:266; ids are sent and not compared). |
| `v_unordered`, `MCPClient` | `AnswersKeepStep` | With a server that answers out of order, as JSON-RPC allows, handlers are given each other's answers. |
| `v_stray`, `MCPClient` | `NoStrayProcess` | A failed handshake (manager.py:350), two concurrent connections, or a connection while a disconnect waits leave a process running that no client holds. |
| `v_stuck`, `MCPClient` | `EndsWithoutServer` | When the server stops reading, `drain` (client.py:333), which no time-out covers, holds the write lock and all later requests wait. |

Seen while reading, without a configuration: a breaker that is open may be closed by a late success before its time
(`OpenUntilTimeout` of `LLMRouting`; circuit_breaker.py:108); the probes of the API act on another registry of providers than
the calls; `reset_circuit` and `start_health_monitor` have no callers; the branch of `_with_transient_retries` for rate limits is never reached;
`validate_schedule` accepts schedules of six fields, which `_schedule_job` then drops with a log line; a steer message accepted after the last
batch waits for a later turn; `run_tool` changes the time-out on the shared tool object for its rerun (executor.py:1777-1800), so two overlapping
reruns leave it doubled; a rerun ignores a cancel; a call that was allowed once and times out is refused its rerun; a reply
whose pending row is gone adds a row that answers nothing; pending approvals live in memory only; a tool server whose process has ended stays `is_connected`, so that `connect_server` returns True without connecting; `call_tool` raises `KeyError`
(as a failed call) after a call that succeeded if its server was removed meanwhile (manager.py:569); `start_background_tasks`, `load_config` and `register_tools_in_registry` of the
manager are called by nothing in the application; `max_total_tokens` is
never set by the query engine.

## 8. Not modelled

- *Workflow engine*: expansion frames (no node returns an expansion); `release_external_block` (its only caller finds
  no live list in a suspended run); the worker and the prompt queue (the deployed service has none); input
  resolution, sanitising, progress events, mute and bypass modes, single-node execution of parallel branches;
  eviction from the output cache.
- *Tasks*: output files, events, children of a batch, the distributed registry, failing writes of the row.
- *Cron*: hooks, notifications, heartbeats, the execution history; `JsonJobRepository`, used only without a database;
  the parsing of schedules.
- *Routing*: how a task gets its chain, the content of requests, metrics and costs, the registry of `ProviderConfigService`.
- *Agent*: prompts, what compaction keeps (the property cuts a history anywhere instead), the recovery hint put into a history, retries of
  rate limits inside a question to the model, middleware, checkpoints and the resume from one, sub-agents and planner,
  policies and rules (a tool is gated or not), the tools themselves, the LRU tier of the session store, attachments and todos.
- *MCP client*: the HTTP transport (each request has its own response), adding and removing servers and the configuration file, the
  health loop and the registration of tools (nothing in the application starts them), lines that the server sends unasked, the content of requests and answers.
- *Everything that is I/O or text*: channels' protocols, tools, prompts, memory ranking, API, authentication,
  the front end. `PROJECT.json` lists each component with its reason. This is most of the repository by size.

## 9. Plan

In this order; each with an MC module, a run, and theorems where the invariants are inductive.

1. **OutputCache** (`workflow/engine/caching.py`): get, set, eviction and the RAM accounting of the three caches; the
   abstract specification is a partial map, and a cache may forget but never return another key's output.
   Composed with `WorkflowExecutor` through `CacheMode`.
2. **ExecutionRegistry and kernel checkpoint** (`runtime/`, `sdk/kernel`): pause tokens, resume of a run that is
   going away; what is registered is alive. Composed with `AgentSession`.
3. **EventBus and Webhooks** (`events`): bounded queues of subscribers, at-least-once delivery with retries.
4. **Batch children and database failures** in `TaskManager`, **channels**.
5. **Proofs**: the invariants of the new modules; in the present ones what the runs do not check but the documentation promises, where it holds.
