--------------------------- MODULE WorkflowExecutor ---------------------------
(***************************************************************************)
(* WorkflowExecutor of workflow/engine/executor.py driving one document:   *)
(* fresh runs one after the other on one executor, each of them paused and *)
(* resumed, cancelled, timed out, or resumed after a restart of the        *)
(* process.  NodeRunner.run (runner.py) is RunNode, with its output cache. *)
(*                                                                         *)
(* One asyncio task drives a run.  It gives control away only while the    *)
(* nodes of a batch run (phase "gather") and while a snapshot is written   *)
(* (phase "save"): cancel and pause can happen only there.                 *)
(***************************************************************************)
EXTENDS ExecutionList, RunStatus

CONSTANTS
    Docs,           \* the documents to run
    MaxParallelism, \* max_parallelism: nodes per batch
    MaxIterations,  \* max_iterations of the refine nodes
    CacheMode,      \* "classic", "lru" or "none": build_cache_set
    MaxRuns,        \* bound: fresh runs
    MaxResumes      \* bound: resumes, over all the runs

ASSUME ExecutorAssumption ==
    /\ Docs \subseteq Document
    /\ MaxParallelism \in Nat \ {0}
    /\ MaxIterations \in Nat
    /\ CacheMode \in {"classic", "lru", "none"}
    /\ MaxRuns \in Nat
    /\ MaxResumes \in Nat

\* execute_async refuses the other documents (DependencyCycleError).
ASSUME NoCycleAssumption == \A d \in Docs : ~HasCycle(d)

VARIABLES
    doc,        \* the document
    sched,      \* the ExecutionList of the current attempt
    phase,      \* where execute_async is
    batch,      \* the staged nodes whose results are not applied yet
    result,     \* what each of them returned
    hasPaused,  \* the local `paused' of _run_loop
    status,     \* state.status
    errors,     \* errors_list: the nodes that failed in this attempt
    current,    \* state.current_node
    answers,    \* the nodes with a __resume__<node> variable in the state
    iteration,  \* the refine_iteration variable of the state
    run,        \* number of the current fresh run
    resumes,    \* number of resumes so far
    cache,      \* cache_set.outputs: the run that stored a node's output
    stored,     \* the snapshot in the state store
    inMemory    \* _states still holds the state of the current run

exec == <<sched, phase, batch, result, hasPaused, errors>>
state == <<status, current, answers, iteration>>
vars == <<doc, exec, state, run, resumes, cache, stored, inMemory>>

-----------------------------------------------------------------------------

Phase == {"ended", "loop", "gather", "apply", "save", "finish"}

\* What a node returned: an output with or without next_node, an error (an
\* output.error or a NodeExecutionError), a block, or nothing yet.  from is
\* the run that computed the output.
Result == [tag : {"pending", "ok", "route", "error", "block"},
           to : Target, from : 0..MaxRuns]

Pending == [tag |-> "pending", to |-> NoNode, from |-> 0]

\* Mutant of Returned: the output of a run is filed under the next one.
ReturnedLate(tag, to) == [tag |-> tag, to |-> to, from |-> run + 1]

Returned(tag, to) == [tag |-> tag, to |-> to, from |-> run]

\* A cached output: the result it replays, "pending" when there is none.
EmptyCache == [n \in Node |-> Pending]

Snapshot == [current : Target, answers : SUBSET Node, iteration : 0..MaxIterations + 1,
             cache : [Node -> Result]]

NoSnapshot == [current |-> NoNode, answers |-> {}, iteration |-> 0, cache |-> EmptyCache]

TypeOK ==
    /\ doc \in Docs
    /\ sched \in Scheduler
    /\ phase \in Phase
    /\ batch \in SUBSET Node
    /\ result \in [Node -> Result]
    /\ hasPaused \in BOOLEAN
    /\ status \in Status
    /\ errors \in SUBSET Node
    /\ current \in Target
    /\ answers \in SUBSET Node
    /\ iteration \in 0..MaxIterations + 1
    /\ run \in 0..MaxRuns
    /\ resumes \in 0..MaxResumes
    /\ cache \in [Node -> Result]
    /\ stored \in Snapshot
    /\ inMemory \in BOOLEAN

Init ==
    /\ doc \in Docs
    /\ sched = EmptyScheduler
    /\ phase = "ended"
    /\ batch = {}
    /\ result = [n \in Node |-> Pending]
    /\ hasPaused = FALSE
    /\ status = "PENDING"
    /\ errors = {}
    /\ current = NoNode
    /\ answers = {}
    /\ iteration = 0
    /\ run = 0
    /\ resumes = 0
    /\ cache = EmptyCache
    /\ stored = NoSnapshot
    /\ inMemory = TRUE

-----------------------------------------------------------------------------
\* execute_async up to the loop: a new ExecutionList with the output nodes,
\* then the start node.
Begin ==
    /\ sched' = AddNodes(doc, EmptyScheduler, doc.outputs \cup {doc.start})
    /\ phase' = "loop"
    /\ batch' = {}
    /\ result' = [n \in Node |-> Pending]
    /\ hasPaused' = FALSE
    /\ status' = "RUNNING"
    /\ errors' = {}

\* A fresh run; the executor and its output cache outlive the previous one.
StartRun ==
    /\ phase = "ended"
    /\ run < MaxRuns
    /\ Begin
    /\ run' = run + 1
    /\ current' = NoNode
    /\ answers' = {}
    /\ iteration' = 0
    /\ stored' = NoSnapshot
    /\ inMemory' = TRUE
    /\ UNCHANGED <<doc, resumes, cache>>

\* Mutant of Resume: the output cache is not restored.
ResumeWithoutCache ==
    /\ phase = "ended"
    /\ status \in Suspended
    /\ resumes < MaxResumes
    /\ Begin
    /\ current' = IF inMemory THEN current ELSE stored.current
    /\ answers' = (IF inMemory THEN answers ELSE stored.answers) \cup ({current'} \ {NoNode})
    /\ iteration' = IF inMemory THEN iteration ELSE stored.iteration
    /\ inMemory' = TRUE
    /\ resumes' = resumes + 1
    /\ UNCHANGED <<doc, run, cache, stored>>

\* resume: the state from memory, else from the snapshot, else a new one; the
\* answer goes to the node recorded as current.
Resume ==
    LET from == IF inMemory
                THEN [current |-> current, answers |-> answers,
                      iteration |-> iteration, cache |-> cache]
                ELSE stored
    IN  /\ phase = "ended"
        /\ status \in Suspended
        /\ resumes < MaxResumes
        /\ Begin
        /\ current' = from.current
        /\ answers' = from.answers \cup ({from.current} \ {NoNode})
        /\ iteration' = from.iteration
        /\ cache' = from.cache
        /\ inMemory' = TRUE
        /\ resumes' = resumes + 1
        /\ UNCHANGED <<doc, run, stored>>

\* The process restarts while the run is suspended: the state and the output
\* cache in memory are gone.
Restart ==
    /\ phase = "ended"
    /\ status \in Suspended
    /\ inMemory
    /\ inMemory' = FALSE
    /\ cache' = EmptyCache
    /\ UNCHANGED <<doc, exec, state, run, resumes, stored>>

-----------------------------------------------------------------------------
\* The head of the loop.

\* Mutant of TimeOut: the gather is not bounded by the deadline.
TimeOutAtLoopHead ==
    /\ doc.deadline
    /\ phase = "loop"
    /\ ~IsDone(sched)
    /\ status' = "TIMEOUT"
    /\ sched' = CancelList(sched)
    /\ batch' = {}
    /\ phase' = "finish"
    /\ UNCHANGED <<doc, result, hasPaused, errors, current, answers, iteration,
                   run, resumes, cache, stored, inMemory>>

\* A run that is over its deadline ends as TIMEOUT and its results are lost.
TimeOut ==
    /\ doc.deadline
    /\ \/ phase = "loop" /\ ~IsDone(sched)
       \/ phase = "gather"
    /\ status' = "TIMEOUT"
    /\ sched' = CancelList(sched)
    /\ batch' = {}
    /\ phase' = "finish"
    /\ UNCHANGED <<doc, result, hasPaused, errors, current, answers, iteration,
                   run, resumes, cache, stored, inMemory>>

\* Nothing is ready.  With a blocked node left, stage_ready_batch would wait
\* for a release instead.
LeaveLoop ==
    /\ phase = "loop"
    /\ IsDone(sched) \/ sched.ready \cup sched.blocked = {}
    /\ phase' = "finish"
    /\ UNCHANGED <<doc, sched, batch, result, hasPaused, errors, state,
                   run, resumes, cache, stored, inMemory>>

StageBatch ==
    LET first == FirstReady(sched, MaxParallelism)
    IN  /\ phase = "loop"
        /\ ~IsDone(sched)
        /\ sched.ready # {}
        /\ batch' = first
        /\ sched' = Stage(sched, first)
        /\ result' = [n \in Node |-> Pending]
        /\ phase' = "gather"
        /\ UNCHANGED <<doc, hasPaused, errors, state, run, resumes, cache, stored, inMemory>>

-----------------------------------------------------------------------------
\* NodeRunner.run.

\* The outputs the code of node n can produce now.
Outputs(n) ==
    CASE doc.kind[n] \in {"task", "wait"} -> {Returned("ok", NoNode)}
      [] doc.kind[n] \in {"condition", "gate"} ->
            {Returned("route", m) : m \in doc.routes[n]}
      [] doc.kind[n] = "refine" ->
            {Returned("route", IF iteration < MaxIterations THEN doc.retry[n]
                                                            ELSE doc.exhausted[n])}
      [] doc.kind[n] = "review" ->
            {Returned(IF n \in answers THEN "ok" ELSE "block", NoNode)}
      [] doc.kind[n] = "agent" ->
            {Returned(tag, NoNode) : tag \in {"ok", "block"}}

Cached(n) == n \in doc.cacheable /\ cache[n].tag # "pending"

\* A node runs: its cached output, an error, or what its code returns.  A
\* successful output of a cacheable node is stored.  Retries of a transient
\* failure happen inside this step.
RunNode(n) ==
    /\ phase = "gather"
    /\ n \in batch
    /\ result[n].tag = "pending"
    /\ \E r \in IF Cached(n) THEN {cache[n]}
                ELSE Outputs(n) \cup {Returned("error", NoNode)} :
         /\ result' = [result EXCEPT ![n] = r]
         /\ IF ~Cached(n) /\ n \in doc.cacheable /\ CacheMode # "none"
               /\ r.tag \in {"ok", "route"}
            THEN cache' = [cache EXCEPT ![n] = r]
            ELSE UNCHANGED cache
         /\ iteration' = IF doc.kind[n] = "refine" /\ r.tag = "route"
                            /\ iteration <= MaxIterations
                         THEN iteration + 1 ELSE iteration
    /\ answers' = IF ~Cached(n) /\ doc.kind[n] \in {"review", "agent"}
                  THEN answers \ {n} ELSE answers
    /\ UNCHANGED <<doc, sched, phase, batch, hasPaused, errors, status, current,
                   run, resumes, stored, inMemory>>

\* The gather returns when every node of the batch has.
Gathered ==
    /\ phase = "gather"
    /\ \A n \in batch : result[n].tag # "pending"
    /\ phase' = "apply"
    /\ UNCHANGED <<doc, sched, batch, result, hasPaused, errors, state,
                   run, resumes, cache, stored, inMemory>>

-----------------------------------------------------------------------------
\* _apply_node_result, in the order of the batch.

LoopSafe(n) == doc.kind[n] \in {"wait", "refine"}

AfterError(n) ==
    LET failed == FailNode(sched, n)
        handler == doc.handler[n]
    IN  IF handler = NoNode THEN failed
        ELSE AddNode(doc, SelectBranch(doc, failed, n, handler), handler)

\* next_node if the output names one or the node is a ConditionNode, else
\* control.next.
AfterOutput(n) ==
    LET routes == result[n].to # NoNode \/ doc.kind[n] = "condition"
        target == IF routes THEN result[n].to ELSE doc.next[n]
        selected == IF routes \/ target # NoNode
                    THEN SelectBranch(doc, sched, n, target) ELSE sched
        routed == IF target # NoNode
                  THEN ReopenOrAdd(doc, selected, target, LoopSafe(n)) ELSE selected
    IN  CompleteNode(doc, routed, n)

\* After the last result of a batch the loop goes on unless a node blocked.
AfterResult(n, pausedNow) ==
    /\ batch' = batch \ {n}
    /\ current' = n
    /\ hasPaused' = pausedNow
    /\ phase' = IF batch # {n} THEN "apply"
                ELSE IF pausedNow THEN "finish" ELSE "loop"

NextToApply(n) == phase = "apply" /\ n \in batch /\ \A m \in batch : n <= m

ApplyError(n) ==
    /\ NextToApply(n)
    /\ result[n].tag = "error"
    /\ errors' = errors \cup {n}
    /\ sched' = AfterError(n)
    /\ AfterResult(n, hasPaused)
    /\ UNCHANGED <<doc, result, status, answers, iteration, run, resumes, cache, stored, inMemory>>

ApplyOutput(n) ==
    /\ NextToApply(n)
    /\ result[n].tag \in {"ok", "route"}
    /\ sched' = AfterOutput(n)
    /\ AfterResult(n, hasPaused)
    /\ UNCHANGED <<doc, result, errors, status, answers, iteration, run, resumes,
                   cache, stored, inMemory>>

\* A blocked node: the status is set, then the snapshot is written.
ApplyBlock(n) ==
    /\ NextToApply(n)
    /\ result[n].tag = "block"
    /\ sched' = AddExternalBlock(sched, n)
    /\ status' = IF doc.kind[n] = "review" THEN "WAITING_HUMAN" ELSE "PAUSED"
    /\ current' = n
    /\ hasPaused' = TRUE
    /\ batch' = batch \ {n}
    /\ phase' = "save"
    /\ UNCHANGED <<doc, result, errors, answers, iteration, run, resumes, cache, stored, inMemory>>

\* Mutant of SaveSnapshot: the loop goes on after a block.
SaveSnapshotGoesOn ==
    /\ phase = "save"
    /\ stored' = [current |-> current, answers |-> answers, iteration |-> iteration,
                  cache |-> IF CacheMode = "classic" THEN cache ELSE EmptyCache]
    /\ phase' = IF batch # {} THEN "apply" ELSE "loop"
    /\ UNCHANGED <<doc, sched, batch, result, hasPaused, errors, state,
                   run, resumes, cache, inMemory>>

\* Only the classic cache has snapshot_entries.
SaveSnapshot ==
    /\ phase = "save"
    /\ stored' = [current |-> current, answers |-> answers, iteration |-> iteration,
                  cache |-> IF CacheMode = "classic" THEN cache ELSE EmptyCache]
    /\ phase' = IF batch # {} THEN "apply" ELSE "finish"
    /\ UNCHANGED <<doc, sched, batch, result, hasPaused, errors, state,
                   run, resumes, cache, inMemory>>

-----------------------------------------------------------------------------
\* The end of execute_async and the lifecycle controls.

Finish ==
    /\ phase = "finish"
    /\ status' = FinalStatus(status, errors # {})
    /\ phase' = "ended"
    /\ UNCHANGED <<doc, sched, batch, result, hasPaused, errors, current, answers,
                   iteration, run, resumes, cache, stored, inMemory>>

Interruptible == phase \in {"gather", "save"}

Cancel ==
    /\ Interruptible
    /\ ~sched.cancelled
    /\ sched' = CancelList(sched)
    /\ status' = "CANCELLED"
    /\ UNCHANGED <<doc, phase, batch, result, hasPaused, errors, current, answers,
                   iteration, run, resumes, cache, stored, inMemory>>

Pause ==
    /\ Interruptible
    /\ status # "PAUSED"
    /\ status' = "PAUSED"
    /\ UNCHANGED <<doc, exec, current, answers, iteration, run, resumes, cache, stored, inMemory>>

\* Nothing is running: the executor waits for a caller.
Idle == phase = "ended" /\ UNCHANGED vars

Next ==
    \/ StartRun \/ Resume \/ Restart
    \/ TimeOut \/ LeaveLoop \/ StageBatch \/ Gathered \/ SaveSnapshot \/ Finish
    \/ \E n \in Node : RunNode(n) \/ ApplyError(n) \/ ApplyOutput(n) \/ ApplyBlock(n)
    \/ Cancel \/ Pause \/ Idle

Spec == Init /\ [][Next]_vars

\* The asyncio loop keeps scheduling the task of the run, and a deadline
\* that has been set eventually passes (asyncio.wait_for).  A step of Next
\* takes a node out of the batch in phase "apply" exactly when it applies a
\* result, so Applies states the fairness of the three Apply actions.
Applies == phase = "apply" /\ \E n \in batch : batch' = batch \ {n}

Scheduled ==
    /\ WF_vars(LeaveLoop \/ StageBatch \/ Gathered \/ SaveSnapshot \/ Finish)
    /\ WF_batch(Applies)
    /\ WF_vars(TimeOut)

\* Every node's code returns or raises in the end.
NodesReturn == WF_vars(\E n \in Node : RunNode(n))

FairSpec == Spec /\ Scheduled

-----------------------------------------------------------------------------
(***************************************************************************)
(* Safety.                                                                 *)
(***************************************************************************)

\* The loop never reaches stage_ready_batch with a blocked node: its wait for
\* a release has no caller inside a run, so the run would hang for good.
NeverAwaitsRelease ==
    phase \in {"loop", "gather"} => sched.blocked = {}

\* The nodes in progress are exactly those of the current batch, and none is
\* left in progress when the loop goes on: no node is forgotten or started
\* outside a batch.
BatchIsInProgress ==
    CASE phase = "gather" -> batch = sched.inProgress
      [] phase \in {"apply", "save"} -> sched.inProgress \subseteq batch
      [] phase = "loop" -> sched.inProgress = {}
      [] OTHER -> TRUE

\* A document whose control flow only goes forward: no loop-safe node.
Forward == \A n \in Node : ~LoopSafe(n)

\* In a forward document a node runs only when each node it links to has
\* completed or been skipped (graph.py: "every node whose strong-link
\* dependencies are satisfied").
ForwardDepsFinished ==
    phase = "gather" /\ Forward => \A n \in batch : RemainingDeps(doc, sched, n) = {}

\* The successors that select_branch is given when n does not fail.
Ways(d, n) ==
    IF d.kind[n] = "condition" THEN d.routes[n]
    ELSE ({d.next[n]} \cup d.routes[n]) \ {NoNode}

\* The successors that some outcome of n leaves out.
LeftBy(d, n) == UNION {Choices(d, n) \ {to} : to \in Ways(d, n)}

\* ... and whatever control flow reaches from those.
LeftOut(d) ==
    Walk(UNION {LeftBy(d, n) : n \in Node},
         [n \in Node |-> SuccessorsOf(d, EmptyScheduler, n) \cup (Ways(d, n) \ {NoNode})])

\* The nodes walked when a run begins.
Opening(d) == Walk(d.outputs \cup {d.start}, d.data)

\* Documents in which no link to a node that may be left out is found late.
EarlyDocs ==
    {d \in Docs : LeftOut(d) \cap Linked(d, Node) \subseteq Linked(d, Opening(d))}

\* Documents in which no node takes an input from the node that may leave it
\* out, unless it is the last of its data path.
UngatedDocs ==
    {d \in Docs : \A n \in Node : \A m \in LeftBy(d, n) \cap Linked(d, Node) : n \notin d.data[m]}

NoneAgain ==
    /\ sched.completed \subseteq sched'.completed
    /\ sched.completed \cap (batch' \ batch) = {}

OutputsFinished == errors = {} /\ doc.outputs \subseteq Finished(sched)

\* In a forward document whose links into branches are known from the start
\* no node is run a second time in an attempt in which nothing has failed.
ForwardRunsOnce ==
    [][phase # "ended" /\ Forward /\ doc \in EarlyDocs /\ errors' = {} => NoneAgain]_vars

\* A run of a forward document in which no link is gated by the node it comes
\* from reports COMPLETED only when each output node has completed or was
\* skipped by routing.
ForwardOutputsFinished ==
    phase = "ended" /\ status = "COMPLETED" /\ Forward /\ doc \in UngatedDocs => OutputsFinished

\* The same of every forward document, as graph.py has it ("prevents a data
\* link that crosses a control branch from prematurely activating a gated
\* downstream node"): a node skipped with its branch is made ready again by
\* the walk up a data link, and runs together with the node that waits for it.
BranchRunsOnce ==
    [][phase # "ended" /\ Forward /\ errors' = {} => NoneAgain]_vars

\* A run of any forward document reports COMPLETED only with its outputs
\* finished: a pruned node that another one links to is neither run nor
\* skipped, and whatever waits for it is left out in silence.
BranchOutputsFinished ==
    phase = "ended" /\ status = "COMPLETED" /\ Forward => OutputsFinished

\* Once cancelled or timed out, an attempt stays so until it ends, whatever
\* results are still applied to its scheduler, and starts no further node.
NothingStagedAfterCancel ==
    [][sched.cancelled /\ phase # "ended" => sched'.cancelled /\ batch' \subseteq batch]_vars

\* When an attempt ended because a node blocked, the attempt that resumes it
\* finds every cacheable node completed before in the output cache
\* (executor.py: "the output cache skips already-computed nodes").
ResumeSkipsComputed ==
    [][Resume /\ sched.blocked # {} =>
          \A n \in sched.completed \cap doc.cacheable : cache'[n].tag # "pending"]_vars

\* A resume hands the answer to each node that blocked.
ResumeReachesBlocked == [][Resume => sched.blocked \subseteq answers']_vars

\* A run that ends COMPLETED after it entered a refine loop has run the node
\* that the loop leads to when it is accepted or exhausted.
RefineDelivers ==
    phase = "ended" /\ status = "COMPLETED" /\ iteration > 0 =>
        \A n \in Node : doc.kind[n] = "refine" => doc.exhausted[n] \in sched.completed

(***************************************************************************)
(* Refinement: a run keeps the promises of WorkflowRun.                    *)
(***************************************************************************)

Run == INSTANCE WorkflowRun WITH
    running <- phase # "ended",
    outcome <- IF phase = "ended" THEN status ELSE "RUNNING",
    stopped <- sched.cancelled,
    failed <- errors # {},
    runs <- run

\* A run starts only when the previous one is over, is resumed only when it
\* is suspended, and reports COMPLETED only if it was neither stopped nor had
\* a failure, FAILED only after a failure, CANCELLED and TIMEOUT only if it
\* was stopped.
ImplementsRun == Run!Spec

(***************************************************************************)
(* Liveness.                                                               *)
(***************************************************************************)

\* A run with a deadline ends even if a node never returns.
DeadlineEndsRun == (phase # "ended" /\ doc.deadline) ~> phase = "ended"

\* When nodes return, every run ends, whatever loops its document has.
EveryRunEnds == NodesReturn => (phase # "ended" ~> phase = "ended")
=============================================================================
