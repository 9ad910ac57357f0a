--------------------------- MODULE WorkflowService ---------------------------
(***************************************************************************)
(* WorkflowService of workflow/services.py, as ServiceManager deploys it:  *)
(* one process, no prompt queue, one WorkflowExecutor, the execution rows  *)
(* in the database and the run snapshots in the state store.               *)
(*                                                                         *)
(* Asyncio tasks drive runs (submitted, started or resumed) while HTTP     *)
(* handlers cancel and pause them.  They interleave at every await: each   *)
(* database transaction and each executor run is a step of its own.  What  *)
(* a run reports is what WorkflowRun and FinalStatus allow; its nodes are  *)
(* the business of WorkflowExecutor.                                       *)
(***************************************************************************)
EXTENDS RunStatus

CONSTANTS
    Execution,  \* the execution rows: one per prompt id
    Task,       \* the asyncio tasks that drive a run
    Request,    \* the HTTP handlers that cancel or pause
    NoTask,     \* no state id, no active run
    Entries,    \* the entry points in use: "enqueue", "run", "start"
    MayRestart, \* whether the process may restart (once)
    MayOverlap  \* whether clients resume an execution that is being resumed

ASSUME ServiceAssumption ==
    /\ NoTask \notin Task
    /\ Entries \subseteq {"enqueue", "run", "start"}
    /\ MayRestart \in BOOLEAN
    /\ MayOverlap \in BOOLEAN

VARIABLES
    row,        \* WorkflowExecution: status and workflow_state_id
    task,       \* the tasks
    request,    \* the handlers
    active,     \* _active_lists: the task whose run is registered for a state
    stateStatus,\* WorkflowState.status, by state id
    inMemory,   \* _states: the states in memory
    saved,      \* the states with a snapshot in the store
    stopped,    \* the tasks whose ExecutionList was cancelled
    restarted   \* the process has restarted

\* A run's WorkflowState is named after the task that created it.
StateId == Task
MaybeState == StateId \cup {NoTask}

vars == <<row, task, request, active, stateStatus, inMemory, saved, stopped, restarted>>
engine == <<active, stateStatus, inMemory, saved, stopped>>

RowStatus == Status \cup {"QUEUED"}
NoRow == [status |-> "NONE", state |-> NoTask]

\* of: the row; kind: "fresh" or "resume"; state: the state it runs on.
TaskPC == {"idle", "load", "run", "blocked", "raised", "record", "done"}

TypeOK ==
    /\ row \in [Execution -> [status : RowStatus, state : MaybeState] \cup {NoRow}]
    /\ \A t \in Task :
         \/ task[t] = [pc |-> "idle"]
         \/ task[t] \in [pc : TaskPC \ {"idle"}, of : Execution, kind : {"fresh", "resume"},
                         state : MaybeState, outcome : Status]
    /\ \A r \in Request :
         \/ request[r] = [pc |-> "idle"]
         \/ request[r] \in [pc : {"act", "write", "done"}, of : Execution,
                            kind : {"CANCELLED", "PAUSED"}, seen : MaybeState]
    /\ active \in [StateId -> Task \cup {NoTask}]
    /\ stateStatus \in [StateId -> Status]
    /\ inMemory \in SUBSET StateId
    /\ saved \in SUBSET StateId
    /\ stopped \in SUBSET Task
    /\ restarted \in BOOLEAN

Init ==
    /\ row = [e \in Execution |-> NoRow]
    /\ task = [t \in Task |-> [pc |-> "idle"]]
    /\ request = [r \in Request |-> [pc |-> "idle"]]
    /\ active = [s \in StateId |-> NoTask]
    /\ stateStatus = [s \in StateId |-> "PENDING"]
    /\ inMemory = {}
    /\ saved = {}
    /\ stopped = {}
    /\ restarted = FALSE

-----------------------------------------------------------------------------
\* The ways in.

\* A task that will still write the row of e.
Driving(t, e) ==
    /\ task[t].pc \in {"load", "run", "blocked", "raised", "record"}
    /\ task[t].of = e

\* Mutant of NewTask: the state id is passed for the execution id.
NewTaskSwapped(e, kind, s) ==
    [pc |-> "load", of |-> s, kind |-> kind, state |-> s, outcome |-> "PENDING"]

NewTask(e, kind, s) ==
    [pc |-> "load", of |-> e, kind |-> kind, state |-> s, outcome |-> "PENDING"]

Insert(e, status) ==
    /\ row[e] = NoRow
    /\ row' = [row EXCEPT ![e] = [status |-> status, state |-> NoTask]]

Spawn(new) ==
    /\ \A t \in DOMAIN new : task[t].pc = "idle"
    /\ task' = [t \in Task |-> IF t \in DOMAIN new THEN new[t] ELSE task[t]]
    /\ UNCHANGED <<request, engine, restarted>>

\* enqueue: without a queue the run becomes a background task.
Enqueue(e, t) ==
    /\ "enqueue" \in Entries
    /\ Insert(e, "QUEUED")
    /\ Spawn([u \in {t} |-> NewTask(e, "fresh", NoTask)])

\* run, and start without extra_data.
RunInline(e, t) ==
    /\ "run" \in Entries
    /\ Insert(e, "RUNNING")
    /\ Spawn([u \in {t} |-> NewTask(e, "fresh", NoTask)])

\* start with extra_data: enqueue, then _execute_inline for the same row.
Start(e, t, inline) ==
    /\ "start" \in Entries
    /\ t # inline
    /\ Insert(e, "QUEUED")
    /\ Spawn([u \in {t, inline} |-> NewTask(e, "fresh", NoTask)])

\* Mutant of Resume: any execution with a state id can be resumed.
ResumeAnyStatus(e, t) ==
    /\ row[e].state # NoTask
    /\ Spawn([u \in {t} |-> NewTask(e, "resume", row[e].state)])
    /\ UNCHANGED row

\* resume_execution up to the load of the document.  The code does not look
\* for a resume under way: MayOverlap says whether a client asks for one.
Resume(e, t) ==
    /\ row[e].status \in Suspended
    /\ row[e].state # NoTask
    /\ MayOverlap \/ \A u \in Task : Driving(u, e) => task[u].kind = "fresh"
    /\ Spawn([u \in {t} |-> NewTask(e, "resume", row[e].state)])
    /\ UNCHANGED row

-----------------------------------------------------------------------------
\* A run, from the load of its document to the verdict.

SetStatus(e, status) == row' = [row EXCEPT ![e].status = status]

\* The flow does not load, or (with the row already running) its document
\* does not validate.  A fresh run then reports FAILED; resume_execution only
\* returns or raises.
LoadFails(t) ==
    LET fresh == task[t].kind = "fresh"
    IN  /\ task[t].pc = "load"
        /\ task' = [task EXCEPT ![t].pc = IF fresh THEN "raised" ELSE "done"]
        /\ \/ UNCHANGED row
           \/ fresh /\ SetStatus(task[t].of, "RUNNING")
        /\ UNCHANGED <<request, engine, restarted>>

\* Mutant of Begin: only a run on a new state is registered.
BeginUnregistered(t, s) ==
    /\ task' = [task EXCEPT ![t].pc = "run", ![t].state = s]
    /\ active' = IF s \in inMemory THEN active ELSE [active EXCEPT ![s] = t]
    /\ stateStatus' = [stateStatus EXCEPT ![s] = "RUNNING"]
    /\ inMemory' = inMemory \cup {s}
    /\ UNCHANGED <<request, saved, stopped, restarted>>

\* execute_async registers the run for its state.
Begin(t, s) ==
    /\ task' = [task EXCEPT ![t].pc = "run", ![t].state = s]
    /\ active' = [active EXCEPT ![s] = t]
    /\ stateStatus' = [stateStatus EXCEPT ![s] = "RUNNING"]
    /\ inMemory' = inMemory \cup {s}
    /\ UNCHANGED <<request, saved, stopped, restarted>>

\* _execute_inline: the row is set to running, a new state is created.
BeginFresh(t) ==
    /\ task[t].pc = "load"
    /\ task[t].kind = "fresh"
    /\ SetStatus(task[t].of, "RUNNING")
    /\ Begin(t, t)

SavedFor(e) == {u \in saved : task[u].of = e}

\* executor.resume: the state from memory, else its snapshot, else a snapshot
\* of the same prompt, else a blank new state.
Found(e, s) ==
    CASE s \in inMemory \cup saved -> {s}
      [] s \notin inMemory \cup saved /\ SavedFor(e) # {} -> SavedFor(e)
      [] OTHER -> {}

BeginResumed(t) ==
    /\ task[t].pc = "load"
    /\ task[t].kind = "resume"
    /\ LET found == Found(task[t].of, task[t].state)
       IN  \E s \in IF found # {} THEN found ELSE {t} : Begin(t, s)
    /\ UNCHANGED row

\* Mutant of Block: no snapshot is written.
BlockUnsaved(t) ==
    /\ task[t].pc = "run"
    /\ \E status \in Suspended :
         stateStatus' = [stateStatus EXCEPT ![task[t].state] = status]
    /\ task' = [task EXCEPT ![t].pc = "blocked"]
    /\ UNCHANGED <<row, request, active, inMemory, saved, stopped, restarted>>

\* A node of the run blocks: the status is set and the snapshot written.
Block(t) ==
    /\ task[t].pc = "run"
    /\ \E status \in Suspended :
         stateStatus' = [stateStatus EXCEPT ![task[t].state] = status]
    /\ saved' = saved \cup {task[t].state}
    /\ task' = [task EXCEPT ![t].pc = "blocked"]
    /\ UNCHANGED <<row, request, active, inMemory, stopped, restarted>>

\* Mutant of SaveFails: the exception ends the task unseen.
SaveFailsSilently(t) ==
    LET s == task[t].state
    IN  /\ task[t].pc \in {"run", "blocked"}
        /\ \E status \in Suspended : stateStatus' = [stateStatus EXCEPT ![s] = status]
        /\ task' = [task EXCEPT ![t].pc = "done"]
        /\ active' = [active EXCEPT ![s] = NoTask]
        /\ UNCHANGED <<row, request, inMemory, saved, stopped, restarted>>

\* The snapshot of a blocked node cannot be written: the exception leaves the
\* executor, which drops the registration, and a resume ends with it.
SaveFails(t) ==
    LET s == task[t].state
    IN  /\ task[t].pc \in {"run", "blocked"}
        /\ \E status \in Suspended : stateStatus' = [stateStatus EXCEPT ![s] = status]
        /\ task' = [task EXCEPT ![t].pc = IF task[t].kind = "fresh" THEN "raised" ELSE "done"]
        /\ active' = [active EXCEPT ![s] = NoTask]
        /\ UNCHANGED <<row, request, inMemory, saved, stopped, restarted>>

\* The loop is over, in time or not; the registration of the state is
\* dropped, whoever made it.
End(t) ==
    LET s == task[t].state
    IN  /\ task[t].pc \in {"run", "blocked"}
        /\ \E failed \in BOOLEAN, status \in {stateStatus[s], "TIMEOUT"} :
             LET verdict == FinalStatus(status, failed)
             IN  /\ stateStatus' = [stateStatus EXCEPT ![s] = verdict]
                 /\ task' = [task EXCEPT ![t].pc = "record", ![t].outcome = verdict]
        /\ active' = [active EXCEPT ![s] = NoTask]
        /\ UNCHANGED <<row, request, inMemory, saved, stopped, restarted>>

\* The final _update_execution.  Only that of a fresh run stores the state id.
Record(t) ==
    LET e == task[t].of
    IN  /\ task[t].pc = "record"
        /\ row' = [row EXCEPT ![e] =
                     [status |-> task[t].outcome,
                      state |-> IF task[t].kind = "fresh" THEN task[t].state ELSE row[e].state]]
        /\ task' = [task EXCEPT ![t].pc = "done"]
        /\ UNCHANGED <<request, engine, restarted>>

\* Mutant of RecordFailure: the exception is not written to the row.
RecordFailureSilently(t) ==
    /\ task[t].pc = "raised"
    /\ task' = [task EXCEPT ![t].pc = "done"]
    /\ UNCHANGED <<row, request, engine, restarted>>

RecordFailure(t) ==
    /\ task[t].pc = "raised"
    /\ SetStatus(task[t].of, "FAILED")
    /\ task' = [task EXCEPT ![t].pc = "done"]
    /\ UNCHANGED <<request, engine, restarted>>

-----------------------------------------------------------------------------
\* cancel_execution and pause_execution: the row is read in one transaction,
\* the executor is called, the row is written in another transaction.

Cancellable == {"QUEUED", "RUNNING", "PENDING", "PAUSED", "WAITING_HUMAN"}

Accept(r, e, kind) ==
    /\ request[r].pc = "idle"
    /\ request' = [request EXCEPT ![r] = [pc |-> "act", of |-> e, kind |-> kind,
                                          seen |-> row[e].state]]
    /\ UNCHANGED <<row, task, engine, restarted>>

Cancel(r, e) == row[e].status \in Cancellable /\ Accept(r, e, "CANCELLED")

Pause(r, e) == row[e].status = "RUNNING" /\ Accept(r, e, "PAUSED")

\* executor.cancel does nothing without a registered run, executor.pause
\* nothing without a state in memory.
CallExecutor(r) ==
    LET s == request[r].seen
        kind == request[r].kind
        reached == s # NoTask /\ IF kind = "CANCELLED" THEN active[s] # NoTask
                                                       ELSE s \in inMemory
    IN  /\ request[r].pc = "act"
        /\ request' = [request EXCEPT ![r].pc = "write"]
        /\ stateStatus' = IF reached THEN [stateStatus EXCEPT ![s] = kind] ELSE stateStatus
        /\ stopped' = IF reached /\ kind = "CANCELLED" THEN stopped \cup {active[s]}
                                                       ELSE stopped
        /\ UNCHANGED <<row, task, active, inMemory, saved, restarted>>

WriteRow(r) ==
    /\ request[r].pc = "write"
    /\ SetStatus(request[r].of, request[r].kind)
    /\ request' = [request EXCEPT ![r].pc = "done"]
    /\ UNCHANGED <<task, engine, restarted>>

\* The process dies and starts again: tasks, handlers and the executor's
\* memory are gone, the database stays.  Nothing reads the rows at startup.
Restart ==
    /\ MayRestart
    /\ ~restarted
    /\ restarted' = TRUE
    /\ task' = [t \in Task |-> IF task[t].pc = "idle" THEN task[t]
                               ELSE [task[t] EXCEPT !.pc = "done"]]
    /\ request' = [r \in Request |-> IF request[r].pc = "idle" THEN request[r]
                                     ELSE [request[r] EXCEPT !.pc = "done"]]
    /\ active' = [s \in StateId |-> NoTask]
    /\ inMemory' = {}
    /\ stopped' = {}
    /\ UNCHANGED <<row, stateStatus, saved>>

TaskStep(t) ==
    \/ LoadFails(t) \/ BeginFresh(t) \/ BeginResumed(t)
    \/ Block(t) \/ SaveFails(t) \/ End(t) \/ Record(t) \/ RecordFailure(t)

RequestStep(r) == CallExecutor(r) \/ WriteRow(r)

Next ==
    \/ \E e \in Execution, t \in Task : Enqueue(e, t) \/ RunInline(e, t) \/ Resume(e, t)
    \/ \E e \in Execution, t, u \in Task : Start(e, t, u)
    \/ \E t \in Task : TaskStep(t)
    \/ \E r \in Request, e \in Execution : Cancel(r, e) \/ Pause(r, e)
    \/ \E r \in Request : RequestStep(r)
    \/ Restart

Spec == Init /\ [][Next]_vars

\* The event loop runs every task and handler to its end; that a run ends is
\* WorkflowExecutor's EveryRunEnds.
FairSpec ==
    /\ Spec
    /\ \A t \in Task : WF_vars(TaskStep(t))
    /\ \A r \in Request : WF_vars(RequestStep(r))

-----------------------------------------------------------------------------
(***************************************************************************)
(* Properties.                                                             *)
(***************************************************************************)

Live == {"QUEUED", "RUNNING"}

\* A handler that will still write the row of e.
Handling(r, e) == request[r].pc \in {"act", "write"} /\ request[r].of = e

\* Until the process restarts, a row that says queued or running has a task that
\* will still write it: no execution is left behind by an exception, a cancel
\* or a pause.
LiveRowDriven ==
    ~restarted => \A e \in Execution : row[e].status \in Live =>
        \E t \in Task : Driving(t, e) /\ task[t].kind = "fresh"

\* A row that waits for a human can be resumed with what was computed, even
\* after a restart: it has a state id and a snapshot.
WaitingIsDurable ==
    \A e \in Execution : row[e].status = "WAITING_HUMAN" =>
        row[e].state # NoTask /\ SavedFor(e) # {}

\* Every execution that is queued or running is settled one day, unless the
\* process restarts.
QueuedIsSettled ==
    \A e \in Execution : row[e].status \in Live ~> row[e].status \notin Live \/ restarted

\* An execution that is over, with no task or handler at work on it, stays
\* over: its row is final and no task takes it up again.
SettledStaysSettled ==
    [][\A e \in Execution :
          /\ row[e].status \in Terminal
          /\ \A t \in Task : ~Driving(t, e)
          /\ \A r \in Request : ~Handling(r, e)
          => row'[e] = row[e] /\ \A t \in Task : ~Driving(t, e)']_vars

\* A cancel that has seen the state id of the one resumed run of an execution
\* stops that run.
ResumedRunHearsCancel ==
    [][\A r \in Request, t \in Task :
          /\ CallExecutor(r)
          /\ request[r].kind = "CANCELLED"
          /\ task[t].pc \in {"run", "blocked"}
          /\ task[t].kind = "resume"
          /\ task[t].state = request[r].seen
          /\ \A u \in Task \ {t} : task[u].pc = "idle" \/ task[u].kind = "fresh"
          => t \in stopped']_vars

\* An execution that was reported as cancelled is not reported as completed
\* later, and one that was reported as paused only after a resume.
ControlSticks ==
    [][\A e \in Execution : row'[e].status = "COMPLETED" =>
          /\ row[e].status # "CANCELLED"
          /\ row[e].status = "PAUSED" =>
                \E t \in Task : Driving(t, e) /\ task[t].kind = "resume"]_vars

Running(e) == {t \in Task : task[t].pc \in {"run", "blocked"} /\ task[t].of = e}

\* One execution is run by one task at a time.
OneRunAtATime == \A e \in Execution : \A t, u \in Running(e) : t = u
=============================================================================
