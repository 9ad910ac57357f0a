----------------------------- MODULE TaskManager -----------------------------
(***************************************************************************)
(* TaskManager of services/task_manager.py with its clients: the task API, *)
(* the admin API, the kill tool and the cron executor, which start, cancel *)
(* and kill tasks, and recover_pending_jobs of tasks/jobs.py, which takes  *)
(* durable jobs up again after a restart.                                  *)
(*                                                                         *)
(* A task has a row in the database and, while it runs, a coroutine        *)
(* (_run_task).  Whoever ends a task reads its row in one transaction step *)
(* and writes it in a later one, without a lock or a version in between.   *)
(* Reads and writes of the database are taken to succeed.                  *)
(***************************************************************************)
EXTENDS Naturals, FiniteSets

CONSTANTS
    Task,       \* the task rows
    Durable,    \* those of a type that recover_pending_jobs knows (import)
    Run,        \* the coroutines that run _run_task
    NoTask, NoRun,
    Request,    \* the handlers that cancel or kill
    SlowCommit, \* whether a start may commit after the run gave up on its row
    EarlyTraffic, \* whether clients are served while jobs are recovered
    MayRestart  \* whether the process may stop or die, and start again (once)

ASSUME TaskAssumption ==
    /\ Durable \subseteq Task
    /\ NoTask \notin Task
    /\ NoRun \notin Run
    /\ SlowCommit \in BOOLEAN
    /\ EarlyTraffic \in BOOLEAN
    /\ MayRestart \in BOOLEAN

VARIABLES
    row,        \* the committed status of each task
    run,        \* the coroutines
    running,    \* _running_tasks
    registered, \* the tasks with a context in _active_contexts
    aborted,    \* the tasks whose latest context is aborted
    killOwned,  \* _kill_owned_cancellations
    request,    \* the handlers
    recovery,   \* recover_pending_jobs: what it does, and the jobs to restart
    life        \* of the process

memory == <<running, registered, aborted, killOwned>>
vars == <<row, run, memory, request, recovery, life>>

Terminal == {"COMPLETED", "FAILED", "CANCELLED", "KILLED", "TIMEOUT"}
TaskStatus == Terminal \cup {"PENDING", "QUEUED", "RUNNING"}

\* A row that is not there yet, is in an open transaction, or was rolled back.
NotVisible == {"NONE", "OPEN", "GONE"}

\* verdict: what the run will write; an aborted run that returned is killed.
Verdict == {"RETURNED", "COMPLETED", "FAILED", "KILLED", "TIMEOUT"}
RunPC == {"idle", "poll", "handler", "read", "write", "done"}
RunRecord == [pc : RunPC, of : Task \cup {NoTask}, verdict : Verdict, cancelled : BOOLEAN]
IdleRun == [pc |-> "idle", of |-> NoTask, verdict |-> "RETURNED", cancelled |-> FALSE]

\* seen: the status the handler has read.
Kind == {"cancel", "flip", "kill", "direct"}
RequestPC == {"idle", "act", "get", "commit", "done"}
RequestRecord == [pc : RequestPC, of : Task \cup {NoTask}, kind : Kind,
                  seen : TaskStatus \cup {"UNREAD"}, waits : Run \cup {NoRun}]
IdleRequest == [pc |-> "idle", of |-> NoTask, kind |-> "cancel",
                seen |-> "UNREAD", waits |-> NoRun]

Life == {"first", "stopping", "second"}

TypeOK ==
    /\ row \in [Task -> TaskStatus \cup NotVisible]
    /\ run \in [Run -> RunRecord]
    /\ \A r \in Run : run[r].pc # "idle" => run[r].of \in Task
    /\ running \in [Task -> Run \cup {NoRun}]
    /\ registered \in SUBSET Task
    /\ aborted \in SUBSET Task
    /\ killOwned \in SUBSET Task
    /\ request \in [Request -> RequestRecord]
    /\ \A q \in Request : request[q].pc # "idle" => request[q].of \in Task
    /\ recovery \in [pc : {"off", "query", "requeue"}, todo : SUBSET Task]
    /\ life \in Life

Init ==
    /\ row = [t \in Task |-> "NONE"]
    /\ run = [r \in Run |-> IdleRun]
    /\ running = [t \in Task |-> NoRun]
    /\ registered = {}
    /\ aborted = {}
    /\ killOwned = {}
    /\ request = [q \in Request |-> IdleRequest]
    /\ recovery = [pc |-> "off", todo |-> {}]
    /\ life = "first"

-----------------------------------------------------------------------------
\* Creation and start.

Recovering == recovery.pc # "off"

Serving == life # "stopping" /\ (EarlyTraffic \/ ~Recovering)

SetRow(t, status) == row' = [row EXCEPT ![t] = status]

\* start_task: the coroutine is created; a context that is still registered
\* is used again.
Spawn(t, r) ==
    /\ run[r].pc = "idle"
    /\ run' = [run EXCEPT ![r] = [pc |-> "poll", of |-> t, verdict |-> "RETURNED",
                                  cancelled |-> FALSE]]
    /\ running' = [running EXCEPT ![t] = r]
    /\ registered' = registered \cup {t}
    /\ aborted' = IF t \in registered THEN aborted ELSE aborted \ {t}
    /\ UNCHANGED killOwned

\* create_task and start_task in one transaction, still open.
Start(t, r) ==
    /\ Serving
    /\ row[t] = "NONE"
    /\ SetRow(t, "OPEN")
    /\ Spawn(t, r)
    /\ UNCHANGED <<request, recovery, life>>

CommitStart(t) ==
    /\ row[t] = "OPEN"
    /\ SetRow(t, "RUNNING")
    /\ UNCHANGED <<run, memory, request, recovery, life>>

RollBackStart(t) ==
    /\ row[t] = "OPEN"
    /\ SetRow(t, "GONE")
    /\ UNCHANGED <<run, memory, request, recovery, life>>

\* A task whose time has not come, or one whose type has no handler: no run.
CreateOnly(t) ==
    /\ Serving
    /\ row[t] = "NONE"
    /\ \E status \in {"QUEUED", "FAILED"} : SetRow(t, status)
    /\ registered' = registered \cup {t}
    /\ UNCHANGED <<run, running, aborted, killOwned, request, recovery, life>>

-----------------------------------------------------------------------------
\* _run_task.  Cancellation (task.cancel) takes effect at the await the
\* coroutine is suspended in: after it only Interrupted can happen.

At(r, pc) == run[r].pc = pc /\ ~run[r].cancelled

\* The `finally' of _run_task.
Leave(r) ==
    LET t == run[r].of
    IN  /\ run' = [run EXCEPT ![r].pc = "done"]
        /\ registered' = registered \ {t}
        /\ running' = [running EXCEPT ![t] = NoRun]
        /\ killOwned' = killOwned \ {t}
        /\ UNCHANGED aborted

\* Mutant of Go: the verdict is written where the state belongs.
GoSwapped(r, pc, verdict) ==
    run' = [run EXCEPT ![r] = [@ EXCEPT !.pc = verdict, !.verdict = verdict]]

Go(r, pc, verdict) ==
    run' = [run EXCEPT ![r] = [@ EXCEPT !.pc = pc, !.verdict = verdict]]

\* The run waits (two seconds) until its row is visible; it does not look at
\* the status.
FindRow(r) ==
    /\ At(r, "poll")
    /\ row[run[r].of] \notin NotVisible
    /\ Go(r, "handler", "RETURNED")
    /\ UNCHANGED <<row, memory, request, recovery, life>>

\* _mark_failed then finds no row either.
GiveUp(r) ==
    /\ At(r, "poll")
    /\ row[run[r].of] \in IF SlowCommit THEN {"OPEN", "GONE"} ELSE {"GONE"}
    /\ Leave(r)
    /\ UNCHANGED <<row, request, recovery, life>>

\* Mutant of HandlerEnds: the handler is not bounded by the task's timeout.
HandlerEndsUntimed(r) ==
    /\ At(r, "handler")
    /\ run[r].of \in aborted
    /\ \E verdict \in {"RETURNED", "FAILED"} : Go(r, "read", verdict)
    /\ UNCHANGED <<row, memory, request, recovery, life>>

\* The handler returns, raises, or is stopped by wait_for at its timeout.
HandlerEnds(r) ==
    /\ At(r, "handler")
    /\ \E verdict \in {"RETURNED", "FAILED", "TIMEOUT"} :
         /\ Go(r, "read", verdict)
         /\ aborted' = IF verdict = "TIMEOUT" THEN aborted \cup {run[r].of} ELSE aborted
    /\ UNCHANGED <<row, running, registered, killOwned, request, recovery, life>>

\* The last session of _run_task, or the one of _mark_failed, _mark_killed
\* or _mark_timeout: a row that is already terminal is left alone.
ReadRow(r) ==
    LET t == run[r].of
        verdict == IF run[r].verdict # "RETURNED" THEN run[r].verdict
                   ELSE IF t \in aborted THEN "KILLED" ELSE "COMPLETED"
    IN  /\ At(r, "read")
        /\ IF row[t] \in Terminal
           THEN Leave(r)
           ELSE Go(r, "write", verdict) /\ UNCHANGED memory
        /\ UNCHANGED <<row, request, recovery, life>>

WriteRow(r) ==
    /\ At(r, "write")
    /\ SetRow(run[r].of, run[r].verdict)
    /\ Leave(r)
    /\ UNCHANGED <<request, recovery, life>>

\* In an except clause already: a cancellation is not caught again.
Marking(r) == run[r].pc \in {"read", "write"} /\
              run[r].verdict \notin {"RETURNED", "COMPLETED"}

\* CancelledError.  A commit under way may have taken effect or not.  The run
\* marks itself killed, except when a kill does it or when it was marking.
Interrupted(r) ==
    LET t == run[r].of
    IN  /\ run[r].pc \in {"poll", "handler", "read", "write"}
        /\ run[r].cancelled
        /\ \/ UNCHANGED row
           \/ run[r].pc = "write" /\ SetRow(t, run[r].verdict)
        /\ IF t \in killOwned \/ Marking(r)
           THEN Leave(r)
           ELSE /\ run' = [run EXCEPT ![r] = [@ EXCEPT !.pc = "read", !.verdict = "KILLED",
                                                       !.cancelled = FALSE]]
                /\ UNCHANGED memory
        /\ UNCHANGED <<request, recovery, life>>

-----------------------------------------------------------------------------
\* The handlers.  The API handlers load the row first and go on with the row
\* they have loaded (session.get returns the object of the session); the kill
\* tool and the cron executor call kill_task without it.

Admit(q, t, kind, seen, pc) ==
    /\ Serving
    /\ request[q].pc = "idle"
    /\ row[t] \notin NotVisible
    /\ request' = [request EXCEPT ![q] = [pc |-> pc, of |-> t, kind |-> kind,
                                          seen |-> seen, waits |-> NoRun]]
    /\ UNCHANGED <<row, run, memory, recovery, life>>

\* Mutant of Load: the status of the row is not looked at.
LoadAnyStatus(q, t) ==
    \E kind \in {"cancel", "flip", "kill"} :
        Admit(q, t, kind, "RUNNING", IF kind = "flip" THEN "commit" ELSE "act")

\* cancel_task and kill_task of the APIs up to the guard; the admin's cancel
\* ("flip") does not go to the TaskManager.
Load(q, t) ==
    \E kind \in {"cancel", "flip", "kill"} :
        /\ row[t] \notin Terminal
        /\ Admit(q, t, kind, row[t], IF kind = "flip" THEN "commit" ELSE "act")

CallKill(q, t) == Admit(q, t, "direct", "UNREAD", "act")

Abort(t) == aborted' = IF t \in registered THEN aborted \cup {t} ELSE aborted

\* TaskManager.cancel_task: abort the context, set the row to cancelled.
CancelTask(q) ==
    /\ request[q].pc = "act"
    /\ request[q].kind = "cancel"
    /\ Abort(request[q].of)
    /\ request' = [request EXCEPT ![q].pc = "commit"]
    /\ UNCHANGED <<row, run, running, registered, killOwned, recovery, life>>

\* Mutant of KillTask: the run is cancelled but not awaited.
KillTaskNoWait(q) ==
    LET t == request[q].of
        r == running[t]
    IN  /\ request[q].pc = "act"
        /\ request[q].kind \in {"kill", "direct"}
        /\ Abort(t)
        /\ request' = [request EXCEPT ![q].pc = "get"]
        /\ IF r = NoRun THEN UNCHANGED <<run, killOwned>>
           ELSE /\ killOwned' = killOwned \cup {t}
                /\ run' = [run EXCEPT ![r].cancelled = TRUE]
        /\ UNCHANGED <<row, running, registered, recovery, life>>

\* TaskManager.kill_task: abort the context, cancel the run and await it.
KillTask(q) ==
    LET t == request[q].of
        r == running[t]
    IN  /\ request[q].pc = "act"
        /\ request[q].kind \in {"kill", "direct"}
        /\ Abort(t)
        /\ request' = [request EXCEPT ![q] = [@ EXCEPT !.pc = "get", !.waits = r]]
        /\ IF r = NoRun THEN UNCHANGED <<run, killOwned>>
           ELSE /\ killOwned' = killOwned \cup {t}
                /\ run' = [run EXCEPT ![r].cancelled = TRUE]
        /\ UNCHANGED <<row, running, registered, recovery, life>>

\* The rest of kill_task: the row is read only if no one has read it yet.
KillReads(q) ==
    LET seen == IF request[q].seen = "UNREAD" THEN row[request[q].of] ELSE request[q].seen
        waits == request[q].waits
    IN  /\ request[q].pc = "get"
        /\ waits # NoRun => run[waits].pc = "done"
        /\ request' = [request EXCEPT ![q] =
             [@ EXCEPT !.seen = seen, !.pc = IF seen \in Terminal THEN "done" ELSE "commit"]]
        /\ UNCHANGED <<row, run, memory, recovery, life>>

\* The request's transaction commits.
Commit(q) ==
    /\ request[q].pc = "commit"
    /\ SetRow(request[q].of, IF request[q].kind \in {"kill", "direct"} THEN "KILLED"
                                                                       ELSE "CANCELLED")
    /\ request' = [request EXCEPT ![q].pc = "done"]
    /\ UNCHANGED <<run, memory, recovery, life>>

-----------------------------------------------------------------------------
\* The process.

Alive(r) == run[r].pc \in {"poll", "handler", "read", "write"}

\* shutdown, after the server has drained its requests: every run is aborted
\* and cancelled.
Shutdown ==
    /\ MayRestart
    /\ life = "first"
    /\ \A q \in Request : request[q].pc \in {"idle", "done"}
    /\ \A t \in Task : row[t] # "OPEN"
    /\ life' = "stopping"
    /\ run' = [r \in Run |-> IF Alive(r) THEN [run[r] EXCEPT !.cancelled = TRUE] ELSE run[r]]
    /\ aborted' = aborted \cup {run[r].of : r \in {s \in Run : Alive(s)}}
    /\ UNCHANGED <<row, running, registered, killOwned, request, recovery>>

\* The process is gone, after a shutdown or by a crash, and starts again.
\* Open transactions are rolled back; recovery is part of the startup.
Restart ==
    /\ MayRestart
    /\ life # "second"
    /\ life' = "second"
    /\ row' = [t \in Task |-> IF row[t] = "OPEN" THEN "GONE" ELSE row[t]]
    /\ run' = [r \in Run |-> IF Alive(r) THEN [run[r] EXCEPT !.pc = "done"] ELSE run[r]]
    /\ request' = [q \in Request |-> IF request[q].pc = "idle" THEN request[q]
                                     ELSE [request[q] EXCEPT !.pc = "done"]]
    /\ running' = [t \in Task |-> NoRun]
    /\ registered' = {}
    /\ aborted' = {}
    /\ killOwned' = {}
    /\ recovery' = [pc |-> "query", todo |-> {}]

\* Mutant of QueryStale: running jobs are not taken up again.
QueryQueuedOnly ==
    /\ recovery.pc = "query"
    /\ recovery' = [pc |-> "requeue",
                    todo |-> {t \in Durable : row[t] \in {"PENDING", "QUEUED"}}]
    /\ UNCHANGED <<row, run, memory, request, life>>

\* recover_pending_jobs: the durable jobs that are not terminal.
QueryStale ==
    /\ recovery.pc = "query"
    /\ recovery' = [pc |-> "requeue",
                    todo |-> {t \in Durable : row[t] \in TaskStatus \ Terminal}]
    /\ UNCHANGED <<row, run, memory, request, life>>

\* Each is set to queued, whatever its row says by now, and started.  The
\* transaction holds the row until it commits, so its steps are one.
Requeue(t, r) ==
    /\ recovery.pc = "requeue"
    /\ t \in recovery.todo
    /\ SetRow(t, "RUNNING")
    /\ Spawn(t, r)
    /\ recovery' = [recovery EXCEPT !.todo = @ \ {t}]
    /\ UNCHANGED <<request, life>>

RecoveryEnds ==
    /\ recovery = [pc |-> "requeue", todo |-> {}]
    /\ recovery' = [pc |-> "off", todo |-> {}]
    /\ UNCHANGED <<row, run, memory, request, life>>

Recover == QueryStale \/ RecoveryEnds \/ \E t \in Task, r \in Run : Requeue(t, r)

RunStep(r) ==
    FindRow(r) \/ GiveUp(r) \/ HandlerEnds(r) \/ ReadRow(r) \/ WriteRow(r) \/ Interrupted(r)

RequestStep(q) == CancelTask(q) \/ KillTask(q) \/ KillReads(q) \/ Commit(q)

Next ==
    \/ \E t \in Task, r \in Run : Start(t, r)
    \/ \E t \in Task : CommitStart(t) \/ RollBackStart(t) \/ CreateOnly(t)
    \/ \E r \in Run : RunStep(r)
    \/ \E q \in Request, t \in Task : Load(q, t) \/ CallKill(q, t)
    \/ \E q \in Request : RequestStep(q)
    \/ Shutdown \/ Restart \/ Recover

Spec == Init /\ [][Next]_vars

\* The event loop resumes every coroutine and handler; a handler of a task is
\* bounded by its timeout, a database transaction by its own.
FairSpec ==
    /\ Spec
    /\ \A t \in Task : WF_vars(CommitStart(t) \/ RollBackStart(t))
    /\ \A r \in Run : WF_vars(RunStep(r))
    /\ \A q \in Request : WF_vars(RequestStep(q))
    /\ WF_vars(Recover)

-----------------------------------------------------------------------------
(***************************************************************************)
(* Properties.                                                             *)
(***************************************************************************)

AtWork(q, t) == request[q].pc \in {"act", "get", "commit"} /\ request[q].of = t

RunsOf(t) == {r \in Run : Alive(r) /\ run[r].of = t}

\* A task whose row says running has a run, a kill that took over the duty to
\* write its row, or a recovery to come; only the tasks of a type that is not
\* recovered are left behind by a restart.
RunningIsAttended ==
    \A t \in Task : row[t] = "RUNNING" =>
        \/ RunsOf(t) # {}
        \/ \E q \in Request : AtWork(q, t) /\ request[q].kind \in {"kill", "direct"}
        \/ recovery.pc = "query" \/ t \in recovery.todo
        \/ life = "stopping"
        \/ life = "second" /\ t \notin Durable

\* When a kill writes the row, no run of the task is left.
KillStopsRun ==
    [][\A q \in Request :
          Commit(q) /\ request[q].kind \in {"kill", "direct"} => RunsOf(request[q].of) = {}]_vars

\* A request that goes by the status it has read.
Deciding(q, t) == AtWork(q, t) /\ request[q].seen # "UNREAD"

\* A task that is over, with nobody at work on it, stays over: its row does
\* not change, it is not run again, not even by the recovery, and no request
\* sets out to cancel or kill it.
OverStaysOver ==
    [][\A t \in Task :
          /\ row[t] \in Terminal
          /\ RunsOf(t) = {}
          /\ \A q \in Request : ~Deciding(q, t)
          => /\ row'[t] = row[t]
             /\ RunsOf(t)' = {}
             /\ \A q \in Request : ~Deciding(q, t)']_vars

\* A task that runs comes to an end, and a durable one does so even if the
\* process dies.
RunningEnds ==
    \A t \in Task : row[t] = "RUNNING" ~>
        \/ row[t] \in Terminal
        \/ life = "stopping"
        \/ life = "second" /\ t \notin Durable

\* A terminal status is final.
TerminalIsFinal ==
    [][\A t \in Task : row[t] \in Terminal => row'[t] = row[t]]_vars

\* A durable job is killed only by a request; a restart does not cost it.
JobSurvivesRestart ==
    \A t \in Durable : row[t] = "KILLED" =>
        \E q \in Request : request[q].pc # "idle" /\ request[q].of = t
=============================================================================
