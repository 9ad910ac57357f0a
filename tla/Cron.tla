--------------------------------- MODULE Cron ---------------------------------
(***************************************************************************)
(* The cron subsystem: CronManager (cron/manager.py) keeps the jobs, hands *)
(* them to APScheduler and to a repository, and starts their runs;         *)
(* CronExecutor (cron/executor.py) runs a target with retries, behind a    *)
(* semaphore.  The clients are the routes of api/v1/cron.py.               *)
(*                                                                         *)
(* A change of a job is made in memory and then saved, under the manager's *)
(* lock; the end of a run changes the same job and saves it without the    *)
(* lock.  A save may fail, and the process may stop or die at any time:    *)
(* what it knows afterwards is what was saved.                             *)
(***************************************************************************)
EXTENDS Naturals, Sequences, FiniteSets

CONSTANTS
    Job,        \* the ids of jobs
    Run,        \* the ids of executions, each used once
    NoJob,
    MaxRetries, \* CronJob.max_retries
    Slots,      \* max_concurrent_executions
    MaxEdits,   \* bound on the changes of jobs by clients
    MaxLives    \* bound on the processes, one after the other

ASSUME CronAssumption ==
    /\ NoJob \notin Job
    /\ MaxRetries \in Nat
    /\ Slots \in Nat \ {0}
    /\ MaxEdits \in Nat
    /\ MaxLives \in Nat

VARIABLES
    job,       \* the job objects; a run keeps the one it started with
    jobs,      \* CronManager._jobs: the ids that are listed
    scheduled, \* the jobs APScheduler knows
    rows,      \* the jobs that have a row in the repository
    row,       \* what the rows say
    op,        \* the change that holds CronManager._lock, and is to be saved
    run,       \* the executions
    queue,     \* the executions that wait for the semaphore, in order
    edits, lives,
    stopping,  \* CronManager.stop was called
    created,   \* the ids in use so far
    paused,    \* the jobs that are disabled by a request that was answered
    unsaved    \* the jobs whose last save failed

memory == <<job, jobs, scheduled>>
store == <<rows, row>>
bounds == <<edits, lives, stopping, created>>
history == <<paused, unsaved>>
vars == <<memory, store, op, run, queue, bounds, history>>

CronJobStatus == {"ACTIVE", "PAUSED", "RUNNING", "FAILED"}
CronJobRecord == [enabled : BOOLEAN, status : CronJobStatus, failures : Nat]

RunPC == {"idle", "submitted", "waiting", "running", "saving", "done"}
RunRecord == [pc : RunPC, of : Job \cup {NoJob}, trigger : {"scheduled", "manual"},
              attempt : 0 .. MaxRetries]

TypeOK ==
    /\ job \in [Job -> CronJobRecord]
    /\ jobs \in SUBSET Job
    /\ scheduled \in SUBSET Job
    /\ rows \in SUBSET Job
    /\ row \in [Job -> CronJobRecord]
    /\ op \in [do : {"none", "save", "delete"}, of : Job \cup {NoJob}]
    /\ op.do # "none" => op.of \in Job
    /\ run \in [Run -> RunRecord]
    /\ \A r \in Run : run[r].pc # "idle" => run[r].of \in Job
    /\ queue \in Seq(Run)
    /\ edits \in 0 .. MaxEdits
    /\ lives \in Nat
    /\ stopping \in BOOLEAN
    /\ created \in SUBSET Job
    /\ paused \in SUBSET Job
    /\ unsaved \in SUBSET Job

NewJob == [enabled |-> TRUE, status |-> "ACTIVE", failures |-> 0]
NoOp == [do |-> "none", of |-> NoJob]
IdleRun == [pc |-> "idle", of |-> NoJob, trigger |-> "scheduled", attempt |-> 0]

Init ==
    /\ job = [j \in Job |-> NewJob]
    /\ jobs = {}
    /\ scheduled = {}
    /\ rows = {}
    /\ row = [j \in Job |-> NewJob]
    /\ op = NoOp
    /\ run = [r \in Run |-> IdleRun]
    /\ queue = <<>>
    /\ edits = 0
    /\ lives = 1
    /\ stopping = FALSE
    /\ created = {}
    /\ paused = {}
    /\ unsaved = {}

UnderWay(r) == run[r].pc \notin {"idle", "done"}

\* Mutant of Executing: a run that is over keeps its place in the semaphore.
ExecutingUnreleased == {r \in Run : run[r].pc \in {"running", "saving", "done"}}

\* The runs with a place in the semaphore.
Executing == {r \in Run : run[r].pc = "running"}

-----------------------------------------------------------------------------
\* Clients: each changes memory at once, and saves in a step of its own with
\* the lock held.

Serving == op = NoOp /\ ~stopping

Schedulable(rec) == rec.enabled /\ rec.status = "ACTIVE"

AddJob(j) ==
    /\ Serving
    /\ j \notin created
    /\ \E e \in BOOLEAN :
          /\ job' = [job EXCEPT ![j] = [enabled |-> e, failures |-> 0,
                                        status |-> IF e THEN "ACTIVE" ELSE "PAUSED"]]
          /\ scheduled' = IF e THEN scheduled \cup {j} ELSE scheduled
    /\ jobs' = jobs \cup {j}
    /\ created' = created \cup {j}
    /\ op' = [do |-> "save", of |-> j]
    /\ UNCHANGED <<store, run, queue, edits, lives, stopping, history>>

\* What the routes change of a job.  An edit gives it another schedule, a
\* note touches neither its schedule nor its state.
Change == {"pause", "resume", "enable", "edit", "note"}

\* Mutant of Changed: a pause writes another word than the type has.
ChangedDisabled(rec, change) ==
    IF change = "pause" THEN [rec EXCEPT !.enabled = FALSE, !.status = "DISABLED"]
    ELSE IF change \in {"resume", "enable"}
         THEN [enabled |-> TRUE, status |-> "ACTIVE", failures |-> 0]
         ELSE rec

Changed(rec, change) ==
    CASE change = "pause" -> [rec EXCEPT !.enabled = FALSE, !.status = "PAUSED"]
      [] change = "resume" -> [enabled |-> TRUE, status |-> "ACTIVE", failures |-> 0]
      [] change = "enable" -> [rec EXCEPT !.enabled = TRUE, !.status = "ACTIVE"]
      [] OTHER -> rec

\* Mutant of Reschedule: only another schedule is told to the scheduler.
RescheduleEdited(j, old, new, change) ==
    IF change = "edit"
    THEN (scheduled \ {j}) \cup {i \in {j} : Schedulable(new)}
    ELSE scheduled

\* The scheduler is told only if the schedule or the enabled flag changes.
Reschedule(j, old, new, change) ==
    IF change = "edit" \/ new.enabled # old.enabled
    THEN (scheduled \ {j}) \cup {i \in {j} : Schedulable(new)}
    ELSE scheduled

UpdateJob(j, change) ==
    /\ Serving
    /\ j \in jobs
    /\ edits < MaxEdits
    /\ edits' = edits + 1
    /\ job' = [job EXCEPT ![j] = Changed(@, change)]
    /\ scheduled' = Reschedule(j, job[j], Changed(job[j], change), change)
    /\ op' = [do |-> "save", of |-> j]
    /\ paused' = IF Changed(job[j], change).enabled THEN paused \ {j} ELSE paused
    /\ UNCHANGED <<jobs, store, run, queue, lives, stopping, created, unsaved>>

RemoveJob(j) ==
    /\ Serving
    /\ j \in jobs
    /\ jobs' = jobs \ {j}
    /\ scheduled' = scheduled \ {j}
    /\ op' = [do |-> "delete", of |-> j]
    /\ UNCHANGED <<job, store, run, queue, bounds, history>>

\* The repository writes what the job says at that moment, and inserts a row
\* that is not there.
Saved(j) ==
    /\ rows' = rows \cup {j}
    /\ row' = [row EXCEPT ![j] = job[j]]
    /\ unsaved' = unsaved \ {j}

SaveFails(j) ==
    /\ unsaved' = unsaved \cup {j}
    /\ UNCHANGED store

\* The client is answered, or gets the error of the database.
SaveChange ==
    /\ op.do = "save"
    /\ op' = NoOp
    /\ \/ /\ Saved(op.of)
          /\ paused' = IF job[op.of].enabled THEN paused ELSE paused \cup {op.of}
       \/ SaveFails(op.of) /\ UNCHANGED paused
    /\ UNCHANGED <<memory, run, queue, bounds>>

DeleteRow ==
    /\ op.do = "delete"
    /\ op' = NoOp
    /\ \/ rows' = rows \ {op.of} /\ UNCHANGED <<row, unsaved>>
       \/ SaveFails(op.of)
    /\ UNCHANGED <<memory, run, queue, bounds, paused>>

TriggerJob(j, r) ==
    /\ ~stopping
    /\ j \in jobs
    /\ run[r].pc = "idle"
    /\ run' = [run EXCEPT ![r] = [pc |-> "submitted", of |-> j, trigger |-> "manual",
                                  attempt |-> 0]]
    /\ UNCHANGED <<memory, store, op, queue, bounds, history>>

-----------------------------------------------------------------------------
\* Runs.

\* APScheduler submits a job that is due, unless an instance it submitted
\* before has not returned (max_instances is 1).
Tick(j, r) ==
    /\ j \in scheduled
    /\ \A q \in Run : ~(UnderWay(q) /\ run[q].of = j /\ run[q].trigger = "scheduled")
    /\ run[r].pc = "idle"
    /\ run' = [run EXCEPT ![r] = [pc |-> "submitted", of |-> j, trigger |-> "scheduled",
                                  attempt |-> 0]]
    /\ UNCHANGED <<memory, store, op, queue, bounds, history>>

ShouldRun(rec) ==
    rec.enabled /\ rec.status = "ACTIVE" /\ rec.failures < MaxRetries + 1

\* Mutant of MayBegin: should_run is not asked.
MayBeginListed(r) ==
    run[r].trigger = "scheduled" => run[r].of \in jobs

\* _job_wrapper lets a scheduled run pass only if the job is listed and should
\* run; its look for the job's id among the running executions finds nothing,
\* because these are listed under their own ids.
MayBegin(r) ==
    run[r].trigger = "scheduled" => run[r].of \in jobs /\ ShouldRun(job[run[r].of])

BeginRun(r) ==
    /\ run[r].pc = "submitted"
    /\ MayBegin(r)
    /\ run' = [run EXCEPT ![r] = [@ EXCEPT !.pc = "waiting"]]
    /\ job' = [job EXCEPT ![run[r].of] = [@ EXCEPT !.status = "RUNNING"]]
    /\ queue' = Append(queue, r)
    /\ UNCHANGED <<jobs, scheduled, store, op, bounds, history>>

SkipRun(r) ==
    /\ run[r].pc = "submitted"
    /\ ~MayBegin(r)
    /\ run' = [run EXCEPT ![r] = [@ EXCEPT !.pc = "done"]]
    /\ UNCHANGED <<memory, store, op, queue, bounds, history>>

Woken(x) == IF x.pc = "waiting" THEN [x EXCEPT !.pc = "running"] ELSE x

\* The semaphore wakes its waiters in order, and passes over one that was
\* cancelled meanwhile.
AcquireSlot(r) ==
    /\ queue # <<>>
    /\ r = Head(queue)
    /\ Cardinality(Executing) < Slots
    /\ queue' = Tail(queue)
    /\ run' = [run EXCEPT ![r] = Woken(@)]
    /\ UNCHANGED <<memory, store, op, bounds, history>>

Retry(r) ==
    /\ run[r].pc = "running"
    /\ run[r].attempt < MaxRetries
    /\ run' = [run EXCEPT ![r] = [@ EXCEPT !.attempt = run[r].attempt + 1]]
    /\ UNCHANGED <<memory, store, op, queue, bounds, history>>

\* The last block of _execute_job, for a job with so many failures in a row.
Settled(rec, failures) ==
    [rec EXCEPT !.failures = failures,
                !.status = IF failures > MaxRetries THEN "FAILED"
                           ELSE IF rec.enabled THEN "ACTIVE" ELSE "PAUSED"]

\* Mutant of EndRun: the job is not saved at the end of a run.
EndRunUnsaved(r) ==
    /\ run[r].pc = "running"
    /\ run' = [run EXCEPT ![r] = [@ EXCEPT !.pc = "done"]]
    /\ \E failures \in {0, job[run[r].of].failures + 1} :
          job' = [job EXCEPT ![run[r].of] = Settled(@, failures)]
    /\ UNCHANGED <<jobs, scheduled, store, op, queue, bounds, history>>

\* The target returned, ran into its timeout, which is never retried, or
\* failed for the last time.
EndRun(r) ==
    /\ run[r].pc = "running"
    /\ run' = [run EXCEPT ![r] = [@ EXCEPT !.pc = "saving"]]
    /\ \E failures \in {0, job[run[r].of].failures + 1} :
          job' = [job EXCEPT ![run[r].of] = Settled(@, failures)]
    /\ UNCHANGED <<jobs, scheduled, store, op, queue, bounds, history>>

SaveRun(r) ==
    /\ run[r].pc = "saving"
    /\ run' = [run EXCEPT ![r] = [@ EXCEPT !.pc = "done"]]
    /\ Saved(run[r].of) \/ SaveFails(run[r].of)
    /\ UNCHANGED <<memory, op, queue, bounds, paused>>

-----------------------------------------------------------------------------
\* The process.

Scheduled(r) == run[r].trigger = "scheduled"
Begun(r) == run[r].pc \in {"waiting", "running"}

\* CronManager.stop shuts APScheduler down, which cancels the runs it has
\* submitted: their last block is run, without a failure on the record.
Stop ==
    /\ Serving
    /\ stopping' = TRUE
    /\ scheduled' = {}
    /\ job' = [j \in Job |->
                  IF \E r \in Run : Scheduled(r) /\ Begun(r) /\ run[r].of = j
                  THEN Settled(job[j], job[j].failures) ELSE job[j]]
    /\ run' = [r \in Run |->
                  CASE Scheduled(r) /\ Begun(r) -> [run[r] EXCEPT !.pc = "saving"]
                    [] Scheduled(r) /\ run[r].pc = "submitted" -> [run[r] EXCEPT !.pc = "done"]
                    [] OTHER -> run[r]]
    /\ UNCHANGED <<jobs, store, op, queue, edits, lives, created, history>>

\* The process ends, after a stop or by dying, and another one loads the rows.
Restart ==
    /\ lives < MaxLives
    /\ lives' = lives + 1
    /\ job' = [j \in Job |-> IF j \in rows THEN row[j] ELSE job[j]]
    /\ jobs' = rows
    /\ scheduled' = {j \in rows : Schedulable(row[j])}
    /\ run' = [r \in Run |-> IF UnderWay(r) THEN [run[r] EXCEPT !.pc = "done"] ELSE run[r]]
    /\ queue' = <<>>
    /\ op' = NoOp
    /\ stopping' = FALSE
    /\ unsaved' = {}
    /\ UNCHANGED <<store, edits, created, paused>>

Client ==
    \/ \E j \in Job : AddJob(j) \/ RemoveJob(j) \/ \E change \in Change : UpdateJob(j, change)
    \/ \E j \in Job, r \in Run : TriggerJob(j, r)

Save == SaveChange \/ DeleteRow

Step(r) ==
    \/ BeginRun(r) \/ SkipRun(r) \/ AcquireSlot(r)
    \/ Retry(r) \/ EndRun(r) \/ SaveRun(r)

Next ==
    \/ Client
    \/ Save
    \/ \E j \in Job, r \in Run : Tick(j, r)
    \/ \E r \in Run : Step(r)
    \/ Stop
    \/ Restart

Spec == Init /\ [][Next]_vars

\* The event loop runs every coroutine that can go on, a target ends by its
\* timeout at the latest, and the database answers.  No client has to act,
\* no job has to be due, and nothing is assumed of the process.
Fairness ==
    /\ WF_vars(Save)
    /\ \A r \in Run : WF_vars(Step(r)) /\ WF_vars(EndRun(r))

FairSpec == Spec /\ Fairness

-----------------------------------------------------------------------------
\* Properties.

\* APScheduler never keeps a job that was removed or is disabled: whatever the
\* order of edits, runs that end and restarts, a pause has taken the job out.
ScheduledIsEnabled ==
    \A j \in scheduled : j \in jobs /\ job[j].enabled

\* pause_job: "Pause a job, preventing future executions".  Once a pause is
\* answered no scheduled run begins until a client enables the job, not even
\* one that was submitted before, or one of a later process.
PauseSticks ==
    [][\A r \in Run : run[r].pc = "submitted" /\ run'[r].pc = "waiting" /\ Scheduled(r)
          => run[r].of \notin paused]_vars

\* Nothing is saved that is out of date, and nothing is left unsaved: between
\* changes, the row of a listed job has the flag and the failures of the job in
\* memory, although clients save under the lock and runs without it.
RowIsCurrent ==
    \A j \in jobs :
        \/ op.of = j \/ j \in unsaved
        \/ \E r \in Run : run[r].of = j /\ run[r].pc = "saving"
        \/ /\ j \in rows
           /\ row[j].enabled = job[j].enabled
           /\ row[j].failures = job[j].failures

\* A run that was submitted ends, and gives its place in the semaphore back:
\* runs that fail, time out or are cancelled do not starve those behind them.
EveryRunEnds == \A r \in Run : UnderWay(r) ~> ~UnderWay(r)

\* remove_job: "Remove a job from the scheduler".  A job that was removed does
\* not come back, with a later process at the latest.
DeletedStaysDeleted ==
    [][\A j \in created \ (jobs \cup rows) : j \notin rows']_vars

\* resume_job: "Resume a paused job".  A job that a client resumes is known to
\* the scheduler again.
ResumedIsScheduled ==
    [][\A j \in Job : UpdateJob(j, "resume") => j \in scheduled']_vars

\* _job_wrapper means to skip a job with one instance that is already running.
RunsAlone ==
    [][\A r \in Run : run[r].pc = "submitted" /\ run'[r].pc = "waiting" /\ Scheduled(r)
          => \A q \in Run : ~(Begun(q) /\ run[q].of = run[r].of)]_vars

=============================================================================
