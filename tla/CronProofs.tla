------------------------------ MODULE CronProofs ------------------------------
(***************************************************************************)
(* Theorems about Cron, for any number of jobs, executions and lives of    *)
(* the process: its types, that the scheduler keeps only enabled jobs,     *)
(* that a pause survives runs and restarts, and that rows are current.     *)
(***************************************************************************)
EXTENDS Cron, TLAPS

-----------------------------------------------------------------------------
(***************************************************************************)
(* The inductive invariants.                                               *)
(***************************************************************************)

\* A job whose pause was answered is disabled, in memory and in its row.
PausedIsOff ==
    \A j \in paused : ~job[j].enabled /\ (j \in rows => ~row[j].enabled)

\* What exists was created.
InUse ==
    /\ jobs \cup rows \cup paused \subseteq created
    /\ op.do # "none" => op.of \in created
    /\ \A r \in Run : run[r].pc # "idle" => run[r].of \in created

\* A job is off the list before its row is deleted.
DeletedIsUnlisted == op.do = "delete" => op.of \notin jobs

\* What RowIsCurrent says of one job.
Current(j) ==
    \/ op.of = j \/ j \in unsaved
    \/ \E r \in Run : run[r].of = j /\ run[r].pc = "saving"
    \/ /\ j \in rows
       /\ row[j].enabled = job[j].enabled
       /\ row[j].failures = job[j].failures

CronInv ==
    /\ TypeOK
    /\ InUse
    /\ ScheduledIsEnabled
    /\ PausedIsOff
    /\ DeletedIsUnlisted
    /\ RowIsCurrent

-----------------------------------------------------------------------------
(***************************************************************************)
(* Records.                                                                *)
(***************************************************************************)

\* What a client changes is a job again, and the flag says which change it was.
LEMMA ChangedType ==
    ASSUME NEW rec \in CronJobRecord, NEW change \in Change
    PROVE  /\ Changed(rec, change) \in CronJobRecord
           /\ change \in {"edit", "note"} => Changed(rec, change) = rec
BY DEF Changed, Change, CronJobRecord, CronJobStatus

\* The end of a run leaves the flag alone.
LEMMA SettledType ==
    ASSUME NEW rec \in CronJobRecord, NEW n \in Nat
    PROVE  /\ Settled(rec, n) \in CronJobRecord
           /\ Settled(rec, n).enabled = rec.enabled
           /\ Settled(rec, n).failures = n
BY CronAssumption DEF Settled, CronJobRecord, CronJobStatus

\* A run that goes on is a run of the same job.
LEMMA RunMoves ==
    ASSUME TypeOK, NEW r \in Run, NEW pc \in RunPC \ {"idle"}, run[r].pc # "idle",
           run' = [run EXCEPT ![r] = [@ EXCEPT !.pc = pc]]
    PROVE  /\ run' \in [Run -> RunRecord]
           /\ \A q \in Run : run'[q].of = run[q].of
           /\ \A q \in Run : run'[q].pc = IF q = r THEN pc ELSE run[q].pc
           /\ \A q \in Run : run'[q].pc # "idle" => run'[q].of \in Job
<1> DEFINE new == [run[r] EXCEPT !.pc = pc]
<1>1. new \in RunRecord /\ new.of = run[r].of /\ new.pc = pc
  BY DEF TypeOK, RunRecord
<1>2. run' = [run EXCEPT ![r] = new]
  OBVIOUS
<1> HIDE DEF new
<1> QED
  BY <1>1, <1>2 DEF TypeOK

\* A run that is submitted is a run of a job.
LEMMA RunStarts ==
    ASSUME TypeOK, NEW j \in Job, NEW r \in Run, NEW trigger \in {"scheduled", "manual"},
           run' = [run EXCEPT ![r] = [pc |-> "submitted", of |-> j, trigger |-> trigger,
                                      attempt |-> 0]]
    PROVE  /\ run' \in [Run -> RunRecord]
           /\ \A q \in Run : run'[q].pc # "idle" => run'[q].of \in Job
<1> DEFINE new == [pc |-> "submitted", of |-> j, trigger |-> trigger, attempt |-> 0]
<1>1. new \in RunRecord /\ new.of = j
  BY CronAssumption DEF RunRecord, RunPC
<1>2. run' = [run EXCEPT ![r] = new]
  OBVIOUS
<1> HIDE DEF new
<1> QED
  BY <1>1, <1>2 DEF TypeOK

\* A stop cancels runs, and leaves them runs of the same jobs.
LEMMA Cancelled ==
    ASSUME TypeOK, Stop
    PROVE  /\ run' \in [Run -> RunRecord]
           /\ \A q \in Run : run'[q].of = run[q].of
           /\ \A q \in Run : Scheduled(q) /\ Begun(q) => run'[q].pc = "saving"
           /\ \A q \in Run : run[q].pc = "saving" => run'[q].pc = "saving"
           /\ \A q \in Run : run'[q].pc # "idle" => run'[q].of \in Job
<1>1. run' = [r \in Run |->
                CASE Scheduled(r) /\ Begun(r) -> [run[r] EXCEPT !.pc = "saving"]
                  [] Scheduled(r) /\ run[r].pc = "submitted" -> [run[r] EXCEPT !.pc = "done"]
                  [] OTHER -> run[r]]
  BY DEF Stop
<1> SUFFICES ASSUME NEW q \in Run
             PROVE  /\ run'[q] \in RunRecord
                    /\ run'[q].of = run[q].of
                    /\ Scheduled(q) /\ Begun(q) => run'[q].pc = "saving"
                    /\ run[q].pc = "saving" => run'[q].pc = "saving"
                    /\ run'[q].pc # "idle" => run[q].pc # "idle"
  BY <1>1 DEF TypeOK
<1>2. CASE Scheduled(q) /\ Begun(q)
  <2>1. run'[q] = [run[q] EXCEPT !.pc = "saving"]
    BY <1>1, <1>2 DEF Begun
  <2> QED
    BY <1>2, <2>1 DEF Begun, TypeOK, RunRecord, RunPC
<1>3. CASE Scheduled(q) /\ run[q].pc = "submitted"
  <2>1. run'[q] = [run[q] EXCEPT !.pc = "done"]
    BY <1>1, <1>3 DEF Begun
  <2> QED
    BY <1>3, <2>1 DEF Begun, TypeOK, RunRecord, RunPC
<1>4. CASE ~(Scheduled(q) /\ Begun(q)) /\ ~(Scheduled(q) /\ run[q].pc = "submitted")
  BY <1>1, <1>4 DEF TypeOK
<1> QED
  BY <1>2, <1>3, <1>4

-----------------------------------------------------------------------------
(***************************************************************************)
(* Types.                                                                  *)
(***************************************************************************)

\* The initial state is well typed.
LEMMA InitTypeOK == Init => TypeOK
<1> SUFFICES ASSUME Init PROVE TypeOK
  OBVIOUS
<1>1. NewJob \in CronJobRecord
  BY DEF NewJob, CronJobRecord, CronJobStatus
<1>2. IdleRun \in RunRecord /\ IdleRun.pc = "idle"
  BY CronAssumption DEF IdleRun, RunRecord, RunPC
<1>3. NoOp \in [do : {"none", "save", "delete"}, of : Job \cup {NoJob}] /\ NoOp.do = "none"
  BY DEF NoOp
<1>4. 0 \in 0 .. MaxEdits
  BY CronAssumption
<1>5. /\ job \in [Job -> CronJobRecord] /\ row \in [Job -> CronJobRecord]
      /\ run \in [Run -> RunRecord] /\ queue \in Seq(Run)
  BY <1>1, <1>2 DEF Init
<1>6. \A r \in Run : run[r].pc = "idle"
  BY <1>2 DEF Init
<1> QED
  BY <1>3, <1>4, <1>5, <1>6 DEF Init, TypeOK

\* Every step keeps the types.
LEMMA NextTypeOK == TypeOK /\ [Next]_vars => TypeOK'
<1> SUFFICES ASSUME TypeOK, [Next]_vars PROVE TypeOK'
  OBVIOUS
<1> USE CronAssumption
<1>1. ASSUME NEW j \in Job, AddJob(j) PROVE TypeOK'
  BY <1>1 DEF AddJob, TypeOK, CronJobRecord, CronJobStatus, store, history
<1>2. ASSUME NEW j \in Job, NEW change \in Change, UpdateJob(j, change) PROVE TypeOK'
  <2>1. Changed(job[j], change) \in CronJobRecord
    BY ChangedType DEF TypeOK
  <2>2. Reschedule(j, job[j], Changed(job[j], change), change) \in SUBSET Job
    BY DEF Reschedule, TypeOK
  <2>3. job' \in [Job -> CronJobRecord]
    BY <1>2, <2>1 DEF UpdateJob, TypeOK
  <2> QED
    BY <1>2, <2>2, <2>3 DEF UpdateJob, TypeOK, store
<1>3. ASSUME NEW j \in Job, RemoveJob(j) PROVE TypeOK'
  BY <1>3 DEF RemoveJob, TypeOK, store, bounds, history
<1>4. ASSUME NEW j \in Job, NEW r \in Run, TriggerJob(j, r) PROVE TypeOK'
  BY <1>4, RunStarts DEF TriggerJob, TypeOK, memory, store, bounds, history
<1>5. CASE SaveChange
  BY <1>5 DEF SaveChange, Saved, SaveFails, NoOp, TypeOK, memory, store, bounds
<1>6. CASE DeleteRow
  BY <1>6 DEF DeleteRow, SaveFails, NoOp, TypeOK, memory, store, bounds
<1>7. ASSUME NEW j \in Job, NEW r \in Run, Tick(j, r) PROVE TypeOK'
  BY <1>7, RunStarts DEF Tick, TypeOK, memory, store, bounds, history
<1>8. ASSUME NEW r \in Run, BeginRun(r) PROVE TypeOK'
  <2>1. run[r].of \in Job
    BY <1>8 DEF BeginRun, TypeOK
  <2>2. job' \in [Job -> CronJobRecord]
    <3> DEFINE new == [job[run[r].of] EXCEPT !.status = "RUNNING"]
    <3>0. job[run[r].of] \in CronJobRecord
      BY <2>1 DEF TypeOK
    <3>1. new \in CronJobRecord
      BY <3>0 DEF CronJobRecord, CronJobStatus
    <3>2. job' = [job EXCEPT ![run[r].of] = new]
      BY <1>8 DEF BeginRun
    <3> HIDE DEF new
    <3> QED
      BY <2>1, <3>1, <3>2 DEF TypeOK
  <2>3. run' \in [Run -> RunRecord] /\ \A q \in Run : run'[q].pc # "idle" => run'[q].of \in Job
    BY <1>8, RunMoves DEF BeginRun, RunPC
  <2>4. queue' \in Seq(Run)
    BY <1>8 DEF BeginRun, TypeOK
  <2> QED
    BY <1>8, <2>1, <2>2, <2>3, <2>4 DEF BeginRun, TypeOK, store, bounds, history, RunRecord
<1>9. ASSUME NEW r \in Run, SkipRun(r) PROVE TypeOK'
  <2>1. run' \in [Run -> RunRecord] /\ \A q \in Run : run'[q].pc # "idle" => run'[q].of \in Job
    BY <1>9, RunMoves DEF SkipRun, RunPC
  <2> QED
    BY <1>9, <2>1 DEF SkipRun, TypeOK, memory, store, bounds, history
<1>10. ASSUME NEW r \in Run, AcquireSlot(r) PROVE TypeOK'
  <2>1. queue' \in Seq(Run)
    BY <1>10 DEF AcquireSlot, TypeOK
  <2>2. run' \in [Run -> RunRecord] /\ \A q \in Run : run'[q].pc # "idle" => run'[q].of \in Job
    <3> DEFINE new == Woken(run[r])
    <3>0. run[r] \in RunRecord
      BY DEF TypeOK
    <3>1. /\ new \in RunRecord /\ new.of = run[r].of
          /\ new.pc # "idle" => run[r].pc # "idle"
      BY <3>0 DEF Woken, RunRecord, RunPC
    <3>2. run' = [run EXCEPT ![r] = new]
      BY <1>10 DEF AcquireSlot
    <3>3. new.pc # "idle" => new.of \in Job
      BY <3>1 DEF TypeOK
    <3> HIDE DEF new
    <3>4. run' \in [Run -> RunRecord]
      BY <3>1, <3>2 DEF TypeOK
    <3>5. \A q \in Run : run'[q] = IF q = r THEN new ELSE run[q]
      BY <3>2 DEF TypeOK
    <3> QED
      BY <3>3, <3>4, <3>5 DEF TypeOK
  <2> QED
    BY <1>10, <2>1, <2>2 DEF AcquireSlot, TypeOK, memory, store, bounds, history
<1>11. ASSUME NEW r \in Run, Retry(r) PROVE TypeOK'
  <2>1. run[r].attempt + 1 \in 0 .. MaxRetries
    BY <1>11 DEF Retry, TypeOK, RunRecord
  <2> DEFINE new == [run[r] EXCEPT !.attempt = run[r].attempt + 1]
  <2>0. run[r] \in RunRecord
    BY DEF TypeOK
  <2>2. new \in RunRecord /\ new.of = run[r].of /\ new.pc = run[r].pc
    BY <2>0, <2>1 DEF RunRecord
  <2>3. run' = [run EXCEPT ![r] = new]
    BY <1>11 DEF Retry
  <2> HIDE DEF new
  <2>4. run' \in [Run -> RunRecord] /\ \A q \in Run : run'[q].pc # "idle" => run'[q].of \in Job
    BY <2>2, <2>3 DEF TypeOK
  <2> QED
    BY <1>11, <2>4 DEF Retry, TypeOK, memory, store, bounds, history
<1>12. ASSUME NEW r \in Run, EndRun(r) PROVE TypeOK'
  <2>1. run[r].of \in Job /\ job[run[r].of] \in CronJobRecord
    BY <1>12 DEF EndRun, TypeOK
  <2>2. PICK n \in {0, job[run[r].of].failures + 1} :
            job' = [job EXCEPT ![run[r].of] = Settled(@, n)]
    BY <1>12 DEF EndRun
  <2>3. n \in Nat
    BY <2>1 DEF CronJobRecord
  <2>4. job' \in [Job -> CronJobRecord]
    <3>1. Settled(job[run[r].of], n) \in CronJobRecord
      BY <2>1, <2>3, SettledType
    <3> QED
      BY <2>1, <2>2, <3>1 DEF TypeOK
  <2>5. run' \in [Run -> RunRecord] /\ \A q \in Run : run'[q].pc # "idle" => run'[q].of \in Job
    BY <1>12, RunMoves DEF EndRun, RunPC
  <2> QED
    BY <1>12, <2>4, <2>5 DEF EndRun, TypeOK, store, bounds, history
<1>13. ASSUME NEW r \in Run, SaveRun(r) PROVE TypeOK'
  <2>1. run' \in [Run -> RunRecord] /\ \A q \in Run : run'[q].pc # "idle" => run'[q].of \in Job
    BY <1>13, RunMoves DEF SaveRun, RunPC
  <2>2. run[r].of \in Job
    BY <1>13 DEF SaveRun, TypeOK
  <2> QED
    BY <1>13, <2>1, <2>2 DEF SaveRun, Saved, SaveFails, TypeOK, memory, store, bounds
<1>14. CASE Stop
  <2>1. \A j \in Job : job[j] \in CronJobRecord /\ job[j].failures \in Nat
    BY DEF TypeOK, CronJobRecord
  <2>2. job' \in [Job -> CronJobRecord]
    <3>1. \A j \in Job : Settled(job[j], job[j].failures) \in CronJobRecord
      BY <2>1, SettledType
    <3> QED
      BY <1>14, <2>1, <3>1 DEF Stop
  <2>3. run' \in [Run -> RunRecord] /\ \A q \in Run : run'[q].pc # "idle" => run'[q].of \in Job
    BY <1>14, Cancelled DEF Stop
  <2> QED
    BY <1>14, <2>2, <2>3 DEF Stop, TypeOK, store, history
<1>15. CASE Restart
  <2>1. job' \in [Job -> CronJobRecord]
    BY <1>15 DEF Restart, TypeOK
  <2>2. run' \in [Run -> RunRecord] /\ \A q \in Run : run'[q].pc # "idle" => run'[q].of \in Job
    <3>1. \A q \in Run : LET new == [run[q] EXCEPT !.pc = "done"]
                         IN  new \in RunRecord /\ new.of = run[q].of /\ new.pc = "done"
      BY DEF TypeOK, RunRecord, RunPC
    <3>2. run' = [q \in Run |-> IF UnderWay(q) THEN [run[q] EXCEPT !.pc = "done"] ELSE run[q]]
      BY <1>15 DEF Restart
    <3>3. \A q \in Run : UnderWay(q) => run[q].of \in Job
      BY DEF UnderWay, TypeOK
    <3> QED
      BY <3>1, <3>2, <3>3 DEF TypeOK
  <2>3. queue' \in Seq(Run)
    BY <1>15 DEF Restart
  <2>4. op' \in [do : {"none", "save", "delete"}, of : Job \cup {NoJob}] /\ op'.do = "none"
    BY <1>15 DEF Restart, NoOp
  <2>5. /\ jobs' \in SUBSET Job /\ scheduled' \in SUBSET Job /\ lives' \in Nat
        /\ stopping' \in BOOLEAN /\ unsaved' \in SUBSET Job
    <3>1. jobs' = rows /\ scheduled' \subseteq rows /\ lives' = lives + 1
      BY <1>15 DEF Restart
    <3>2. rows \subseteq Job /\ lives \in Nat
      BY DEF TypeOK
    <3>3. stopping' = FALSE /\ unsaved' = {}
      BY <1>15 DEF Restart
    <3>4. lives' \in Nat
      BY <3>1, <3>2
    <3> QED
      BY <3>1, <3>2, <3>3, <3>4
  <2>6. UNCHANGED <<rows, row, edits, created, paused>>
    BY <1>15 DEF Restart, store
  <2> QED
    BY <2>1, <2>2, <2>3, <2>4, <2>5, <2>6 DEF TypeOK
<1>16. CASE UNCHANGED vars
  BY <1>16 DEF TypeOK, vars, memory, store, bounds, history
<1> QED
  BY <1>1, <1>2, <1>3, <1>4, <1>5, <1>6, <1>7, <1>8, <1>9, <1>10, <1>11, <1>12, <1>13,
     <1>14, <1>15, <1>16 DEF Next, Client, Save, Step

-----------------------------------------------------------------------------
(***************************************************************************)
(* What a step does to jobs, summed up once.                               *)
(***************************************************************************)

\* Only a client changes the flag of a job, and only the end of a run, or a
\* resume, its failures; a process that starts takes both from the rows.
LEMMA RunsKeepFlags ==
    ASSUME TypeOK, \/ Save
                   \/ \E j \in Job, r \in Run : TriggerJob(j, r) \/ Tick(j, r)
                   \/ \E r \in Run : Step(r)
                   \/ Stop
    PROVE  /\ \A j \in Job : job'[j].enabled = job[j].enabled
           /\ jobs' = jobs
           /\ scheduled' \subseteq scheduled
<1>1. ASSUME job' = job, jobs' = jobs, scheduled' = scheduled
      PROVE  /\ \A j \in Job : job'[j].enabled = job[j].enabled
             /\ jobs' = jobs
             /\ scheduled' \subseteq scheduled
  BY <1>1
<1>2. ASSUME NEW r \in Run, BeginRun(r)
      PROVE  \A j \in Job : job'[j].enabled = job[j].enabled
  <2>1. run[r].of \in Job
    BY <1>2 DEF BeginRun, TypeOK
  <2>2. job[run[r].of] \in CronJobRecord
    BY <2>1 DEF TypeOK
  <2> DEFINE new == [job[run[r].of] EXCEPT !.status = "RUNNING"]
  <2>3. new.enabled = job[run[r].of].enabled
    BY <2>2 DEF CronJobRecord
  <2>4. job' = [job EXCEPT ![run[r].of] = new]
    BY <1>2 DEF BeginRun
  <2> HIDE DEF new
  <2> QED
    BY <2>1, <2>3, <2>4 DEF TypeOK
<1>3. ASSUME NEW r \in Run, EndRun(r)
      PROVE  \A j \in Job : job'[j].enabled = job[j].enabled
  <2>1. run[r].of \in Job /\ job[run[r].of] \in CronJobRecord
    BY <1>3 DEF EndRun, TypeOK
  <2>2. PICK n \in {0, job[run[r].of].failures + 1} :
            job' = [job EXCEPT ![run[r].of] = Settled(@, n)]
    BY <1>3 DEF EndRun
  <2>3. n \in Nat
    BY <2>1 DEF CronJobRecord
  <2>4. Settled(job[run[r].of], n).enabled = job[run[r].of].enabled
    BY <2>1, <2>3, SettledType
  <2> QED
    BY <2>1, <2>2, <2>4 DEF TypeOK
<1>4. CASE Stop
  <2>1. \A j \in Job : job[j] \in CronJobRecord /\ job[j].failures \in Nat
    BY DEF TypeOK, CronJobRecord
  <2>2. \A j \in Job : Settled(job[j], job[j].failures).enabled = job[j].enabled
    BY <2>1, SettledType
  <2> QED
    BY <1>4, <2>2 DEF Stop
<1> QED
  BY <1>1, <1>2, <1>3, <1>4
     DEF Save, SaveChange, DeleteRow, TriggerJob, Tick, Step, BeginRun, SkipRun, AcquireSlot,
         Retry, EndRun, SaveRun, memory

\* What is written is what the job says.
LEMMA WritesAreTrue ==
    ASSUME TypeOK, \/ SaveChange
                   \/ \E r \in Run : SaveRun(r)
    PROVE  /\ job' = job /\ jobs' = jobs
           /\ \A j \in Job : \/ j \in rows' /\ row'[j] = job[j]
                             \/ (j \in rows' => j \in rows) /\ row'[j] = row[j]
<1>1. ASSUME NEW i \in Job, Saved(i) \/ SaveFails(i)
      PROVE  \A j \in Job : \/ j \in rows' /\ row'[j] = job[j]
                            \/ (j \in rows' => j \in rows) /\ row'[j] = row[j]
  BY <1>1 DEF Saved, SaveFails, TypeOK, store
<1>2. CASE SaveChange
  <2>1. op.of \in Job /\ (Saved(op.of) \/ SaveFails(op.of))
    BY <1>2 DEF SaveChange, TypeOK
  <2> QED
    BY <1>1, <1>2, <2>1 DEF SaveChange, memory
<1>3. ASSUME NEW r \in Run, SaveRun(r)
      PROVE  /\ job' = job /\ jobs' = jobs
             /\ run[r].of \in Job /\ (Saved(run[r].of) \/ SaveFails(run[r].of))
  BY <1>3 DEF SaveRun, TypeOK, memory
<1> QED
  BY <1>1, <1>2, <1>3

\* A run is of the job it was submitted for.
LEMMA RunsKeepJobs ==
    ASSUME TypeOK, \/ Save
                   \/ \E r \in Run : Step(r)
                   \/ Stop
                   \/ Restart
    PROVE  \A q \in Run : run'[q].of = run[q].of /\ (run[q].pc = "idle" => run'[q].pc = "idle")
<1>1. ASSUME run' = run
      PROVE  \A q \in Run : run'[q].of = run[q].of /\ (run[q].pc = "idle" => run'[q].pc = "idle")
  BY <1>1
<1>2. ASSUME NEW r \in Run, NEW pc \in RunPC \ {"idle"}, run[r].pc # "idle",
             run' = [run EXCEPT ![r] = [@ EXCEPT !.pc = pc]]
      PROVE  \A q \in Run : run'[q].of = run[q].of /\ (run[q].pc = "idle" => run'[q].pc = "idle")
  BY <1>2, RunMoves
<1>3. ASSUME NEW r \in Run, BeginRun(r) \/ SkipRun(r) \/ EndRun(r) \/ SaveRun(r)
      PROVE  \A q \in Run : run'[q].of = run[q].of /\ (run[q].pc = "idle" => run'[q].pc = "idle")
  BY <1>2, <1>3 DEF BeginRun, SkipRun, EndRun, SaveRun, RunPC
<1>4. ASSUME NEW r \in Run, AcquireSlot(r)
      PROVE  \A q \in Run : run'[q].of = run[q].of /\ (run[q].pc = "idle" => run'[q].pc = "idle")
  <2>1. run[r] \in RunRecord
    BY DEF TypeOK
  <2>2. Woken(run[r]).of = run[r].of /\ (run[r].pc = "idle" => Woken(run[r]).pc = "idle")
    BY <2>1 DEF Woken, RunRecord
  <2>3. run' = [run EXCEPT ![r] = Woken(run[r])]
    BY <1>4 DEF AcquireSlot
  <2> QED
    BY <2>2, <2>3 DEF TypeOK
<1>5. ASSUME NEW r \in Run, Retry(r)
      PROVE  \A q \in Run : run'[q].of = run[q].of /\ (run[q].pc = "idle" => run'[q].pc = "idle")
  <2>1. run[r] \in RunRecord
    BY DEF TypeOK
  <2> DEFINE new == [run[r] EXCEPT !.attempt = run[r].attempt + 1]
  <2>2. new.of = run[r].of /\ new.pc = run[r].pc
    BY <2>1 DEF RunRecord
  <2>3. run' = [run EXCEPT ![r] = new]
    BY <1>5 DEF Retry
  <2> HIDE DEF new
  <2> QED
    BY <2>2, <2>3 DEF TypeOK
<1>6. ASSUME Stop, NEW q \in Run
      PROVE  run'[q].of = run[q].of /\ (run[q].pc = "idle" => run'[q].pc = "idle")
  BY <1>6, Cancelled DEF Stop, Begun
<1>7. ASSUME Restart, NEW q \in Run
      PROVE  run'[q].of = run[q].of /\ (run[q].pc = "idle" => run'[q].pc = "idle")
  <2>1. run[q] \in RunRecord
    BY DEF TypeOK
  <2>2. [run[q] EXCEPT !.pc = "done"].of = run[q].of
    BY <2>1 DEF RunRecord
  <2> QED
    BY <1>7, <2>2 DEF Restart, UnderWay
<1> QED
  BY <1>1, <1>3, <1>4, <1>5, <1>6, <1>7 DEF Save, SaveChange, DeleteRow, Step

\* Every step keeps InUse.
LEMMA NextInUse == TypeOK /\ InUse /\ ScheduledIsEnabled /\ [Next]_vars => InUse'
<1> SUFFICES ASSUME TypeOK, InUse, ScheduledIsEnabled, [Next]_vars PROVE InUse'
  OBVIOUS
<1> DEFINE Rest == /\ jobs' \cup rows' \cup paused' \subseteq created'
                   /\ op'.do # "none" => op'.of \in created'
<1>1. ASSUME created \subseteq created',
             \A q \in Run : run'[q].of = run[q].of /\ (run[q].pc = "idle" => run'[q].pc = "idle")
      PROVE  \A q \in Run : run'[q].pc # "idle" => run'[q].of \in created'
  BY <1>1 DEF InUse
<1>2. ASSUME NEW j \in Job, AddJob(j) PROVE InUse'
  BY <1>2 DEF AddJob, InUse, store, history
<1>3. ASSUME NEW j \in Job, NEW change \in Change, UpdateJob(j, change) PROVE InUse'
  BY <1>3 DEF UpdateJob, InUse, store
<1>4. ASSUME NEW j \in Job, RemoveJob(j) PROVE InUse'
  BY <1>4 DEF RemoveJob, InUse, store, history, bounds
<1>5. ASSUME NEW j \in Job, NEW r \in Run, TriggerJob(j, r) \/ Tick(j, r) PROVE InUse'
  <2>1. j \in created
    BY <1>5 DEF TriggerJob, Tick, InUse, ScheduledIsEnabled
  <2> QED
    BY <1>5, <2>1, RunStarts DEF TriggerJob, Tick, InUse, memory, store, bounds, history, TypeOK
<1>6. CASE Save \/ (\E r \in Run : Step(r)) \/ Stop \/ Restart
  <2>1. created' = created
    BY <1>6 DEF Save, SaveChange, DeleteRow, Step, BeginRun, SkipRun, AcquireSlot, Retry, EndRun,
                SaveRun, Stop, Restart, bounds
  <2>2. Rest
    <3>1. CASE SaveChange
      BY <2>1, <3>1 DEF SaveChange, Saved, SaveFails, InUse, NoOp, memory, store
    <3>2. CASE DeleteRow
      BY <2>1, <3>2 DEF DeleteRow, SaveFails, InUse, NoOp, memory, store
    <3>3. ASSUME NEW r \in Run, SaveRun(r) PROVE Rest
      BY <2>1, <3>3 DEF SaveRun, Saved, SaveFails, InUse, memory, store
    <3>4. ASSUME NEW r \in Run, BeginRun(r) \/ SkipRun(r) \/ AcquireSlot(r) \/ Retry(r) \/ EndRun(r)
          PROVE  Rest
      BY <2>1, <3>4 DEF BeginRun, SkipRun, AcquireSlot, Retry, EndRun, InUse, memory, store, history
    <3>5. CASE Stop
      BY <2>1, <3>5 DEF Stop, InUse, store, history
    <3>6. CASE Restart
      BY <2>1, <3>6 DEF Restart, InUse, NoOp, store
    <3> QED
      BY <1>6, <3>1, <3>2, <3>3, <3>4, <3>5, <3>6 DEF Save, Step
  <2> QED
    BY <1>1, <1>6, <2>1, <2>2, RunsKeepJobs DEF InUse
<1>7. CASE UNCHANGED vars
  BY <1>7 DEF InUse, vars, memory, store, bounds, history
<1> QED
  BY <1>2, <1>3, <1>4, <1>5, <1>6, <1>7 DEF Next, Client

-----------------------------------------------------------------------------
(***************************************************************************)
(* The scheduler keeps enabled jobs.                                       *)
(***************************************************************************)

\* Every step keeps ScheduledIsEnabled.
LEMMA NextScheduledIsEnabled ==
    TypeOK /\ InUse /\ ScheduledIsEnabled /\ [Next]_vars => ScheduledIsEnabled'
<1> SUFFICES ASSUME TypeOK, InUse, ScheduledIsEnabled, [Next]_vars, NEW i \in scheduled'
             PROVE  i \in jobs' /\ job'[i].enabled
  BY DEF ScheduledIsEnabled
<1>1. ASSUME NEW j \in Job, AddJob(j) PROVE i \in jobs' /\ job'[i].enabled
  <2>1. PICK e \in BOOLEAN :
            /\ job' = [job EXCEPT ![j] = [enabled |-> e, failures |-> 0,
                                          status |-> IF e THEN "ACTIVE" ELSE "PAUSED"]]
            /\ scheduled' = IF e THEN scheduled \cup {j} ELSE scheduled
    BY <1>1 DEF AddJob
  <2>2. jobs' = jobs \cup {j} /\ (i = j => i \notin scheduled \/ job[j].enabled)
    BY <1>1 DEF AddJob, ScheduledIsEnabled
  <2>3. CASE i = j
    <3>1. e = TRUE
      BY <1>1, <2>1, <2>3 DEF AddJob, ScheduledIsEnabled, InUse
    <3>2. job'[j].enabled = e
      BY <2>1 DEF TypeOK
    <3> QED
      BY <2>2, <2>3, <3>1, <3>2
  <2>4. CASE i # j
    <3>1. i \in scheduled /\ job'[i] = job[i]
      BY <2>1, <2>4 DEF TypeOK
    <3> QED
      BY <2>2, <3>1 DEF ScheduledIsEnabled
  <2> QED
    BY <2>3, <2>4
<1>2. ASSUME NEW j \in Job, NEW change \in Change, UpdateJob(j, change)
      PROVE  i \in jobs' /\ job'[i].enabled
  <2> DEFINE new == Changed(job[j], change)
  <2>1. job' = [job EXCEPT ![j] = new] /\ j \in jobs /\ jobs' = jobs
    BY <1>2 DEF UpdateJob
  <2>2. scheduled' = Reschedule(j, job[j], new, change)
    BY <1>2 DEF UpdateJob
  <2> HIDE DEF new
  <2>3. CASE i # j
    BY <2>1, <2>2, <2>3 DEF Reschedule, ScheduledIsEnabled, TypeOK
  <2>4. CASE i = j
    <3>1. job'[j] = new
      BY <2>1 DEF TypeOK
    <3>2. CASE change = "edit" \/ new.enabled # job[j].enabled
      BY <2>1, <2>2, <2>4, <3>1, <3>2 DEF Reschedule, Schedulable
    <3>3. CASE ~(change = "edit" \/ new.enabled # job[j].enabled)
      BY <2>1, <2>2, <2>4, <3>1, <3>3 DEF Reschedule, ScheduledIsEnabled
    <3> QED
      BY <3>2, <3>3
  <2> QED
    BY <2>3, <2>4
<1>3. ASSUME NEW j \in Job, RemoveJob(j) PROVE i \in jobs' /\ job'[i].enabled
  BY <1>3 DEF RemoveJob, ScheduledIsEnabled
<1>4. CASE Restart
  <2>1. i \in rows /\ row[i].enabled /\ rows \subseteq Job
    BY <1>4 DEF Restart, Schedulable, TypeOK
  <2> QED
    BY <1>4, <2>1 DEF Restart
<1>5. CASE \/ Save
           \/ \E j \in Job, r \in Run : TriggerJob(j, r) \/ Tick(j, r)
           \/ \E r \in Run : Step(r)
           \/ Stop
  BY <1>5, RunsKeepFlags DEF ScheduledIsEnabled, TypeOK
<1>6. CASE UNCHANGED vars
  BY <1>6 DEF ScheduledIsEnabled, vars, memory
<1> QED
  BY <1>1, <1>2, <1>3, <1>4, <1>5, <1>6 DEF Next, Client

-----------------------------------------------------------------------------
(***************************************************************************)
(* A pause is remembered.                                                  *)
(***************************************************************************)

\* Every step keeps PausedIsOff.
LEMMA NextPausedIsOff ==
    TypeOK /\ TypeOK' /\ InUse /\ PausedIsOff /\ [Next]_vars => PausedIsOff'
<1> SUFFICES ASSUME TypeOK, TypeOK', InUse, PausedIsOff, [Next]_vars, NEW i \in paused'
             PROVE  ~job'[i].enabled /\ (i \in rows' => ~row'[i].enabled)
  BY DEF PausedIsOff
<1>0. i \in Job
  BY DEF TypeOK
<1>1. ASSUME NEW j \in Job, AddJob(j)
      PROVE  ~job'[i].enabled /\ (i \in rows' => ~row'[i].enabled)
  <2>1. i \in paused /\ i # j /\ UNCHANGED <<rows, row>>
    BY <1>1 DEF AddJob, InUse, store, history
  <2>2. job'[i] = job[i]
    BY <1>0, <1>1, <2>1 DEF AddJob, TypeOK
  <2> QED
    BY <2>1, <2>2 DEF PausedIsOff
<1>2. ASSUME NEW j \in Job, NEW change \in Change, UpdateJob(j, change)
      PROVE  ~job'[i].enabled /\ (i \in rows' => ~row'[i].enabled)
  <2> DEFINE new == Changed(job[j], change)
  <2>1. /\ job' = [job EXCEPT ![j] = new]
        /\ paused' = IF new.enabled THEN paused \ {j} ELSE paused
        /\ UNCHANGED <<rows, row>>
    BY <1>2 DEF UpdateJob, store
  <2> HIDE DEF new
  <2> QED
    BY <1>0, <2>1 DEF PausedIsOff, TypeOK
<1>3. CASE SaveChange
  <2>1. op.of \in Job /\ job' = job
    BY <1>3 DEF SaveChange, TypeOK, memory
  <2>2. ~job[i].enabled
    BY <1>3, <2>1 DEF SaveChange, PausedIsOff
  <2>3. CASE i \in paused
    BY <1>0, <1>3, <2>1, <2>2, <2>3, WritesAreTrue DEF PausedIsOff
  <2>4. CASE i \notin paused
    <3>1. i = op.of /\ Saved(op.of)
      BY <1>3, <2>4 DEF SaveChange
    <3> QED
      BY <1>0, <2>1, <2>2, <3>1 DEF Saved, TypeOK
  <2> QED
    BY <2>3, <2>4
<1>4. ASSUME NEW r \in Run, SaveRun(r)
      PROVE  ~job'[i].enabled /\ (i \in rows' => ~row'[i].enabled)
  <2>1. paused' = paused
    BY <1>4 DEF SaveRun
  <2> QED
    BY <1>0, <1>4, <2>1, WritesAreTrue DEF PausedIsOff
<1>5. CASE DeleteRow
  BY <1>5 DEF DeleteRow, SaveFails, PausedIsOff, memory, store
<1>6. CASE Restart
  BY <1>0, <1>6 DEF Restart, PausedIsOff, store
<1>7. CASE \/ \E j \in Job, r \in Run : TriggerJob(j, r) \/ Tick(j, r)
           \/ \E r \in Run : BeginRun(r) \/ SkipRun(r) \/ AcquireSlot(r) \/ Retry(r) \/ EndRun(r)
           \/ Stop
  <2>1. UNCHANGED <<rows, row, paused>>
    BY <1>7 DEF TriggerJob, Tick, BeginRun, SkipRun, AcquireSlot, Retry, EndRun, Stop, store, history
  <2>2. job'[i].enabled = job[i].enabled
    BY <1>0, <1>7, RunsKeepFlags DEF Step
  <2> QED
    BY <2>1, <2>2 DEF PausedIsOff
<1>8. ASSUME NEW j \in Job, RemoveJob(j)
      PROVE  ~job'[i].enabled /\ (i \in rows' => ~row'[i].enabled)
  BY <1>8 DEF RemoveJob, PausedIsOff, store, history
<1>9. CASE UNCHANGED vars
  BY <1>9 DEF PausedIsOff, vars, memory, store, history
<1> QED
  BY <1>1, <1>2, <1>3, <1>4, <1>5, <1>6, <1>7, <1>8, <1>9 DEF Next, Client, Save, Step

-----------------------------------------------------------------------------
(***************************************************************************)
(* Rows are current.                                                       *)
(***************************************************************************)

\* Every step keeps DeletedIsUnlisted.
LEMMA NextDeletedIsUnlisted == TypeOK /\ DeletedIsUnlisted /\ [Next]_vars => DeletedIsUnlisted'
<1> SUFFICES ASSUME TypeOK, DeletedIsUnlisted, [Next]_vars PROVE DeletedIsUnlisted'
  OBVIOUS
<1>1. CASE Client
  BY <1>1 DEF Client, AddJob, UpdateJob, RemoveJob, TriggerJob, Serving, DeletedIsUnlisted, memory
<1>2. CASE Save \/ Restart
  BY <1>2 DEF Save, SaveChange, DeleteRow, Restart, NoOp, DeletedIsUnlisted
<1>3. CASE \/ \E j \in Job, r \in Run : Tick(j, r)
           \/ \E r \in Run : Step(r)
           \/ Stop
           \/ UNCHANGED vars
  <2>1. ASSUME NEW r \in Run, Step(r) PROVE op' = op /\ jobs' = jobs
    BY <2>1 DEF Step, BeginRun, SkipRun, AcquireSlot, Retry, EndRun, SaveRun, memory
  <2>2. op' = op /\ jobs' = jobs
    BY <1>3, <2>1 DEF Tick, Stop, vars, memory
  <2> QED
    BY <2>2 DEF DeletedIsUnlisted
<1> QED
  BY <1>1, <1>2, <1>3 DEF Next

\* A step that changes neither a job nor its row nor ends its save leaves the
\* row current.
LEMMA StaysCurrent ==
    ASSUME TypeOK, NEW i \in Job, Current(i),
           op' = op, unsaved' = unsaved, rows' = rows, row' = row,
           job'[i].enabled = job[i].enabled, job'[i].failures = job[i].failures,
           \A r \in Run : run[r].pc = "saving" => run'[r].pc = "saving" /\ run'[r].of = run[r].of
    PROVE  Current(i)'
BY DEF Current

\* Every step keeps RowIsCurrent.
LEMMA NextRowIsCurrent ==
    TypeOK /\ DeletedIsUnlisted /\ RowIsCurrent /\ [Next]_vars => RowIsCurrent'
<1> SUFFICES ASSUME TypeOK, DeletedIsUnlisted, \A j \in jobs : Current(j), [Next]_vars,
                    NEW i \in Job, i \in jobs'
             PROVE  Current(i)'
  <2>1. RowIsCurrent => \A j \in jobs : Current(j)
    BY DEF RowIsCurrent, Current
  <2>2. TypeOK' => jobs' \subseteq Job
    BY DEF TypeOK
  <2>3. (\A j \in jobs' : Current(j)') => RowIsCurrent'
    BY DEF RowIsCurrent, Current
  <2> QED
    BY <2>1, <2>2, <2>3, NextTypeOK
<1>1. ASSUME NEW j \in Job, AddJob(j) PROVE Current(i)'
  <2>1. CASE i = j
    BY <1>1, <2>1 DEF AddJob, Current
  <2>2. CASE i # j
    <3>1. i \in jobs /\ job'[i] = job[i] /\ op.of # i
      BY <1>1, <2>2, CronAssumption DEF AddJob, Serving, NoOp, TypeOK
    <3> QED
      BY <1>1, <3>1 DEF AddJob, Current, store, history
  <2> QED
    BY <2>1, <2>2
<1>2. ASSUME NEW j \in Job, NEW change \in Change, UpdateJob(j, change) PROVE Current(i)'
  <2>1. CASE i = j
    BY <1>2, <2>1 DEF UpdateJob, Current
  <2>2. CASE i # j
    <3>1. i \in jobs /\ job'[i] = job[i] /\ op.of # i
      BY <1>2, <2>2, CronAssumption DEF UpdateJob, Serving, NoOp, TypeOK
    <3> QED
      BY <1>2, <3>1 DEF UpdateJob, Current, store
  <2> QED
    BY <2>1, <2>2
<1>3. ASSUME NEW j \in Job, RemoveJob(j) PROVE Current(i)'
  <2>1. i \in jobs /\ op.of # i
    BY <1>3, CronAssumption DEF RemoveJob, Serving, NoOp
  <2> QED
    BY <1>3, <2>1 DEF RemoveJob, Current, store, history
<1>4. CASE SaveChange
  <2>1. i \in jobs /\ UNCHANGED <<job, run>>
    BY <1>4 DEF SaveChange, memory
  <2>2. CASE i = op.of
    BY <1>4, <2>1, <2>2 DEF SaveChange, Saved, SaveFails, Current, TypeOK
  <2>3. CASE i # op.of
    BY <1>4, <2>1, <2>3 DEF SaveChange, Saved, SaveFails, Current, TypeOK, store
  <2> QED
    BY <2>2, <2>3
<1>5. CASE DeleteRow
  <2>1. i \in jobs /\ UNCHANGED <<job, run>> /\ i # op.of
    BY <1>5 DEF DeleteRow, DeletedIsUnlisted, memory
  <2> QED
    BY <1>5, <2>1 DEF DeleteRow, SaveFails, Current, store
<1>6. ASSUME NEW j \in Job, NEW r \in Run, TriggerJob(j, r) \/ Tick(j, r) PROVE Current(i)'
  <2>1. run[r].pc = "idle" /\ \A q \in Run : q # r => run'[q] = run[q]
    BY <1>6 DEF TriggerJob, Tick, TypeOK
  <2>2. i \in jobs
    BY <1>6 DEF TriggerJob, Tick, memory
  <2> QED
    BY <1>6, <2>1, <2>2, StaysCurrent DEF TriggerJob, Tick, memory, store, history
<1>7. ASSUME NEW r \in Run, BeginRun(r) \/ SkipRun(r) \/ AcquireSlot(r) \/ Retry(r)
      PROVE Current(i)'
  <2>1. i \in jobs /\ UNCHANGED <<op, unsaved, rows, row>>
    BY <1>7 DEF BeginRun, SkipRun, AcquireSlot, Retry, memory, store, history
  <2>2. \A q \in Run : run[q].pc = "saving" => run'[q].pc = "saving" /\ run'[q].of = run[q].of
    BY <1>7 DEF BeginRun, SkipRun, AcquireSlot, Woken, Retry, TypeOK
  <2>3. job'[i].enabled = job[i].enabled /\ job'[i].failures = job[i].failures
    <3>1. CASE BeginRun(r)
      <4>1. run[r].of \in Job /\ job[i] \in CronJobRecord
        BY <3>1 DEF BeginRun, TypeOK
      <4>2. \/ job'[i] = job[i]
            \/ job'[i] = [job[i] EXCEPT !.status = "RUNNING"]
        BY <3>1, <4>1 DEF BeginRun, TypeOK
      <4> QED
        BY <4>1, <4>2 DEF CronJobRecord
    <3>2. CASE SkipRun(r) \/ AcquireSlot(r) \/ Retry(r)
      BY <3>2 DEF SkipRun, AcquireSlot, Retry, memory
    <3> QED
      BY <1>7, <3>1, <3>2
  <2> QED
    BY <2>1, <2>2, <2>3, StaysCurrent
<1>8. ASSUME NEW r \in Run, EndRun(r) PROVE Current(i)'
  <2>1. i \in jobs /\ UNCHANGED <<op, unsaved, rows, row>>
    BY <1>8 DEF EndRun, store, history
  <2>2. \A q \in Run : run'[q].of = run[q].of /\ run'[q].pc = IF q = r THEN "saving" ELSE run[q].pc
    <3>1. run[r].pc # "idle" /\ run' = [run EXCEPT ![r] = [@ EXCEPT !.pc = "saving"]]
      BY <1>8 DEF EndRun
    <3> QED
      BY <3>1, RunMoves DEF RunPC
  <2>3. CASE run[r].of = i
    BY <2>2, <2>3 DEF Current
  <2>4. CASE run[r].of # i
    <3>1. job'[i] = job[i]
      BY <1>8, <2>4 DEF EndRun, TypeOK
    <3> QED
      BY <2>1, <2>2, <3>1, StaysCurrent
  <2> QED
    BY <2>3, <2>4
<1>9. ASSUME NEW r \in Run, SaveRun(r) PROVE Current(i)'
  <2>1. i \in jobs /\ UNCHANGED <<job, op>> /\ run[r].of \in Job
    BY <1>9 DEF SaveRun, TypeOK, memory
  <2>2. \A q \in Run : run'[q].of = run[q].of /\ run'[q].pc = IF q = r THEN "done" ELSE run[q].pc
    BY <1>9, RunMoves DEF SaveRun, RunPC
  <2>3. CASE run[r].of = i
    BY <1>9, <2>1, <2>3 DEF SaveRun, Saved, SaveFails, Current, TypeOK
  <2>4. CASE run[r].of # i
    BY <1>9, <2>1, <2>2, <2>4 DEF SaveRun, Saved, SaveFails, Current, TypeOK, store
  <2> QED
    BY <2>3, <2>4
<1>10. CASE Stop
  <2>1. i \in jobs /\ UNCHANGED <<op, unsaved, rows, row>>
    BY <1>10 DEF Stop, store, history
  <2>2. \A q \in Run : run[q].pc = "saving" => run'[q].pc = "saving" /\ run'[q].of = run[q].of
    BY <1>10, Cancelled
  <2>3. job[i] \in CronJobRecord /\ job[i].failures \in Nat
    BY DEF TypeOK, CronJobRecord
  <2>4. \/ job'[i] = job[i]
        \/ job'[i] = Settled(job[i], job[i].failures)
    BY <1>10 DEF Stop
  <2>5. job'[i].enabled = job[i].enabled /\ job'[i].failures = job[i].failures
    BY <2>3, <2>4, SettledType
  <2> QED
    BY <2>1, <2>2, <2>5, StaysCurrent
<1>11. CASE Restart
  BY <1>11 DEF Restart, Current, store
<1>12. CASE UNCHANGED vars
  BY <1>12 DEF Current, vars, memory, store, history
<1> QED
  BY <1>1, <1>2, <1>3, <1>4, <1>5, <1>6, <1>7, <1>8, <1>9, <1>10, <1>11, <1>12
     DEF Next, Client, Save, Step

-----------------------------------------------------------------------------
(***************************************************************************)
(* The theorems.                                                           *)
(***************************************************************************)

\* The inductive invariant holds in every state the subsystem reaches.
LEMMA Invariance == Spec => []CronInv
<1>1. Init => CronInv
  <2>1. Init => DeletedIsUnlisted /\ InUse
    BY DEF Init, DeletedIsUnlisted, InUse, NoOp, IdleRun
  <2>2. Init => ScheduledIsEnabled /\ PausedIsOff /\ RowIsCurrent
    BY DEF Init, ScheduledIsEnabled, PausedIsOff, RowIsCurrent
  <2> QED
    BY <2>1, <2>2, InitTypeOK DEF CronInv
<1>2. CronInv /\ [Next]_vars => CronInv'
  BY NextTypeOK, NextInUse, NextScheduledIsEnabled, NextPausedIsOff, NextDeletedIsUnlisted,
     NextRowIsCurrent DEF CronInv
<1> QED
  BY <1>1, <1>2, PTL DEF Spec

\* The variables have their types: what a client, a run, a stop or a restart
\* makes of a job or an execution is one again.
THEOREM CronTypes == Spec => []TypeOK
BY Invariance, PTL DEF CronInv

\* APScheduler keeps only jobs that are listed and enabled, whatever clients,
\* runs and restarts do.
THEOREM SchedulerKeepsEnabled == Spec => []ScheduledIsEnabled
BY Invariance, PTL DEF CronInv

\* Between its changes, a listed job and its row agree on the flag and on the
\* failures, although runs save without the lock that clients hold.
THEOREM RowsAreCurrent == Spec => []RowIsCurrent
BY Invariance, PTL DEF CronInv

\* No scheduled run begins for a job whose pause was answered, in this process
\* or in a later one, until a client enables the job.
THEOREM PauseHolds == Spec => PauseSticks
<1>1. CronInv /\ [Next]_vars =>
         [\A r \in Run : run[r].pc = "submitted" /\ run'[r].pc = "waiting" /\ Scheduled(r)
             => run[r].of \notin paused]_vars
  <2> SUFFICES ASSUME CronInv, Next, NEW r \in Run,
                      run[r].pc = "submitted", run'[r].pc = "waiting", Scheduled(r)
               PROVE  run[r].of \notin paused
    OBVIOUS
  <2> USE DEF CronInv
  <2>1. BeginRun(r)
    <3>1. CASE Client \/ \E j \in Job, q \in Run : Tick(j, q)
      BY <3>1 DEF Client, AddJob, UpdateJob, RemoveJob, TriggerJob, Tick, TypeOK
    <3>2. CASE Save
      BY <3>2 DEF Save, SaveChange, DeleteRow
    <3>3. ASSUME NEW q \in Run, q # r, Step(q) PROVE FALSE
      BY <3>3 DEF Step, BeginRun, SkipRun, AcquireSlot, Retry, EndRun, SaveRun, TypeOK
    <3>4. ASSUME Step(r) PROVE BeginRun(r)
      BY <3>4 DEF Step, BeginRun, SkipRun, AcquireSlot, Woken, Retry, EndRun, SaveRun, TypeOK,
                  RunRecord
    <3>5. CASE Stop
      BY <3>5 DEF Stop, Begun, TypeOK, RunRecord
    <3>6. CASE Restart
      BY <3>6 DEF Restart, UnderWay, TypeOK, RunRecord
    <3> QED
      BY <3>1, <3>2, <3>3, <3>4, <3>5, <3>6 DEF Next
  <2>2. job[run[r].of].enabled
    BY <2>1 DEF BeginRun, MayBegin, ShouldRun, Scheduled
  <2> QED
    BY <2>2 DEF PausedIsOff
<1> QED
  BY <1>1, Invariance, PTL DEF Spec, PauseSticks

=============================================================================
