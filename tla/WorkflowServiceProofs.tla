------------------------ MODULE WorkflowServiceProofs ------------------------
(***************************************************************************)
(* Theorems about WorkflowService, for any number of executions, tasks and *)
(* handlers: its types, that live rows are driven, that settled rows stay  *)
(* settled, that a cancel reaches a resumed run, and that a run which      *)
(* waits for a human can be resumed after a restart.                       *)
(*                                                                         *)
(* Every step is one of a few kinds, by what it does to the tasks: it      *)
(* spawns some, moves one on, leaves them alone, or is the restart.  Each  *)
(* operation is shown once to be of its kind (the lemmas ...Effect).       *)
(***************************************************************************)
EXTENDS WorkflowService, TLAPS

-----------------------------------------------------------------------------
(***************************************************************************)
(* Types.  Functions and records are named, for TypeOK speaks of values.   *)
(***************************************************************************)

Busy == [pc : TaskPC \ {"idle"}, of : Execution, kind : {"fresh", "resume"},
         state : MaybeState, outcome : Status]
Handler == [pc : {"act", "write", "done"}, of : Execution,
            kind : {"CANCELLED", "PAUSED"}, seen : MaybeState]
Row == [status : RowStatus, state : MaybeState]
Idle == [pc |-> "idle"]

\* A run that was begun has a state.
HasState == \A t \in Task : task[t].pc \in {"run", "blocked", "record"} => task[t].state \in Task

Types ==
    /\ TypeOK
    /\ HasState
    /\ task \in [Task -> Busy \cup {Idle}]
    /\ request \in [Request -> Handler \cup {Idle}]

LEMMA BusyTask ==
    ASSUME Types, NEW t \in Task, task[t].pc # "idle"
    PROVE  task[t] \in Busy
BY DEF Types, Idle

LEMMA BusyHandler ==
    ASSUME Types, NEW r \in Request, request[r].pc # "idle"
    PROVE  request[r] \in Handler
BY DEF Types, Idle

-----------------------------------------------------------------------------
(***************************************************************************)
(* The kinds of steps.                                                     *)
(***************************************************************************)

\* Task t goes on to pc, on state s, with outcome o.
Moves(t, pc, s, o) ==
    /\ task[t] \in Busy
    /\ task' \in [Task -> Busy \cup {Idle}]
    /\ task'[t] \in Busy
    /\ task'[t].pc = pc /\ task'[t].of = task[t].of /\ task'[t].kind = task[t].kind
    /\ task'[t].state = s /\ task'[t].outcome = o
    /\ \A u \in Task \ {t} : task'[u] = task[u]

\* The tasks ts, idle so far, begin on e.
Spawns(ts, e, kind, s) ==
    /\ task' \in [Task -> Busy \cup {Idle}]
    /\ \A t \in ts : task[t].pc = "idle" /\ task'[t] = NewTask(e, kind, s)
    /\ \A t \in Task \ ts : task'[t] = task[t]

LEMMA MoveOn ==
    ASSUME Types, NEW t \in Task, task[t].pc # "idle", NEW pc \in TaskPC \ {"idle"},
           task' = [task EXCEPT ![t].pc = pc]
    PROVE  Moves(t, pc, task[t].state, task[t].outcome)
<1>1. task[t] \in Busy
  BY BusyTask
<1>2. [task[t] EXCEPT !.pc = pc] \in Busy
  BY <1>1 DEF Busy
<1> QED
  BY <1>1, <1>2 DEF Moves, Types, Busy

LEMMA MoveToState ==
    ASSUME Types, NEW t \in Task, task[t].pc # "idle", NEW pc \in TaskPC \ {"idle"},
           NEW s \in MaybeState, task' = [task EXCEPT ![t].pc = pc, ![t].state = s]
    PROVE  Moves(t, pc, s, task[t].outcome)
<1>1. task[t] \in Busy
  BY BusyTask
<1>2. [task[t] EXCEPT !.pc = pc, !.state = s] \in Busy
  BY <1>1 DEF Busy
<1> QED
  BY <1>1, <1>2 DEF Moves, Types, Busy

LEMMA MoveWithOutcome ==
    ASSUME Types, NEW t \in Task, task[t].pc # "idle", NEW pc \in TaskPC \ {"idle"},
           NEW o \in Status, task' = [task EXCEPT ![t].pc = pc, ![t].outcome = o]
    PROVE  Moves(t, pc, task[t].state, o)
<1>1. task[t] \in Busy
  BY BusyTask
<1>2. [task[t] EXCEPT !.pc = pc, !.outcome = o] \in Busy
  BY <1>1 DEF Busy
<1> QED
  BY <1>1, <1>2 DEF Moves, Types, Busy

LEMMA SpawnEffect ==
    ASSUME Types, NEW ts \in SUBSET Task, NEW e \in Execution, NEW kind \in {"fresh", "resume"},
           NEW s \in MaybeState, Spawn([u \in ts |-> NewTask(e, kind, s)])
    PROVE  Spawns(ts, e, kind, s)
<1>1. NewTask(e, kind, s) \in Busy
  BY DEF NewTask, Busy, TaskPC, Status
<1> QED
  BY <1>1 DEF Spawn, Spawns, Types

\* A row whose status is set keeps its state id.
LEMMA StatusSet ==
    ASSUME Types, NEW e \in Execution, NEW status \in RowStatus, SetStatus(e, status)
    PROVE  /\ row' \in [Execution -> Row \cup {NoRow}]
           /\ row'[e].status = status /\ row'[e].state = row[e].state
           /\ \A f \in Execution \ {e} : row'[f] = row[f]
<1>1. [row[e] EXCEPT !.status = status] \in Row
  BY DEF Types, TypeOK, Row, NoRow, MaybeState
<1>2. /\ [row[e] EXCEPT !.status = status].status = status
      /\ [row[e] EXCEPT !.status = status].state = row[e].state
  BY DEF Types, TypeOK, Row, NoRow, MaybeState
<1> QED
  BY <1>1, <1>2 DEF SetStatus, Types, TypeOK, Row

-----------------------------------------------------------------------------
(***************************************************************************)
(* What each operation does to the tasks, the registrations and the state  *)
(* ids of the rows.                                                        *)
(***************************************************************************)

Over == {"raised", "record", "done"}
Inside == {"run", "blocked"}

SameStateIds == \A e \in Execution : row'[e].state = row[e].state

\* A handler's step, or none.
Quiet ==
    /\ task' = task
    /\ active' = active /\ inMemory' = inMemory /\ saved' = saved
    /\ SameStateIds

\* Tasks begin on a new row, or one task on a suspended one.
SpawnsFresh(ts, e) ==
    /\ Spawns(ts, e, "fresh", NoTask)
    /\ row[e] = NoRow /\ \A f \in Execution \ {e} : row'[f] = row[f]
    /\ active' = active /\ inMemory' = inMemory /\ saved' = saved
    /\ SameStateIds

SpawnsResume(t, e) ==
    /\ Spawns({t}, e, "resume", row[e].state)
    /\ row[e].state # NoTask /\ row' = row
    /\ MayOverlap \/ \A u \in Task : Driving(u, e) => task[u].kind = "fresh"
    /\ active' = active /\ inMemory' = inMemory /\ saved' = saved
    /\ SameStateIds

\* Task t enters the executor with state s.
Begins(t, s) ==
    /\ Moves(t, "run", s, task[t].outcome)
    /\ task[t].pc = "load"
    /\ \/ task[t].kind = "fresh" /\ s = t
       \/ /\ task[t].kind = "resume"
          /\ s = t \/ s \in Found(task[t].of, task[t].state)
    /\ active' = [active EXCEPT ![s] = t]
    /\ inMemory' = inMemory \cup {s}
    /\ saved' = saved
    /\ SameStateIds

\* Task t goes on without entering it: it blocks, leaves, or writes its row.
Proceeds(t) ==
    /\ \E pc \in Over \cup {"blocked"}, o \in Status :
         /\ Moves(t, pc, task[t].state, o)
         /\ task[t].pc \notin Inside => pc \in {"raised", "done"}
         /\ pc = "blocked" => active' = active
    /\ task[t].pc \in {"load", "run", "blocked", "raised", "record"}
    /\ inMemory' = inMemory
    /\ saved' = saved \/ (task[t].pc = "run" /\ saved' = saved \cup {task[t].state})
    /\ active' = active \/ (task[t].pc \in Inside /\ active' = [active EXCEPT ![task[t].state] = NoTask])
    /\ \/ SameStateIds
       \/ /\ task[t].pc = "record" /\ task[t].kind = "fresh" /\ task'[t].pc = "done"
          /\ row'[task[t].of].state = task[t].state
          /\ \A e \in Execution \ {task[t].of} : row'[e].state = row[e].state

\* The restart.
Restarts ==
    /\ task' \in [Task -> Busy \cup {Idle}]
    /\ \A t \in Task : IF task[t].pc = "idle" THEN task'[t].pc = "idle"
                       ELSE /\ task'[t].pc = "done" /\ task'[t].of = task[t].of
                            /\ task'[t].kind = task[t].kind
    /\ saved' = saved
    /\ SameStateIds

LEMMA InsertEffect ==
    ASSUME Types, NEW e \in Execution, NEW status \in RowStatus, Insert(e, status)
    PROVE  /\ row' \in [Execution -> Row \cup {NoRow}]
           /\ row[e] = NoRow /\ row'[e] = [status |-> status, state |-> NoTask]
           /\ \A f \in Execution \ {e} : row'[f] = row[f]
           /\ SameStateIds
<1>1. [status |-> status, state |-> NoTask] \in Row
  BY DEF Row, MaybeState
<1> QED
  BY <1>1 DEF Insert, SameStateIds, Types, TypeOK, Row, NoRow

LEMMA EnqueueEffect ==
    ASSUME Types, NEW e \in Execution, NEW t \in Task, Enqueue(e, t)
    PROVE  SpawnsFresh({t}, e)
<1>1. Insert(e, "QUEUED") /\ Spawn([u \in {t} |-> NewTask(e, "fresh", NoTask)])
  BY DEF Enqueue
<1> QED
  BY <1>1, InsertEffect, SpawnEffect DEF SpawnsFresh, Spawn, engine, MaybeState, RowStatus

LEMMA RunInlineEffect ==
    ASSUME Types, NEW e \in Execution, NEW t \in Task, RunInline(e, t)
    PROVE  SpawnsFresh({t}, e)
<1>1. Insert(e, "RUNNING") /\ Spawn([u \in {t} |-> NewTask(e, "fresh", NoTask)])
  BY DEF RunInline
<1> QED
  BY <1>1, InsertEffect, SpawnEffect DEF SpawnsFresh, Spawn, engine, MaybeState, RowStatus, Status

LEMMA StartEffect ==
    ASSUME Types, NEW e \in Execution, NEW t \in Task, NEW u \in Task, Start(e, t, u)
    PROVE  SpawnsFresh({t, u}, e)
<1>1. Insert(e, "QUEUED") /\ Spawn([x \in {t, u} |-> NewTask(e, "fresh", NoTask)])
  BY DEF Start
<1> QED
  BY <1>1, InsertEffect, SpawnEffect DEF SpawnsFresh, Spawn, engine, MaybeState, RowStatus

LEMMA FreshEffect ==
    ASSUME Types, NEW e \in Execution, NEW t \in Task, NEW u \in Task,
           Enqueue(e, t) \/ RunInline(e, t) \/ Start(e, t, u)
    PROVE  \E ts \in SUBSET Task : ts # {} /\ SpawnsFresh(ts, e)
<1>1. SpawnsFresh({t}, e) \/ SpawnsFresh({t, u}, e)
  BY EnqueueEffect, RunInlineEffect, StartEffect
<1>2. {t} \in SUBSET Task /\ {t, u} \in SUBSET Task /\ {t} # {} /\ {t, u} # {}
  OBVIOUS
<1> QED
  BY <1>1, <1>2

LEMMA ResumeEffect ==
    ASSUME Types, NEW e \in Execution, NEW t \in Task, Resume(e, t)
    PROVE  SpawnsResume(t, e)
<1>1. row[e].state \in MaybeState
  BY DEF Types, TypeOK, NoRow, MaybeState
<1>2. Spawns({t}, e, "resume", row[e].state)
  BY <1>1, SpawnEffect DEF Resume
<1> QED
  BY <1>2 DEF Resume, SpawnsResume, SameStateIds, Spawn, engine

LEMMA OfTask == ASSUME Types, NEW t \in Task, task[t].pc # "idle"
                PROVE  /\ task[t].of \in Execution /\ task[t].kind \in {"fresh", "resume"}
                       /\ task[t].state \in MaybeState /\ task[t].outcome \in Status
BY BusyTask DEF Busy

LEMMA LoadFailsEffect ==
    ASSUME Types, NEW t \in Task, LoadFails(t)
    PROVE  /\ Proceeds(t) /\ UNCHANGED <<request, engine>>
           /\ Moves(t, IF task[t].kind = "fresh" THEN "raised" ELSE "done",
                    task[t].state, task[t].outcome)
           /\ row' = row \/ (task[t].kind = "fresh" /\ SetStatus(task[t].of, "RUNNING"))
<1> DEFINE pc == IF task[t].kind = "fresh" THEN "raised" ELSE "done"
<1>1. task[t].pc = "load" /\ task' = [task EXCEPT ![t].pc = pc]
      /\ UNCHANGED <<request, engine>>
      /\ (row' = row \/ (task[t].kind = "fresh" /\ SetStatus(task[t].of, "RUNNING")))
  BY DEF LoadFails
<1>2. pc \in {"raised", "done"}
  OBVIOUS
<1>3. Moves(t, pc, task[t].state, task[t].outcome)
  BY <1>1, <1>2, MoveOn DEF TaskPC
<1>4. SameStateIds
  BY <1>1, OfTask, StatusSet DEF SameStateIds, RowStatus, Status
<1> QED
  BY <1>1, <1>2, <1>3, <1>4, OfTask DEF Proceeds, Over, Inside, engine

LEMMA BeginEffect ==
    ASSUME Types, NEW t \in Task, NEW s \in Task, task[t].pc = "load", Begin(t, s)
    PROVE  /\ Moves(t, "run", s, task[t].outcome)
           /\ active' = [active EXCEPT ![s] = t]
           /\ stateStatus' = [stateStatus EXCEPT ![s] = "RUNNING"]
           /\ inMemory' = inMemory \cup {s} /\ saved' = saved
           /\ UNCHANGED <<request, stopped, restarted>>
BY MoveToState DEF Begin, TaskPC, MaybeState, StateId

LEMMA BeginFreshEffect ==
    ASSUME Types, NEW t \in Task, BeginFresh(t)
    PROVE  Begins(t, t) /\ SetStatus(task[t].of, "RUNNING") /\ Begin(t, t)
<1>1. task[t].pc = "load" /\ task[t].kind = "fresh" /\ SetStatus(task[t].of, "RUNNING") /\ Begin(t, t)
  BY DEF BeginFresh
<1>2. SameStateIds
  BY <1>1, OfTask, StatusSet DEF SameStateIds, RowStatus, Status
<1> QED
  BY <1>1, <1>2, BeginEffect DEF Begins

LEMMA BeginResumedEffect ==
    ASSUME Types, NEW t \in Task, BeginResumed(t)
    PROVE  UNCHANGED row /\ \E s \in Task : Begins(t, s) /\ Begin(t, s)
<1>1. task[t].pc = "load" /\ task[t].kind = "resume" /\ row' = row
  BY DEF BeginResumed
<1>2. PICK s \in (IF Found(task[t].of, task[t].state) # {} THEN Found(task[t].of, task[t].state)
                  ELSE {t}) : Begin(t, s)
  BY DEF BeginResumed
<1>3. s = t \/ s \in Found(task[t].of, task[t].state)
  BY <1>2
<1>4. Found(task[t].of, task[t].state) \subseteq Task
  BY DEF Found, SavedFor, Types, TypeOK, StateId
<1>5. s \in Task
  BY <1>3, <1>4
<1>6. Begins(t, s)
  BY <1>1, <1>2, <1>3, <1>5, BeginEffect DEF Begins, SameStateIds
<1> QED
  BY <1>1, <1>2, <1>5, <1>6

LEMMA BlockEffect ==
    ASSUME Types, NEW t \in Task, Block(t)
    PROVE  /\ Proceeds(t) /\ UNCHANGED <<row, request, active, inMemory, stopped, restarted>>
           /\ Moves(t, "blocked", task[t].state, task[t].outcome)
           /\ saved' = saved \cup {task[t].state}
           /\ \E status \in Suspended :
                stateStatus' = [stateStatus EXCEPT ![task[t].state] = status]
<1>1. /\ task[t].pc = "run" /\ task' = [task EXCEPT ![t].pc = "blocked"]
      /\ saved' = saved \cup {task[t].state}
      /\ UNCHANGED <<row, request, active, inMemory, stopped, restarted>>
      /\ \E status \in Suspended : stateStatus' = [stateStatus EXCEPT ![task[t].state] = status]
  BY DEF Block
<1>2. Moves(t, "blocked", task[t].state, task[t].outcome)
  BY <1>1, MoveOn DEF TaskPC
<1>3. SameStateIds
  BY <1>1 DEF SameStateIds
<1> QED
  BY <1>1, <1>2, <1>3, OfTask DEF Proceeds, Inside

LEMMA SaveFailsEffect ==
    ASSUME Types, NEW t \in Task, SaveFails(t)
    PROVE  /\ Proceeds(t) /\ UNCHANGED <<row, request, inMemory, saved, stopped, restarted>>
           /\ task[t].pc \in Inside
           /\ Moves(t, IF task[t].kind = "fresh" THEN "raised" ELSE "done",
                    task[t].state, task[t].outcome)
           /\ active' = [active EXCEPT ![task[t].state] = NoTask]
           /\ \E status \in Suspended :
                stateStatus' = [stateStatus EXCEPT ![task[t].state] = status]
<1> DEFINE pc == IF task[t].kind = "fresh" THEN "raised" ELSE "done"
<1>1. /\ task[t].pc \in Inside /\ task' = [task EXCEPT ![t].pc = pc]
      /\ active' = [active EXCEPT ![task[t].state] = NoTask]
      /\ UNCHANGED <<row, request, inMemory, saved, stopped, restarted>>
      /\ \E status \in Suspended : stateStatus' = [stateStatus EXCEPT ![task[t].state] = status]
  BY DEF SaveFails, Inside
<1>2. pc \in {"raised", "done"}
  OBVIOUS
<1>3. Moves(t, pc, task[t].state, task[t].outcome)
  BY <1>1, <1>2, MoveOn DEF TaskPC, Inside
<1>4. SameStateIds
  BY <1>1 DEF SameStateIds
<1> QED
  BY <1>1, <1>2, <1>3, <1>4, OfTask DEF Proceeds, Inside, Over

LEMMA VerdictType ==
    ASSUME NEW status \in Status, NEW failed \in BOOLEAN
    PROVE  FinalStatus(status, failed) \in Status \ {"PENDING", "RUNNING"}
BY DEF FinalStatus, Status, Suspended

LEMMA EndEffect ==
    ASSUME Types, NEW t \in Task, End(t)
    PROVE  /\ Proceeds(t) /\ UNCHANGED <<row, request, inMemory, saved, stopped, restarted>>
           /\ task[t].pc \in Inside
           /\ active' = [active EXCEPT ![task[t].state] = NoTask]
           /\ \E verdict \in Status \ {"PENDING", "RUNNING"} :
                /\ stateStatus' = [stateStatus EXCEPT ![task[t].state] = verdict]
                /\ Moves(t, "record", task[t].state, verdict)
                /\ verdict = "WAITING_HUMAN" => stateStatus[task[t].state] = "WAITING_HUMAN"
<1> DEFINE s == task[t].state
<1>1. /\ task[t].pc \in Inside
      /\ active' = [active EXCEPT ![s] = NoTask]
      /\ UNCHANGED <<row, request, inMemory, saved, stopped, restarted>>
  BY DEF End, Inside
<1>2. PICK failed \in BOOLEAN, status \in {stateStatus[s], "TIMEOUT"} :
        /\ stateStatus' = [stateStatus EXCEPT ![s] = FinalStatus(status, failed)]
        /\ task' = [task EXCEPT ![t].pc = "record", ![t].outcome = FinalStatus(status, failed)]
  BY DEF End
<1>3. status \in Status
  <2>1. s \in Task
    BY <1>1 DEF Types, HasState, Inside
  <2> QED
    BY <1>2, <2>1 DEF Types, TypeOK, StateId, Status
<1>4. FinalStatus(status, failed) \in Status \ {"PENDING", "RUNNING"}
  BY <1>3, VerdictType
<1>5. FinalStatus(status, failed) = "WAITING_HUMAN" => stateStatus[s] = "WAITING_HUMAN"
  BY <1>2, <1>3 DEF FinalStatus, Suspended, Status
<1>6. Moves(t, "record", s, FinalStatus(status, failed))
  BY <1>1, <1>2, <1>4, MoveWithOutcome DEF Inside, TaskPC
<1>7. SameStateIds
  BY <1>1 DEF SameStateIds
<1>8. Proceeds(t)
  BY <1>1, <1>4, <1>6, <1>7 DEF Proceeds, Inside, Over
<1> QED
  BY <1>1, <1>2, <1>4, <1>5, <1>6, <1>8

LEMMA RecordEffect ==
    ASSUME Types, NEW t \in Task, Record(t)
    PROVE  /\ Proceeds(t) /\ UNCHANGED <<request, engine>>
           /\ task[t].pc = "record" /\ task[t].of \in Execution
           /\ Moves(t, "done", task[t].state, task[t].outcome)
           /\ row' \in [Execution -> Row \cup {NoRow}]
           /\ row'[task[t].of].status = task[t].outcome
           /\ row'[task[t].of].state = IF task[t].kind = "fresh" THEN task[t].state
                                                                 ELSE row[task[t].of].state
           /\ \A f \in Execution \ {task[t].of} : row'[f] = row[f]
<1> DEFINE e == task[t].of
           s == IF task[t].kind = "fresh" THEN task[t].state ELSE row[e].state
           new == [status |-> task[t].outcome, state |-> s]
<1>1. /\ task[t].pc = "record" /\ task' = [task EXCEPT ![t].pc = "done"]
      /\ UNCHANGED <<request, engine>>
  BY DEF Record
<1>2. e \in Execution /\ task[t].outcome \in Status /\ s \in MaybeState
  BY <1>1, OfTask DEF Types, TypeOK, NoRow, MaybeState
<1>4. row' = [row EXCEPT ![e] = new]
  BY DEF Record
<1>5. new \in Row /\ new.status = task[t].outcome /\ new.state = s
  BY <1>2 DEF Row, RowStatus
<1> HIDE DEF new, s
<1>6. /\ row' \in [Execution -> Row \cup {NoRow}]
      /\ row'[e].status = task[t].outcome /\ row'[e].state = s
      /\ \A f \in Execution \ {e} : row'[f] = row[f]
  BY <1>2, <1>4, <1>5 DEF Types, TypeOK, Row
<1>7. Moves(t, "done", task[t].state, task[t].outcome)
  BY <1>1, MoveOn DEF TaskPC
<1>8. /\ active' = active /\ inMemory' = inMemory /\ saved' = saved
      /\ task'[t].pc = "done" /\ task[t].outcome \in Status
  BY <1>1, <1>2, <1>7 DEF engine, Moves
<1>9. SameStateIds \/ /\ task[t].kind = "fresh" /\ row'[e].state = task[t].state
                      /\ \A f \in Execution \ {e} : row'[f].state = row[f].state
  <2>1. CASE task[t].kind = "fresh"
    BY <1>6, <2>1 DEF s
  <2>2. CASE task[t].kind # "fresh"
    BY <1>6, <2>2 DEF s, SameStateIds
  <2> QED
    BY <2>1, <2>2
<1>10. Proceeds(t)
  BY <1>1, <1>7, <1>8, <1>9 DEF Proceeds, Inside, Over
<1> QED
  BY <1>1, <1>2, <1>6, <1>7, <1>10 DEF s

LEMMA RecordFailureEffect ==
    ASSUME Types, NEW t \in Task, RecordFailure(t)
    PROVE  /\ Proceeds(t) /\ UNCHANGED <<request, engine>>
           /\ task[t].pc = "raised"
           /\ Moves(t, "done", task[t].state, task[t].outcome)
           /\ SetStatus(task[t].of, "FAILED")
<1>1. /\ task[t].pc = "raised" /\ task' = [task EXCEPT ![t].pc = "done"]
      /\ SetStatus(task[t].of, "FAILED") /\ UNCHANGED <<request, engine>>
  BY DEF RecordFailure
<1>2. Moves(t, "done", task[t].state, task[t].outcome)
  BY <1>1, MoveOn DEF TaskPC
<1>3. SameStateIds
  BY <1>1, OfTask, StatusSet DEF SameStateIds, RowStatus, Status
<1> QED
  BY <1>1, <1>2, <1>3, OfTask DEF Proceeds, Inside, Over, engine

-----------------------------------------------------------------------------
(***************************************************************************)
(* Types are kept.                                                         *)
(***************************************************************************)

LEMMA TypesInit == Init => Types
<1> SUFFICES ASSUME Init PROVE Types
  OBVIOUS
<1>1. TypeOK
  BY DEF Init, TypeOK, NoRow, MaybeState, StateId, Status
<1>2. task \in [Task -> Busy \cup {Idle}] /\ request \in [Request -> Handler \cup {Idle}]
  BY DEF Init, Idle
<1>3. HasState
  BY DEF Init, HasState
<1> QED
  BY <1>1, <1>2, <1>3 DEF Types

\* A step that gives the variables their types keeps Types.
LEMMA TypesFrom ==
    ASSUME row' \in [Execution -> Row \cup {NoRow}],
           task' \in [Task -> Busy \cup {Idle}], request' \in [Request -> Handler \cup {Idle}],
           active' \in [Task -> Task \cup {NoTask}], stateStatus' \in [Task -> Status],
           inMemory' \subseteq Task, saved' \subseteq Task, stopped' \subseteq Task,
           restarted' \in BOOLEAN, HasState'
    PROVE  Types'
<1>1. \A t \in Task : task'[t] = Idle \/ task'[t] \in Busy
  OBVIOUS
<1>2. \A r \in Request : request'[r] = Idle \/ request'[r] \in Handler
  OBVIOUS
<1> QED
  BY <1>1, <1>2 DEF Types, TypeOK, Row, Busy, Handler, Idle, StateId

LEMMA TypesGive ==
    ASSUME Types
    PROVE  /\ row \in [Execution -> Row \cup {NoRow}]
           /\ task \in [Task -> Busy \cup {Idle}] /\ request \in [Request -> Handler \cup {Idle}]
           /\ active \in [Task -> Task \cup {NoTask}] /\ stateStatus \in [Task -> Status]
           /\ inMemory \subseteq Task /\ saved \subseteq Task /\ stopped \subseteq Task
           /\ restarted \in BOOLEAN /\ HasState
BY DEF Types, TypeOK, Row, StateId

\* A move gives a state to whoever needs one.
LEMMA MoveKeepsState ==
    ASSUME Types, NEW t \in Task, NEW pc, NEW s, NEW o, Moves(t, pc, s, o),
           pc \in {"run", "blocked", "record"} => s \in Task
    PROVE  HasState' /\ task' \in [Task -> Busy \cup {Idle}]
BY DEF Moves, HasState, Types

LEMMA SpawnKeepsState ==
    ASSUME Types, NEW ts \in SUBSET Task, NEW e, NEW kind, NEW s, Spawns(ts, e, kind, s)
    PROVE  HasState' /\ task' \in [Task -> Busy \cup {Idle}]
BY DEF Spawns, HasState, Types, NewTask

LEMMA AcceptEffect ==
    ASSUME Types, NEW r \in Request, NEW e \in Execution, NEW kind \in {"CANCELLED", "PAUSED"},
           Accept(r, e, kind)
    PROVE  request' \in [Request -> Handler \cup {Idle}] /\ UNCHANGED <<row, task, engine, restarted>>
<1>1. row[e].state \in MaybeState
  BY DEF Types, TypeOK, NoRow, MaybeState
<1>2. [pc |-> "act", of |-> e, kind |-> kind, seen |-> row[e].state] \in Handler
  BY <1>1 DEF Handler
<1> QED
  BY <1>2 DEF Accept, Types

LEMMA HandlerGoesOn ==
    ASSUME Types, NEW r \in Request, request[r].pc # "idle", NEW pc \in {"write", "done"},
           request' = [request EXCEPT ![r].pc = pc]
    PROVE  request' \in [Request -> Handler \cup {Idle}]
<1>1. [request[r] EXCEPT !.pc = pc] \in Handler
  BY BusyHandler DEF Handler
<1> QED
  BY <1>1 DEF Types

LEMMA CallEffect ==
    ASSUME Types, NEW r \in Request, CallExecutor(r)
    PROVE  /\ Types' /\ UNCHANGED <<row, task, active, inMemory, saved, restarted>>
           /\ stateStatus' = stateStatus \/
                \E s \in Task, kind \in {"CANCELLED", "PAUSED"} :
                    stateStatus' = [stateStatus EXCEPT ![s] = kind]
<1> DEFINE s == request[r].seen
           kind == request[r].kind
           reached == s # NoTask /\ IF kind = "CANCELLED" THEN active[s] # NoTask
                                                          ELSE s \in inMemory
<1>1. /\ request[r].pc = "act" /\ request' = [request EXCEPT ![r].pc = "write"]
      /\ stateStatus' = IF reached THEN [stateStatus EXCEPT ![s] = kind] ELSE stateStatus
      /\ stopped' = IF reached /\ kind = "CANCELLED" THEN stopped \cup {active[s]} ELSE stopped
      /\ UNCHANGED <<row, task, active, inMemory, saved, restarted>>
  BY DEF CallExecutor
<1>2. s \in MaybeState /\ kind \in {"CANCELLED", "PAUSED"}
  BY <1>1, BusyHandler DEF Handler
<1>3. reached => s \in Task
  BY <1>2 DEF MaybeState, StateId
<1>4. request' \in [Request -> Handler \cup {Idle}]
  BY <1>1, HandlerGoesOn
<1> HIDE DEF s, kind
<1>5. stateStatus' \in [Task -> Status]
  BY <1>1, <1>2, <1>3, TypesGive DEF Status
<1>6. stopped' \subseteq Task
  BY <1>1, <1>2, <1>3, TypesGive
<1>7. HasState'
  BY <1>1, TypesGive DEF HasState
<1>8. /\ row' \in [Execution -> Row \cup {NoRow}] /\ task' \in [Task -> Busy \cup {Idle}]
      /\ active' \in [Task -> Task \cup {NoTask}]
      /\ inMemory' \subseteq Task /\ saved' \subseteq Task /\ restarted' \in BOOLEAN
  BY <1>1, TypesGive
<1>9. Types'
  BY <1>4, <1>5, <1>6, <1>7, <1>8, TypesFrom
<1> QED
  BY <1>1, <1>2, <1>3, <1>9

LEMMA SpawnTypes ==
    ASSUME Types, NEW ts \in SUBSET Task, NEW e, NEW kind, NEW s, Spawns(ts, e, kind, s),
           row' \in [Execution -> Row \cup {NoRow}], UNCHANGED <<request, engine, restarted>>
    PROVE  Types'
BY SpawnKeepsState, TypesFrom, TypesGive DEF engine

LEMMA ClientTypes ==
    ASSUME Types, NEW e \in Execution, NEW t \in Task, NEW u \in Task,
           Enqueue(e, t) \/ RunInline(e, t) \/ Resume(e, t) \/ Start(e, t, u)
    PROVE  Types'
<1>1. CASE Enqueue(e, t)
  <2>1. row' \in [Execution -> Row \cup {NoRow}] /\ UNCHANGED <<request, engine, restarted>>
    BY <1>1, InsertEffect DEF Enqueue, Spawn, RowStatus
  <2> QED
    BY <1>1, <2>1, EnqueueEffect, SpawnTypes DEF SpawnsFresh
<1>2. CASE RunInline(e, t)
  <2>1. row' \in [Execution -> Row \cup {NoRow}] /\ UNCHANGED <<request, engine, restarted>>
    BY <1>2, InsertEffect DEF RunInline, Spawn, RowStatus, Status
  <2> QED
    BY <1>2, <2>1, RunInlineEffect, SpawnTypes DEF SpawnsFresh
<1>3. CASE Start(e, t, u)
  <2>1. row' \in [Execution -> Row \cup {NoRow}] /\ UNCHANGED <<request, engine, restarted>>
    BY <1>3, InsertEffect DEF Start, Spawn, RowStatus
  <2> QED
    BY <1>3, <2>1, StartEffect, SpawnTypes DEF SpawnsFresh
<1>4. CASE Resume(e, t)
  <2>1. row' \in [Execution -> Row \cup {NoRow}] /\ UNCHANGED <<request, engine, restarted>>
    BY <1>4, TypesGive DEF Resume, Spawn
  <2> QED
    BY <1>4, <2>1, ResumeEffect, SpawnTypes DEF SpawnsResume
<1> QED
  BY <1>1, <1>2, <1>3, <1>4

LEMMA TaskStepTypes ==
    ASSUME Types, NEW t \in Task, TaskStep(t)
    PROVE  Types'
<1> DEFINE Rows == row' \in [Execution -> Row \cup {NoRow}]
<1>1. CASE LoadFails(t)
  <2>1. Rows
    BY <1>1, LoadFailsEffect, OfTask, StatusSet, TypesGive DEF RowStatus, Status, LoadFails
  <2>2. HasState' /\ task' \in [Task -> Busy \cup {Idle}]
    BY <1>1, LoadFailsEffect, MoveKeepsState
  <2> QED
    BY <1>1, <2>1, <2>2, LoadFailsEffect, TypesFrom, TypesGive DEF engine, LoadFails
<1>2. CASE BeginFresh(t)
  <2>1. task[t].pc = "load" /\ Begin(t, t) /\ SetStatus(task[t].of, "RUNNING")
    BY <1>2 DEF BeginFresh
  <2>2. Rows
    BY <2>1, OfTask, StatusSet DEF RowStatus, Status
  <2>3. HasState' /\ task' \in [Task -> Busy \cup {Idle}]
    BY <2>1, BeginEffect, MoveKeepsState
  <2> QED
    BY <2>1, <2>2, <2>3, BeginEffect, TypesFrom, TypesGive DEF Status
<1>3. CASE BeginResumed(t)
  <2>1. PICK s \in Task : Begin(t, s)
    BY <1>3, BeginResumedEffect
  <2>2. task[t].pc = "load" /\ row' = row
    BY <1>3 DEF BeginResumed
  <2>3. HasState' /\ task' \in [Task -> Busy \cup {Idle}]
    BY <2>1, <2>2, BeginEffect, MoveKeepsState
  <2> QED
    BY <2>1, <2>2, <2>3, BeginEffect, TypesFrom, TypesGive DEF Status
<1>4. CASE Block(t)
  <2>1. task[t].pc = "run" /\ task[t].state \in Task
    BY <1>4, TypesGive DEF Block, HasState
  <2>2. HasState' /\ task' \in [Task -> Busy \cup {Idle}]
    BY <1>4, <2>1, BlockEffect, MoveKeepsState
  <2>3. stateStatus' \in [Task -> Status]
    BY <1>4, <2>1, BlockEffect, TypesGive DEF Suspended, Status
  <2> QED
    BY <1>4, <2>1, <2>2, <2>3, BlockEffect, TypesFrom, TypesGive
<1>5. CASE SaveFails(t)
  <2>1. HasState' /\ task' \in [Task -> Busy \cup {Idle}]
    BY <1>5, SaveFailsEffect, MoveKeepsState
  <2>2. stateStatus' \in [Task -> Status] /\ active' \in [Task -> Task \cup {NoTask}]
    BY <1>5, SaveFailsEffect, TypesGive DEF Suspended, Status
  <2> QED
    BY <1>5, <2>1, <2>2, SaveFailsEffect, TypesFrom, TypesGive
<1>6. CASE End(t)
  <2>1. task[t].state \in Task
    BY <1>6, TypesGive, EndEffect DEF HasState, Inside
  <2>2. HasState' /\ task' \in [Task -> Busy \cup {Idle}]
    BY <1>6, <2>1, EndEffect, MoveKeepsState
  <2>3. stateStatus' \in [Task -> Status] /\ active' \in [Task -> Task \cup {NoTask}]
    BY <1>6, EndEffect, TypesGive
  <2> QED
    BY <1>6, <2>2, <2>3, EndEffect, TypesFrom, TypesGive
<1>7. CASE Record(t)
  <2>1. HasState' /\ task' \in [Task -> Busy \cup {Idle}]
    BY <1>7, RecordEffect, MoveKeepsState
  <2> QED
    BY <1>7, <2>1, RecordEffect, TypesFrom, TypesGive DEF engine, Record
<1>8. CASE RecordFailure(t)
  <2>1. HasState' /\ task' \in [Task -> Busy \cup {Idle}]
    BY <1>8, RecordFailureEffect, MoveKeepsState
  <2>2. Rows
    BY <1>8, RecordFailureEffect, OfTask, StatusSet DEF RowStatus, Status
  <2> QED
    BY <1>8, <2>1, <2>2, RecordFailureEffect, TypesFrom, TypesGive DEF engine, RecordFailure
<1> QED
  BY <1>1, <1>2, <1>3, <1>4, <1>5, <1>6, <1>7, <1>8 DEF TaskStep

LEMMA RestartEffect ==
    ASSUME Types, Restart
    PROVE  Restarts /\ Types'
<1>1. /\ task' = [t \in Task |-> IF task[t].pc = "idle" THEN task[t]
                                 ELSE [task[t] EXCEPT !.pc = "done"]]
      /\ request' = [r \in Request |-> IF request[r].pc = "idle" THEN request[r]
                                       ELSE [request[r] EXCEPT !.pc = "done"]]
      /\ active' = [s \in StateId |-> NoTask] /\ inMemory' = {} /\ stopped' = {}
      /\ restarted' = TRUE /\ UNCHANGED <<row, stateStatus, saved>>
  BY DEF Restart
<1>2. ASSUME NEW t \in Task, task[t].pc # "idle"
      PROVE  /\ task'[t] \in Busy /\ task'[t].pc = "done"
             /\ task'[t].of = task[t].of /\ task'[t].kind = task[t].kind
  BY <1>1, <1>2, BusyTask DEF Busy, TaskPC
<1>3. ASSUME NEW t \in Task, task[t].pc = "idle" PROVE task'[t] = task[t]
  BY <1>1, <1>3
<1>4. task' \in [Task -> Busy \cup {Idle}]
  BY <1>1, <1>2, <1>3, TypesGive
<1>5. request' \in [Request -> Handler \cup {Idle}]
  <2>1. ASSUME NEW r \in Request, request[r].pc # "idle" PROVE request'[r] \in Handler
    BY <1>1, <2>1, BusyHandler DEF Handler
  <2> QED
    BY <1>1, <2>1, TypesGive
<1>6. HasState'
  BY <1>2, <1>3 DEF HasState
<1>7. Restarts
  BY <1>1, <1>2, <1>3, <1>4 DEF Restarts, SameStateIds
<1> QED
  BY <1>1, <1>4, <1>5, <1>6, <1>7, TypesFrom, TypesGive DEF StateId

LEMMA WriteRowEffect ==
    ASSUME Types, NEW r \in Request, WriteRow(r)
    PROVE  /\ Types' /\ request[r].pc = "write" /\ request[r].of \in Execution
           /\ request[r].kind \in {"CANCELLED", "PAUSED"}
           /\ SetStatus(request[r].of, request[r].kind)
           /\ UNCHANGED <<task, engine, restarted>>
<1>1. /\ request[r].pc = "write" /\ SetStatus(request[r].of, request[r].kind)
      /\ request' = [request EXCEPT ![r].pc = "done"] /\ UNCHANGED <<task, engine, restarted>>
  BY DEF WriteRow
<1>2. request[r].of \in Execution /\ request[r].kind \in {"CANCELLED", "PAUSED"}
  BY <1>1, BusyHandler DEF Handler
<1>3. row' \in [Execution -> Row \cup {NoRow}]
  BY <1>1, <1>2, StatusSet DEF RowStatus, Status
<1>4. request' \in [Request -> Handler \cup {Idle}]
  BY <1>1, HandlerGoesOn
<1>5. HasState'
  BY <1>1, TypesGive DEF HasState
<1> QED
  BY <1>1, <1>2, <1>3, <1>4, <1>5, TypesFrom, TypesGive DEF engine

LEMMA TypesKept == Types /\ [Next]_vars => Types'
<1> SUFFICES ASSUME Types, [Next]_vars PROVE Types'
  OBVIOUS
<1>1. ASSUME NEW r \in Request, NEW e \in Execution, Cancel(r, e) \/ Pause(r, e) PROVE Types'
  <2>1. request' \in [Request -> Handler \cup {Idle}] /\ UNCHANGED <<row, task, engine, restarted>>
    BY <1>1, AcceptEffect DEF Cancel, Pause
  <2>2. HasState'
    BY <2>1, TypesGive DEF HasState
  <2> QED
    BY <2>1, <2>2, TypesFrom, TypesGive DEF engine
<1>2. CASE UNCHANGED vars
  <2>1. HasState'
    BY <1>2, TypesGive DEF HasState, vars, engine
  <2> QED
    BY <1>2, <2>1, TypesFrom, TypesGive DEF vars, engine
<1> QED
  BY <1>1, <1>2, ClientTypes, TaskStepTypes, CallEffect, WriteRowEffect, RestartEffect
  DEF Next, RequestStep

\* Every variable keeps its type, for any entries, restarts and overlaps.
THEOREM TypeCorrect == Spec => []TypeOK
<1>1. Types => TypeOK
  BY DEF Types
<1> QED
  BY <1>1, TypesInit, TypesKept, PTL DEF Spec

-----------------------------------------------------------------------------
(***************************************************************************)
(* Live rows are driven, and settled rows stay settled.                    *)
(***************************************************************************)

\* What a run is about to write is not live.
RecordSettles == \A t \in Task : task[t].pc = "record" => task[t].outcome \notin Live

LEMMA SettlesKept ==
    ASSUME Types, RecordSettles, [Next]_vars
    PROVE  RecordSettles'
<1>1. ASSUME NEW e \in Execution, NEW t \in Task, NEW u \in Task,
             Enqueue(e, t) \/ RunInline(e, t) \/ Start(e, t, u) \/ Resume(e, t)
      PROVE  RecordSettles'
  <2>1. ASSUME NEW ts \in SUBSET Task, NEW kind, NEW s, Spawns(ts, e, kind, s)
        PROVE  RecordSettles'
    BY <2>1 DEF RecordSettles, Spawns, NewTask
  <2>2. CASE Resume(e, t)
    BY <2>1, <2>2, ResumeEffect DEF SpawnsResume
  <2>3. CASE ~Resume(e, t)
    <3>1. PICK ts \in SUBSET Task : SpawnsFresh(ts, e)
      BY <1>1, <2>3, FreshEffect
    <3> QED
      BY <2>1, <3>1 DEF SpawnsFresh
  <2> QED
    BY <2>2, <2>3
<1>2. ASSUME NEW t \in Task, TaskStep(t)
      PROVE  RecordSettles'
  <2>1. CASE LoadFails(t)
    BY <2>1, LoadFailsEffect DEF RecordSettles, Moves
  <2>2. CASE BeginFresh(t)
    BY <2>2, BeginFreshEffect DEF RecordSettles, Moves, Begins
  <2>3. CASE BeginResumed(t)
    BY <2>3, BeginResumedEffect DEF RecordSettles, Moves, Begins
  <2>4. CASE Block(t)
    BY <2>4, BlockEffect DEF RecordSettles, Moves
  <2>5. CASE SaveFails(t)
    BY <2>5, SaveFailsEffect DEF RecordSettles, Moves
  <2>6. CASE End(t)
    <3>1. PICK verdict \in Status \ {"PENDING", "RUNNING"} :
            Moves(t, "record", task[t].state, verdict)
      BY <2>6, EndEffect
    <3>2. verdict \notin Live
      BY DEF Live, Status
    <3> QED
      BY <3>1, <3>2 DEF RecordSettles, Moves
  <2>7. CASE Record(t)
    BY <2>7, RecordEffect DEF RecordSettles, Moves
  <2>8. CASE RecordFailure(t)
    BY <2>8, RecordFailureEffect DEF RecordSettles, Moves
  <2> QED
    BY <1>2, <2>1, <2>2, <2>3, <2>4, <2>5, <2>6, <2>7, <2>8 DEF TaskStep
<1>3. CASE task' = task
  BY <1>3 DEF RecordSettles
<1>4. CASE Restart
  BY <1>4, RestartEffect DEF RecordSettles, Restarts
<1> QED
  BY <1>1, <1>2, <1>3, <1>4
  DEF Next, RequestStep, CallExecutor, WriteRow, Cancel, Pause, Accept, vars

\* What LiveRowDriven says of one row.
Driven(e) == \E t \in Task : Driving(t, e) /\ task[t].kind = "fresh"

LEMMA MoveKeepsDriven ==
    ASSUME Types, NEW t \in Task, NEW pc, NEW s, NEW o, Moves(t, pc, s, o),
           NEW e \in Execution, Driven(e),
           \/ pc \in {"load", "run", "blocked", "raised", "record"}
           \/ task[t].kind = "resume" \/ task[t].of # e
    PROVE  Driven(e)'
<1>1. PICK u \in Task : Driving(u, e) /\ task[u].kind = "fresh"
  BY DEF Driven
<1>2. Driving(u, e)' /\ task'[u].kind = "fresh"
  BY <1>1 DEF Moves, Driving
<1> QED
  BY <1>2 DEF Driven

LEMMA SpawnKeepsDriven ==
    ASSUME Types, NEW ts \in SUBSET Task, NEW e0, NEW kind, NEW s, Spawns(ts, e0, kind, s),
           NEW e \in Execution, Driven(e) \/ (e = e0 /\ kind = "fresh" /\ ts # {})
    PROVE  Driven(e)'
<1>1. CASE Driven(e)
  <2>1. PICK u \in Task : Driving(u, e) /\ task[u].kind = "fresh"
    BY <1>1 DEF Driven
  <2>2. Driving(u, e)' /\ task'[u].kind = "fresh"
    BY <2>1 DEF Spawns, Driving
  <2> QED
    BY <2>2 DEF Driven
<1>2. CASE e = e0 /\ kind = "fresh" /\ ts # {}
  <2>1. PICK u \in ts : TRUE
    BY <1>2
  <2>2. Driving(u, e)' /\ task'[u].kind = "fresh"
    BY <1>2, <2>1 DEF Spawns, Driving, NewTask
  <2> QED
    BY <2>1, <2>2 DEF Driven
<1> QED
  BY <1>1, <1>2

\* A task that moves on, with its row set to a status, which is live only if
\* the task goes on driving it.
LEMMA SetKeepsDriven ==
    ASSUME Types, NEW t \in Task, NEW pc, NEW s, NEW o, Moves(t, pc, s, o),
           NEW status \in RowStatus, SetStatus(task[t].of, status), task[t].of \in Execution,
           \/ status \notin Live
           \/ pc \in {"run", "raised"} /\ task[t].kind = "fresh",
           NEW e \in Execution, row[e].status \in Live => Driven(e), row'[e].status \in Live
    PROVE  Driven(e)'
<1>1. CASE e = task[t].of
  <2>1. pc \in {"run", "raised"} /\ task[t].kind = "fresh"
    BY <1>1, StatusSet
  <2>2. Driving(t, e)' /\ task'[t].kind = "fresh"
    BY <1>1, <2>1 DEF Moves, Driving
  <2> QED
    BY <2>2 DEF Driven
<1>2. CASE e # task[t].of
  <2>1. Driven(e)
    BY <1>2, StatusSet
  <2> QED
    BY <1>2, <2>1, MoveKeepsDriven
<1> QED
  BY <1>1, <1>2

\* Only Restart writes restarted, and a process that has restarted stays so.
LEMMA RestartedStays ==
    ASSUME restarted, [Next]_vars
    PROVE  restarted'
<1>1. CASE Restart
  BY <1>1 DEF Restart
<1>2. CASE UNCHANGED vars
  BY <1>2 DEF vars
<1>3. ASSUME NEW e \in Execution, NEW t \in Task, NEW u \in Task,
             Enqueue(e, t) \/ RunInline(e, t) \/ Resume(e, t) \/ Start(e, t, u)
      PROVE  restarted'
  BY <1>3 DEF Enqueue, RunInline, Resume, Start, Spawn
<1>4. ASSUME NEW t \in Task, TaskStep(t) PROVE restarted'
  BY <1>4 DEF TaskStep, LoadFails, BeginFresh, BeginResumed, Begin, Block, SaveFails, End,
              Record, RecordFailure
<1>5. ASSUME NEW r \in Request, NEW e \in Execution, Cancel(r, e) \/ Pause(r, e)
      PROVE  restarted'
  BY <1>5 DEF Cancel, Pause, Accept
<1>6. ASSUME NEW r \in Request, RequestStep(r) PROVE restarted'
  BY <1>6 DEF RequestStep, CallExecutor, WriteRow
<1> QED
  BY <1>1, <1>2, <1>3, <1>4, <1>5, <1>6 DEF Next

LEMMA DrivenKept ==
    ASSUME Types, RecordSettles, LiveRowDriven, [Next]_vars
    PROVE  LiveRowDriven'
<1> SUFFICES ASSUME ~restarted', NEW e \in Execution, row'[e].status \in Live
             PROVE  Driven(e)'
  BY DEF LiveRowDriven, Driven
<1>a. ~restarted /\ ~Restart
  BY RestartedStays DEF Restart
<1>0. row[e].status \in Live => Driven(e)
  BY <1>a DEF LiveRowDriven, Driven
<1>1. ASSUME NEW f \in Execution, NEW ts \in SUBSET Task, ts # {}, SpawnsFresh(ts, f)
      PROVE  Driven(e)'
  BY <1>0, <1>1, SpawnKeepsDriven DEF SpawnsFresh
<1>2. ASSUME NEW f \in Execution, NEW t \in Task, Resume(f, t)
      PROVE  Driven(e)'
  <2>1. Driven(e)
    BY <1>0, <1>2, ResumeEffect DEF SpawnsResume
  <2> QED
    BY <1>2, <2>1, ResumeEffect, SpawnKeepsDriven DEF SpawnsResume
<1>3. ASSUME NEW t \in Task, TaskStep(t)
      PROVE  Driven(e)'
  <2>1. CASE LoadFails(t)
    <3>1. CASE row' = row
      <4>1. task[t].kind = "resume" \/ task[t].kind = "fresh"
        BY <2>1, OfTask DEF LoadFails
      <4> QED
        BY <1>0, <2>1, <3>1, <4>1, LoadFailsEffect, MoveKeepsDriven
    <3>2. CASE task[t].kind = "fresh" /\ SetStatus(task[t].of, "RUNNING")
      <4>1. task[t].of \in Execution
        BY <2>1, OfTask DEF LoadFails
      <4> QED
        BY <1>0, <2>1, <3>2, <4>1, LoadFailsEffect, SetKeepsDriven DEF RowStatus, Status
    <3> QED
      BY <2>1, <3>1, <3>2, LoadFailsEffect
  <2>2. CASE BeginFresh(t)
    <3>1. task[t].of \in Execution /\ task[t].kind = "fresh"
      BY <2>2, OfTask DEF BeginFresh
    <3> QED
      BY <1>0, <2>2, <3>1, BeginFreshEffect, SetKeepsDriven DEF Begins, RowStatus, Status
  <2>3. CASE BeginResumed(t)
    BY <1>0, <2>3, BeginResumedEffect, MoveKeepsDriven DEF Begins
  <2>4. CASE Block(t)
    BY <1>0, <2>4, BlockEffect, MoveKeepsDriven
  <2>5. CASE SaveFails(t)
    <3>1. task[t].kind = "resume" \/ task[t].kind = "fresh"
      BY <2>5, OfTask DEF SaveFails
    <3> QED
      BY <1>0, <2>5, <3>1, SaveFailsEffect, MoveKeepsDriven
  <2>6. CASE End(t)
    <3>1. PICK verdict \in Status : Moves(t, "record", task[t].state, verdict)
      BY <2>6, EndEffect
    <3> QED
      BY <1>0, <2>6, <3>1, EndEffect, MoveKeepsDriven
  <2>7. CASE Record(t)
    <3>1. e # task[t].of
      BY <2>7, RecordEffect DEF RecordSettles
    <3> QED
      BY <1>0, <2>7, <3>1, RecordEffect, MoveKeepsDriven
  <2>8. CASE RecordFailure(t)
    <3>1. task[t].of \in Execution
      BY <2>8, OfTask DEF RecordFailure
    <3>2. "FAILED" \in RowStatus \ Live
      BY DEF RowStatus, Status, Live
    <3> QED
      BY <1>0, <2>8, <3>1, <3>2, RecordFailureEffect, SetKeepsDriven
  <2> QED
    BY <1>3, <2>1, <2>2, <2>3, <2>4, <2>5, <2>6, <2>7, <2>8 DEF TaskStep
<1>4. ASSUME task' = task, row' = row PROVE Driven(e)'
  BY <1>0, <1>4 DEF Driven, Driving
<1>5. ASSUME NEW r \in Request, WriteRow(r) PROVE Driven(e)'
  <2>1. row'[e].status = row[e].status
    BY <1>5, WriteRowEffect, StatusSet DEF Live, RowStatus, Status
  <2> QED
    BY <1>0, <1>5, <2>1, WriteRowEffect DEF Driven, Driving
<1>6. ASSUME NEW f \in Execution, NEW t \in Task, NEW u \in Task,
             Enqueue(f, t) \/ RunInline(f, t) \/ Start(f, t, u)
      PROVE  Driven(e)'
  <2>1. PICK ts \in SUBSET Task : ts # {} /\ SpawnsFresh(ts, f)
    BY <1>6, FreshEffect
  <2> QED
    BY <1>1, <2>1
<1> QED
  BY <1>a, <1>2, <1>3, <1>4, <1>5, <1>6
  DEF Next, RequestStep, CallExecutor, Cancel, Pause, Accept, vars

\* While the process lives, no exception, cancel or pause leaves an execution
\* behind that says queued or running.
THEOREM LiveIsDriven == Spec => []LiveRowDriven
<1> DEFINE Inv == Types /\ RecordSettles /\ LiveRowDriven
<1>1. Init => Inv
  BY TypesInit DEF Init, RecordSettles, LiveRowDriven, NoRow, Live
<1>2. Inv /\ [Next]_vars => Inv'
  BY TypesKept, SettlesKept, DrivenKept
<1>3. Inv => LiveRowDriven
  OBVIOUS
<1> QED
  BY <1>1, <1>2, <1>3, PTL DEF Spec

\* Every step is of one of the kinds.
LEMMA StepKinds ==
    ASSUME Types, [Next]_vars
    PROVE  \/ Quiet
           \/ \E e \in Execution : \E ts \in SUBSET Task : ts # {} /\ SpawnsFresh(ts, e)
           \/ \E e \in Execution, t \in Task : SpawnsResume(t, e)
           \/ \E t, s \in Task : Begins(t, s)
           \/ \E t \in Task : Proceeds(t)
           \/ Restarts
<1>1. ASSUME NEW t \in Task, TaskStep(t)
      PROVE  (\E s \in Task : Begins(t, s)) \/ Proceeds(t)
  <2>1. CASE BeginFresh(t)
    BY <2>1, BeginFreshEffect
  <2>2. CASE BeginResumed(t)
    BY <2>2, BeginResumedEffect
  <2>3. CASE LoadFails(t)
    BY <2>3, LoadFailsEffect
  <2>4. CASE Block(t)
    BY <2>4, BlockEffect
  <2>5. CASE SaveFails(t)
    BY <2>5, SaveFailsEffect
  <2>6. CASE End(t)
    BY <2>6, EndEffect
  <2>7. CASE Record(t)
    BY <2>7, RecordEffect
  <2>8. CASE RecordFailure(t)
    BY <2>8, RecordFailureEffect
  <2> QED
    BY <1>1, <2>1, <2>2, <2>3, <2>4, <2>5, <2>6, <2>7, <2>8 DEF TaskStep
<1>2. ASSUME NEW r \in Request, RequestStep(r)
      PROVE  Quiet
  <2>1. CASE CallExecutor(r)
    BY <2>1, CallEffect DEF Quiet, SameStateIds
  <2>2. CASE WriteRow(r)
    <3>1. SameStateIds
      BY <2>2, WriteRowEffect, StatusSet DEF SameStateIds, RowStatus, Status
    <3> QED
      BY <2>2, <3>1, WriteRowEffect DEF Quiet, engine
  <2> QED
    BY <1>2, <2>1, <2>2 DEF RequestStep
<1>3. ASSUME NEW r \in Request, NEW e \in Execution, Cancel(r, e) \/ Pause(r, e)
      PROVE  Quiet
  BY <1>3 DEF Cancel, Pause, Accept, engine, Quiet, SameStateIds
<1>4. ASSUME UNCHANGED vars PROVE Quiet
  BY <1>4 DEF vars, Quiet, SameStateIds
<1>5. ASSUME NEW e \in Execution, NEW t \in Task, NEW u \in Task,
             Enqueue(e, t) \/ RunInline(e, t) \/ Start(e, t, u)
      PROVE  \E ts \in SUBSET Task : ts # {} /\ SpawnsFresh(ts, e)
  BY <1>5, FreshEffect
<1> QED
  BY <1>1, <1>2, <1>3, <1>4, <1>5, ResumeEffect, RestartEffect DEF Next

LEMMA SettledKept ==
    ASSUME Types, [Next]_vars, NEW e \in Execution, row[e].status \in Terminal,
           \A t \in Task : ~Driving(t, e), \A r \in Request : ~Handling(r, e)
    PROVE  row'[e] = row[e] /\ \A t \in Task : ~Driving(t, e)'
<1>1. ASSUME NEW f \in Execution, NEW ts \in SUBSET Task, SpawnsFresh(ts, f)
      PROVE  row'[e] = row[e] /\ \A t \in Task : ~Driving(t, e)'
  <2>1. e # f
    BY <1>1 DEF SpawnsFresh, NoRow, Terminal
  <2> QED
    BY <1>1, <2>1 DEF SpawnsFresh, Spawns, NewTask, Driving
<1>2. ASSUME NEW f \in Execution, NEW t \in Task, Resume(f, t)
      PROVE  row'[e] = row[e] /\ \A u \in Task : ~Driving(u, e)'
  <2>1. e # f
    BY <1>2 DEF Resume, Suspended, Terminal
  <2>2. SpawnsResume(t, f)
    BY <1>2, ResumeEffect
  <2> QED
    BY <2>1, <2>2 DEF SpawnsResume, Spawns, NewTask, Driving
<1>3. ASSUME NEW t \in Task, NEW pc, NEW s, NEW o, Moves(t, pc, s, o), task[t].pc \notin {"idle", "done"}
      PROVE  task[t].of # e /\ \A u \in Task : ~Driving(u, e)'
  BY <1>3 DEF Moves, Driving, Busy, TaskPC
<1>4. ASSUME NEW t \in Task, TaskStep(t)
      PROVE  row'[e] = row[e] /\ \A u \in Task : ~Driving(u, e)'
  <2>1. CASE LoadFails(t)
    <3>1. task[t].pc = "load"
      BY <2>1 DEF LoadFails
    <3> QED
      BY <1>3, <2>1, <3>1, LoadFailsEffect, OfTask, StatusSet DEF RowStatus, Status
  <2>2. CASE BeginFresh(t)
    <3>1. task[t].pc = "load"
      BY <2>2 DEF BeginFresh
    <3> QED
      BY <1>3, <2>2, <3>1, BeginFreshEffect, OfTask, StatusSet DEF Begins, RowStatus, Status
  <2>3. CASE BeginResumed(t)
    <3>1. task[t].pc = "load"
      BY <2>3 DEF BeginResumed
    <3> QED
      BY <1>3, <2>3, <3>1, BeginResumedEffect DEF Begins
  <2>4. CASE Block(t)
    <3>1. task[t].pc = "run"
      BY <2>4 DEF Block
    <3> QED
      BY <1>3, <2>4, <3>1, BlockEffect
  <2>5. CASE SaveFails(t)
    BY <1>3, <2>5, SaveFailsEffect DEF Inside
  <2>6. CASE End(t)
    BY <1>3, <2>6, EndEffect DEF Inside
  <2>7. CASE Record(t)
    BY <1>3, <2>7, RecordEffect
  <2>8. CASE RecordFailure(t)
    <3>1. task[t].of \in Execution
      BY <2>8, OfTask DEF RecordFailure
    <3> QED
      BY <1>3, <2>8, <3>1, RecordFailureEffect, StatusSet DEF RowStatus, Status
  <2> QED
    BY <1>4, <2>1, <2>2, <2>3, <2>4, <2>5, <2>6, <2>7, <2>8 DEF TaskStep
<1>5. ASSUME NEW r \in Request, WriteRow(r)
      PROVE  row'[e] = row[e] /\ \A t \in Task : ~Driving(t, e)'
  <2>1. request[r].of # e
    BY <1>5, WriteRowEffect DEF Handling
  <2> QED
    BY <1>5, <2>1, WriteRowEffect, StatusSet DEF RowStatus, Status, Driving
<1>6. CASE Restart
  BY <1>6, RestartEffect DEF Restart, Restarts, Driving
<1>7. ASSUME row' = row, task' = task
      PROVE  row'[e] = row[e] /\ \A t \in Task : ~Driving(t, e)'
  BY <1>7 DEF Driving
<1>8. ASSUME NEW f \in Execution, NEW t \in Task, NEW u \in Task,
             Enqueue(f, t) \/ RunInline(f, t) \/ Start(f, t, u)
      PROVE  row'[e] = row[e] /\ \A x \in Task : ~Driving(x, e)'
  BY <1>1, <1>8, FreshEffect
<1> QED
  BY <1>2, <1>4, <1>5, <1>6, <1>7, <1>8
  DEF Next, RequestStep, CallExecutor, Cancel, Pause, Accept, vars

\* An execution that is over and that nobody is at work on is not taken up
\* again, on the strength of a state id or of anything else.
THEOREM SettledIsFinal == Spec => SettledStaysSettled
<1> DEFINE Holds == \A e \in Execution :
                      /\ row[e].status \in Terminal
                      /\ \A t \in Task : ~Driving(t, e)
                      /\ \A r \in Request : ~Handling(r, e)
                      => row'[e] = row[e] /\ \A t \in Task : ~Driving(t, e)'
<1>1. Types /\ [Next]_vars => Holds
  BY SettledKept
<1>2. [][Holds]_vars => SettledStaysSettled
  BY PTL DEF SettledStaysSettled
<1> QED
  BY <1>1, <1>2, TypesInit, TypesKept, PTL DEF Spec

-----------------------------------------------------------------------------
(***************************************************************************)
(* Who runs on which state.                                                *)
(***************************************************************************)

Begun(t) == task[t].pc \in {"run", "blocked", "record"}
Started(s) == task[s].pc \notin {"idle", "load"}

\* A fresh run is on the state it created, which is in memory.
FreshState ==
    \A t \in Task : Begun(t) /\ task[t].kind = "fresh" => task[t].state = t /\ t \in inMemory

\* A state belongs to a task of the same execution that has begun.
StateBegun ==
    \A t \in Task : Begun(t) => Started(task[t].state) /\ task[task[t].state].of = task[t].of

SavedBegun == \A s \in saved : Started(s)

\* The state id in a row is that of a run which is over.
RowStateDone ==
    \A e \in Execution : row[e].state # NoTask =>
        row[e].state \in Task /\ task[row[e].state].pc = "done" /\ task[row[e].state].of = e

\* A resume has such a state id before it begins, and its row has one always.
ResumeTarget ==
    \A t \in Task : task[t].pc # "idle" /\ task[t].kind = "resume" =>
        /\ row[task[t].of].state # NoTask
        /\ task[t].pc = "load" =>
             /\ task[t].state \in Task /\ task[task[t].state].pc = "done"
             /\ task[task[t].state].of = task[t].of

\* As long as there is a fresh run of an execution, the process has not
\* restarted since its row got a state id: that state is in memory.
Remembered ==
    \A u \in Task, e \in Execution : Driving(u, e) /\ task[u].kind = "fresh" =>
        /\ row[e].state # NoTask => row[e].state \in inMemory
        /\ \A t \in Task : task[t].pc = "load" /\ task[t].kind = "resume" /\ task[t].of = e
             => task[t].state \in inMemory

\* Nobody else runs on the state of a fresh run.
FreshAlone ==
    \A t, u \in Task : t # u /\ task[t].pc \in Inside /\ task[u].pc \in Inside
                       /\ task[u].kind = "fresh" => task[t].state # u

\* The one resumed run of all is registered for its state.
OnlyResumed(t) ==
    /\ task[t].pc \in Inside /\ task[t].kind = "resume"
    /\ \A u \in Task \ {t} : task[u].pc = "idle" \/ task[u].kind = "fresh"

ResumedIsActive == \A t \in Task : OnlyResumed(t) => active[task[t].state] = t

StateInv ==
    /\ Types /\ FreshState /\ StateBegun /\ SavedBegun /\ RowStateDone
    /\ ResumeTarget /\ Remembered /\ FreshAlone /\ ResumedIsActive

LEMMA StateInvInit == Init => StateInv
<1> SUFFICES ASSUME Init PROVE StateInv
  OBVIOUS
<1>1. \A t \in Task : task[t].pc = "idle"
  BY DEF Init
<1>2. saved = {} /\ \A e \in Execution : row[e].state = NoTask
  BY DEF Init, NoRow
<1> QED
  BY <1>1, <1>2, TypesInit DEF StateInv, FreshState, StateBegun, SavedBegun, RowStateDone,
     ResumeTarget, Remembered, FreshAlone, ResumedIsActive, OnlyResumed, Begun, Driving, Inside

\* What no step does to a task: it does not change sides, and does not go back.
LEMMA Onward ==
    ASSUME Types, [Next]_vars, NEW t \in Task, task[t].pc # "idle"
    PROVE  /\ task'[t].of = task[t].of /\ task'[t].kind = task[t].kind
           /\ task'[t].pc # "idle"
           /\ Started(t) => Started(t)'
           /\ task[t].pc = "done" => task'[t].pc = "done"
<1>1. CASE Quiet
  BY <1>1 DEF Quiet, Started
<1>2. ASSUME NEW e \in Execution, NEW ts \in SUBSET Task, SpawnsFresh(ts, e)
      PROVE  task'[t] = task[t]
  BY <1>2 DEF SpawnsFresh, Spawns
<1>3. ASSUME NEW e \in Execution, NEW u \in Task, SpawnsResume(u, e)
      PROVE  task'[t] = task[t]
  BY <1>3 DEF SpawnsResume, Spawns
<1>4. ASSUME NEW u \in Task, NEW pc \in {"run", "blocked", "raised", "record", "done"},
             NEW s, NEW o, Moves(u, pc, s, o), task[u].pc # "done"
      PROVE  /\ task'[t].of = task[t].of /\ task'[t].kind = task[t].kind
             /\ task'[t].pc # "idle"
             /\ Started(t) => Started(t)'
             /\ task[t].pc = "done" => task'[t].pc = "done"
  BY <1>4 DEF Moves, Started
<1>5. ASSUME NEW u \in Task, NEW s \in Task, Begins(u, s)
      PROVE  \E o : \E pc \in {"run", "blocked", "raised", "record", "done"} :
               Moves(u, pc, s, o) /\ task[u].pc # "done"
  BY <1>5 DEF Begins
<1>6. ASSUME NEW u \in Task, Proceeds(u)
      PROVE  \E s, o : \E pc \in {"run", "blocked", "raised", "record", "done"} :
               Moves(u, pc, s, o) /\ task[u].pc # "done"
  BY <1>6 DEF Proceeds, Over
<1>7. CASE Restarts
  BY <1>7 DEF Restarts, Started
<1> QED
  BY <1>1, <1>2, <1>3, <1>4, <1>5, <1>6, <1>7, StepKinds DEF Started

\* A task that proceeds inside the executor was inside before, and a begun one
\* was begun.
LEMMA ProceedsBegun ==
    ASSUME NEW t \in Task, Proceeds(t)
    PROVE  /\ task'[t].of = task[t].of /\ task'[t].kind = task[t].kind
           /\ task'[t].state = task[t].state
           /\ task'[t].pc \in Over \cup {"blocked"}
           /\ Begun(t)' => task[t].pc \in Inside
           /\ task'[t].pc \in Inside => task[t].pc \in Inside /\ active' = active
           /\ \A u \in Task \ {t} : task'[u] = task[u]
BY DEF Proceeds, Moves, Begun, Inside, Over

LEMMA FreshStateKept ==
    ASSUME StateInv, [Next]_vars
    PROVE  FreshState'
<1>0. Types /\ FreshState
  BY DEF StateInv
<1>1. CASE Quiet
  BY <1>0, <1>1 DEF Quiet, FreshState, Begun
<1>2. ASSUME NEW e \in Execution, NEW ts \in SUBSET Task, SpawnsFresh(ts, e)
      PROVE  FreshState'
  BY <1>0, <1>2 DEF SpawnsFresh, Spawns, NewTask, FreshState, Begun
<1>3. ASSUME NEW e \in Execution, NEW t \in Task, SpawnsResume(t, e)
      PROVE  FreshState'
  BY <1>0, <1>3 DEF SpawnsResume, Spawns, NewTask, FreshState, Begun
<1>4. ASSUME NEW t \in Task, NEW s \in Task, Begins(t, s)
      PROVE  FreshState'
  BY <1>0, <1>4 DEF Begins, Moves, FreshState, Begun
<1>5. ASSUME NEW t \in Task, Proceeds(t)
      PROVE  FreshState'
  <2>1. inMemory' = inMemory
    BY <1>5 DEF Proceeds
  <2> QED
    BY <1>0, <1>5, <2>1, ProceedsBegun DEF FreshState, Begun, Inside
<1>6. CASE Restarts
  BY <1>6 DEF Restarts, FreshState, Begun
<1> QED
  BY <1>0, <1>1, <1>2, <1>3, <1>4, <1>5, <1>6, StepKinds

\* The state a resume finds belongs to a run of its execution that has begun,
\* and it is no state of a fresh run that is not over.
LEMMA FoundIsBegun ==
    ASSUME StateInv, NEW t \in Task, task[t].pc = "load", task[t].kind = "resume",
           NEW s \in Found(task[t].of, task[t].state)
    PROVE  /\ s \in Task /\ Started(s) /\ task[s].of = task[t].of
           /\ ~(task[s].pc \in Inside /\ task[s].kind = "fresh")
<1>1. /\ task[t].state \in Task /\ task[task[t].state].pc = "done"
      /\ task[task[t].state].of = task[t].of
  BY DEF StateInv, ResumeTarget
<1>2. CASE task[t].state \in inMemory \cup saved
  <2>1. s = task[t].state
    BY <1>2 DEF Found
  <2> QED
    BY <1>1, <2>1 DEF Started, Inside
<1>3. CASE task[t].state \notin inMemory \cup saved
  <2>1. s \in saved /\ task[s].of = task[t].of
    BY <1>3 DEF Found, SavedFor
  <2>2. s \in Task /\ Started(s)
    BY <2>1, TypesGive DEF StateInv, SavedBegun
  <2>3. ASSUME task[s].pc \in Inside, task[s].kind = "fresh" PROVE FALSE
    <3>1. task[t].of \in Execution
      BY OfTask DEF StateInv
    <3>2. Driving(s, task[t].of)
      BY <2>1, <2>3 DEF Driving, Inside
    <3> QED
      BY <1>3, <2>2, <2>3, <3>1, <3>2 DEF StateInv, Remembered
  <2> QED
    BY <2>1, <2>2, <2>3
<1> QED
  BY <1>2, <1>3

LEMMA StateBegunKept ==
    ASSUME StateInv, [Next]_vars
    PROVE  StateBegun'
<1>0. Types /\ StateBegun /\ HasState
  BY DEF StateInv, Types
<1>1. ASSUME NEW t \in Task, Begun(t), task'[t].state = task[t].state
      PROVE  Started(task[t].state)' /\ (task[task[t].state].of = task[t].of)'
  <2>1. task[t].state \in Task
    BY <1>0, <1>1 DEF HasState, Begun
  <2>2. Started(task[t].state) /\ task[task[t].state].of = task[t].of
    BY <1>0, <1>1 DEF StateBegun
  <2> QED
    BY <1>0, <1>1, <2>1, <2>2, Onward DEF Started, Begun
<1>2. ASSUME NEW e \in Execution, NEW ts \in SUBSET Task, SpawnsFresh(ts, e)
      PROVE  \A t \in Task : Begun(t)' => Begun(t) /\ task'[t].state = task[t].state
  BY <1>2 DEF SpawnsFresh, Spawns, NewTask, Begun
<1>3. ASSUME NEW e \in Execution, NEW t \in Task, SpawnsResume(t, e)
      PROVE  \A u \in Task : Begun(u)' => Begun(u) /\ task'[u].state = task[u].state
  BY <1>3 DEF SpawnsResume, Spawns, NewTask, Begun
<1>4. ASSUME NEW t \in Task, NEW s \in Task, Begins(t, s)
      PROVE  StateBegun'
  <2>1. /\ task[t].pc = "load" /\ task'[t].state = s /\ task'[t].of = task[t].of
        /\ task'[t].pc = "run" /\ \A u \in Task \ {t} : task'[u] = task[u]
    BY <1>4 DEF Begins, Moves
  <2>2. CASE s = t
    BY <1>1, <2>1, <2>2 DEF StateBegun, Started, Begun
  <2>3. CASE s # t
    <3>1. Started(s) /\ task[s].of = task[t].of
      BY <1>4, <2>1, <2>3, FoundIsBegun DEF Begins
    <3> QED
      BY <1>1, <2>1, <2>3, <3>1 DEF StateBegun, Started, Begun
  <2> QED
    BY <2>2, <2>3
<1>5. ASSUME NEW t \in Task, Proceeds(t)
      PROVE  \A u \in Task : Begun(u)' => Begun(u) /\ task'[u].state = task[u].state
  BY <1>5, ProceedsBegun DEF Begun, Inside
<1>6. CASE Restarts
  BY <1>6 DEF Restarts, StateBegun, Begun
<1>7. CASE Quiet
  BY <1>0, <1>7 DEF Quiet, StateBegun, Begun, Started
<1>8. ASSUME \A t \in Task : Begun(t)' => Begun(t) /\ task'[t].state = task[t].state
      PROVE  StateBegun'
  BY <1>1, <1>8 DEF StateBegun, Started
<1> QED
  BY <1>0, <1>2, <1>3, <1>4, <1>5, <1>6, <1>7, <1>8, StepKinds

LEMMA SavedBegunKept ==
    ASSUME StateInv, [Next]_vars
    PROVE  SavedBegun'
<1>0. Types /\ SavedBegun /\ StateBegun /\ HasState /\ saved \subseteq Task
  BY TypesGive DEF StateInv
<1>1. ASSUME NEW s \in Task, Started(s) PROVE Started(s)'
  BY <1>0, <1>1, Onward DEF Started
<1>2. saved' = saved \/ \E t \in Task : task[t].pc = "run" /\ saved' = saved \cup {task[t].state}
  BY <1>0, StepKinds DEF Quiet, SpawnsFresh, SpawnsResume, Begins, Proceeds, Restarts
<1>3. \A t \in Task : task[t].pc = "run" => task[t].state \in Task /\ Started(task[t].state)
  BY <1>0 DEF HasState, StateBegun, Begun
<1> QED
  BY <1>0, <1>1, <1>2, <1>3 DEF SavedBegun

\* The state id of a row changes only when a fresh run writes it at its end.
LEMMA StateIds ==
    ASSUME StateInv, [Next]_vars
    PROVE  \/ SameStateIds
           \/ \E t \in Task :
                /\ task[t].pc = "record" /\ task[t].kind = "fresh" /\ task'[t].pc = "done"
                /\ task[t].state = t /\ t \in inMemory
                /\ task'[t].of = task[t].of /\ row'[task[t].of].state = t
                /\ \A e \in Execution \ {task[t].of} : row'[e].state = row[e].state
<1>0. Types /\ FreshState
  BY DEF StateInv
<1>1. ASSUME NEW t \in Task, Proceeds(t), ~SameStateIds
      PROVE  /\ task[t].pc = "record" /\ task[t].kind = "fresh" /\ task'[t].pc = "done"
             /\ task[t].state = t /\ t \in inMemory
             /\ task'[t].of = task[t].of /\ row'[task[t].of].state = t
             /\ \A e \in Execution \ {task[t].of} : row'[e].state = row[e].state
  <2>1. /\ task[t].pc = "record" /\ task[t].kind = "fresh" /\ task'[t].pc = "done"
        /\ row'[task[t].of].state = task[t].state
        /\ \A e \in Execution \ {task[t].of} : row'[e].state = row[e].state
    BY <1>1 DEF Proceeds
  <2>2. task[t].state = t /\ t \in inMemory
    BY <1>0, <2>1 DEF FreshState, Begun
  <2> QED
    BY <1>1, <2>1, <2>2, ProceedsBegun
<1> QED
  BY <1>0, <1>1, StepKinds DEF Quiet, SpawnsFresh, SpawnsResume, Begins, Restarts

LEMMA RowStateDoneKept ==
    ASSUME StateInv, [Next]_vars
    PROVE  RowStateDone'
<1>0. Types /\ RowStateDone
  BY DEF StateInv
<1> SUFFICES ASSUME NEW e \in Execution, row'[e].state # NoTask
             PROVE  /\ row'[e].state \in Task /\ task'[row'[e].state].pc = "done"
                    /\ task'[row'[e].state].of = e
  BY DEF RowStateDone
<1>1. CASE row'[e].state = row[e].state
  <2>1. row[e].state \in Task /\ task[row[e].state].pc = "done" /\ task[row[e].state].of = e
    BY <1>0, <1>1 DEF RowStateDone
  <2> QED
    BY <1>0, <1>1, <2>1, Onward
<1>2. CASE row'[e].state # row[e].state
  BY <1>2, StateIds DEF SameStateIds
<1> QED
  BY <1>1, <1>2

LEMMA ResumeTargetKept ==
    ASSUME StateInv, [Next]_vars
    PROVE  ResumeTarget'
<1>0. Types /\ ResumeTarget /\ RowStateDone
  BY DEF StateInv
<1>1. ASSUME NEW e \in Execution, row[e].state # NoTask PROVE row'[e].state # NoTask
  BY <1>1, StateIds, ServiceAssumption DEF SameStateIds
<1>2. ASSUME NEW t \in Task, task[t].pc # "idle", task'[t].pc = "load" => task[t].pc = "load",
             task'[t].pc = "load" => task'[t].state = task[t].state, task[t].kind = "resume"
      PROVE  /\ row'[task'[t].of].state # NoTask
             /\ task'[t].pc = "load" =>
                  /\ task'[t].state \in Task /\ task'[task'[t].state].pc = "done"
                  /\ task'[task'[t].state].of = task'[t].of
  <2>1. task[t].of \in Execution /\ row[task[t].of].state # NoTask /\ task'[t].of = task[t].of
    BY <1>0, <1>2, OfTask, Onward DEF ResumeTarget
  <2>2. ASSUME task'[t].pc = "load"
        PROVE  /\ task'[t].state \in Task /\ task'[task'[t].state].pc = "done"
               /\ task'[task'[t].state].of = task'[t].of
    <3>1. /\ task[t].state \in Task /\ task[task[t].state].pc = "done"
          /\ task[task[t].state].of = task[t].of
      BY <1>0, <1>2, <2>2 DEF ResumeTarget
    <3> QED
      BY <1>0, <1>2, <2>1, <2>2, <3>1, Onward
  <2> QED
    BY <1>1, <2>1, <2>2
<1>3. ASSUME \A t \in Task : task'[t].pc # "idle" => 
               /\ task[t].pc # "idle" /\ (task'[t].pc = "load" => task[t].pc = "load")
               /\ task'[t].pc = "load" => task'[t].state = task[t].state
      PROVE  ResumeTarget'
  BY <1>0, <1>2, <1>3, Onward DEF ResumeTarget
<1>4. CASE Quiet
  BY <1>3, <1>4 DEF Quiet
<1>5. ASSUME NEW e \in Execution, NEW ts \in SUBSET Task, SpawnsFresh(ts, e)
      PROVE  ResumeTarget'
  <2>1. \A t \in ts : task'[t].kind = "fresh"
    BY <1>5 DEF SpawnsFresh, Spawns, NewTask
  <2>2. \A t \in Task \ ts : task'[t] = task[t]
    BY <1>5 DEF SpawnsFresh, Spawns
  <2> QED
    BY <1>2, <2>1, <2>2 DEF ResumeTarget
<1>6. ASSUME NEW e \in Execution, NEW t \in Task, SpawnsResume(t, e)
      PROVE  ResumeTarget'
  <2>1. \A u \in Task \ {t} : task'[u] = task[u]
    BY <1>6 DEF SpawnsResume, Spawns
  <2>2. task'[t].of = e /\ task'[t].state = row[e].state /\ row[e].state # NoTask /\ task[t].pc = "idle"
    BY <1>6 DEF SpawnsResume, Spawns, NewTask
  <2>3. row[e].state \in Task /\ task[row[e].state].pc = "done" /\ task[row[e].state].of = e
    BY <1>0, <2>2 DEF RowStateDone
  <2>4. row[e].state # t /\ task'[row[e].state] = task[row[e].state]
    BY <2>1, <2>2, <2>3
  <2> QED
    BY <1>1, <1>2, <2>1, <2>2, <2>3, <2>4 DEF ResumeTarget
<1>7. ASSUME NEW t \in Task, NEW s \in Task, Begins(t, s)
      PROVE  ResumeTarget'
  BY <1>3, <1>7 DEF Begins, Moves
<1>8. ASSUME NEW t \in Task, Proceeds(t)
      PROVE  ResumeTarget'
  <2>1. task[t].pc # "idle"
    BY <1>8 DEF Proceeds
  <2> QED
    BY <1>3, <1>8, <2>1, ProceedsBegun DEF Over
<1>9. CASE Restarts
  BY <1>3, <1>9 DEF Restarts
<1> QED
  BY <1>0, <1>4, <1>5, <1>6, <1>7, <1>8, <1>9, StepKinds

\* What Remembered says of one fresh run.
Recalled(u, e) ==
    /\ row[e].state # NoTask => row[e].state \in inMemory
    /\ \A t \in Task : task[t].pc = "load" /\ task[t].kind = "resume" /\ task[t].of = e
         => task[t].state \in inMemory

LEMMA RememberedKept ==
    ASSUME StateInv, [Next]_vars
    PROVE  Remembered'
<1>0. Types /\ ResumeTarget
  BY DEF StateInv
<1> SUFFICES ASSUME NEW u \in Task, NEW e \in Execution, Driving(u, e)', task'[u].kind = "fresh"
             PROVE  Recalled(u, e)'
  BY DEF Remembered, Recalled
<1>1. ASSUME Driving(u, e), task[u].kind = "fresh" PROVE Recalled(u, e)
  BY <1>1 DEF StateInv, Remembered, Recalled
<1>2. CASE Quiet
  BY <1>1, <1>2 DEF Quiet, SameStateIds, Recalled, Driving
<1>3. ASSUME NEW f \in Execution, NEW ts \in SUBSET Task, SpawnsFresh(ts, f)
      PROVE  Recalled(u, e)'
  <2>1. /\ \A t \in ts : task'[t].kind = "fresh" /\ task'[t].of = f
        /\ \A t \in Task \ ts : task'[t] = task[t]
        /\ row'[e].state = row[e].state /\ inMemory' = inMemory /\ row[f].state = NoTask
    BY <1>3 DEF SpawnsFresh, Spawns, NewTask, SameStateIds, NoRow
  <2>2. CASE u \notin ts
    BY <1>1, <2>1, <2>2 DEF Recalled, Driving
  <2>3. CASE u \in ts
    <3>1. e = f
      BY <2>1, <2>3 DEF Driving
    <3>2. \A t \in Task : task'[t].pc = "load" /\ task'[t].kind = "resume" => task'[t].of # f
      BY <1>0, <2>1 DEF ResumeTarget
    <3> QED
      BY <2>1, <3>1, <3>2 DEF Recalled
  <2> QED
    BY <2>2, <2>3
<1>4. ASSUME NEW f \in Execution, NEW t \in Task, SpawnsResume(t, f)
      PROVE  Recalled(u, e)'
  <2>1. /\ task'[t].kind = "resume" /\ task'[t].of = f /\ task'[t].state = row[f].state
        /\ \A x \in Task \ {t} : task'[x] = task[x]
        /\ row'[e].state = row[e].state /\ inMemory' = inMemory /\ row[f].state # NoTask
    BY <1>4 DEF SpawnsResume, Spawns, NewTask, SameStateIds
  <2>2. u # t
    BY <2>1
  <2>3. Recalled(u, e)
    BY <1>1, <2>1, <2>2 DEF Driving
  <2> QED
    BY <2>1, <2>3 DEF Recalled
<1>5. ASSUME NEW t \in Task, NEW s \in Task, Begins(t, s)
      PROVE  Recalled(u, e)'
  <2>1. /\ task[t].pc = "load" /\ task'[t].pc = "run" /\ task'[t].of = task[t].of
        /\ task'[t].kind = task[t].kind /\ \A x \in Task \ {t} : task'[x] = task[x]
        /\ row'[e].state = row[e].state /\ inMemory' = inMemory \cup {s}
    BY <1>5 DEF Begins, Moves, SameStateIds
  <2>2. Recalled(u, e)
    BY <1>1, <2>1 DEF Driving
  <2> QED
    BY <2>1, <2>2 DEF Recalled
<1>6. ASSUME NEW t \in Task, Proceeds(t)
      PROVE  Recalled(u, e)'
  <2>1. inMemory' = inMemory /\ task[t].pc \in {"load", "run", "blocked", "raised", "record"}
    BY <1>6 DEF Proceeds
  <2>2. Recalled(u, e)
    BY <1>1, <1>6, <2>1, ProceedsBegun DEF Driving
  <2>3. row'[e].state = row[e].state \/ row'[e].state \in inMemory
    BY StateIds DEF SameStateIds
  <2>4. \A x \in Task : task'[x].pc = "load" => task'[x] = task[x]
    BY <1>6, ProceedsBegun DEF Over
  <2> QED
    BY <2>1, <2>2, <2>3, <2>4 DEF Recalled
<1>7. CASE Restarts
  BY <1>7 DEF Restarts, Driving
<1> QED
  BY <1>0, <1>2, <1>3, <1>4, <1>5, <1>6, <1>7, StepKinds

LEMMA FreshAloneKept ==
    ASSUME StateInv, [Next]_vars
    PROVE  FreshAlone'
<1>0. Types /\ FreshAlone /\ FreshState /\ StateBegun
  BY DEF StateInv
<1> SUFFICES ASSUME NEW t \in Task, NEW u \in Task, t # u, task'[t].pc \in Inside,
                    task'[u].pc \in Inside, task'[u].kind = "fresh"
             PROVE  task'[t].state # u
  BY DEF FreshAlone
<1>1. ASSUME task'[t] = task[t], task'[u] = task[u] PROVE task'[t].state # u
  BY <1>0, <1>1 DEF FreshAlone
<1>2. CASE Quiet
  BY <1>1, <1>2 DEF Quiet
<1>3. ASSUME NEW f \in Execution, NEW ts \in SUBSET Task, SpawnsFresh(ts, f)
      PROVE  task'[t].state # u
  BY <1>1, <1>3 DEF SpawnsFresh, Spawns, NewTask, Inside
<1>4. ASSUME NEW f \in Execution, NEW x \in Task, SpawnsResume(x, f)
      PROVE  task'[t].state # u
  BY <1>1, <1>4 DEF SpawnsResume, Spawns, NewTask, Inside
<1>5. ASSUME NEW x \in Task, NEW s \in Task, Begins(x, s)
      PROVE  task'[t].state # u
  <2>1. /\ task[x].pc = "load" /\ task'[x].state = s /\ task'[x].kind = task[x].kind
        /\ \A y \in Task \ {x} : task'[y] = task[y]
        /\ task[x].kind = "fresh" => s = x
        /\ task[x].kind # "fresh" => task[x].kind = "resume"
        /\ s # x => s \in Found(task[x].of, task[x].state)
    BY <1>5 DEF Begins, Moves
  <2>2. CASE u = x
    <3>1. task'[t] = task[t] /\ task[t].pc \in Inside
      BY <2>1, <2>2
    <3>2. Started(task[t].state)
      BY <1>0, <3>1 DEF StateBegun, Begun, Inside
    <3> QED
      BY <2>1, <2>2, <3>1, <3>2 DEF Started
  <2>3. CASE t = x /\ s # x
    <3>1. ~(task[s].pc \in Inside /\ task[s].kind = "fresh")
      BY <2>1, <2>3, FoundIsBegun
    <3>2. task'[u] = task[u]
      BY <2>1, <2>3
    <3> QED
      BY <2>1, <2>3, <3>1, <3>2
  <2>4. CASE t = x /\ s = x
    BY <2>1, <2>4
  <2>5. CASE t # x /\ u # x
    BY <1>1, <2>1, <2>5
  <2> QED
    BY <2>2, <2>3, <2>4, <2>5
<1>6. ASSUME NEW x \in Task, Proceeds(x)
      PROVE  task'[t].state # u
  <2>1. task[t].pc \in Inside /\ task'[t].state = task[t].state
    BY <1>6, ProceedsBegun
  <2>2. task[u].pc \in Inside /\ task[u].kind = "fresh"
    BY <1>6, ProceedsBegun
  <2> QED
    BY <1>0, <2>1, <2>2 DEF FreshAlone
<1>7. CASE Restarts
  BY <1>7 DEF Restarts, Inside
<1> QED
  BY <1>0, <1>2, <1>3, <1>4, <1>5, <1>6, <1>7, StepKinds

LEMMA ActiveKept ==
    ASSUME StateInv, [Next]_vars
    PROVE  ResumedIsActive'
<1>0. /\ Types /\ FreshAlone /\ FreshState /\ StateBegun /\ ResumedIsActive /\ HasState
      /\ active \in [Task -> Task \cup {NoTask}]
  BY TypesGive DEF StateInv
<1> SUFFICES ASSUME NEW t \in Task, OnlyResumed(t)'
             PROVE  active'[task'[t].state] = t
  BY DEF ResumedIsActive
<1>1. ASSUME OnlyResumed(t) PROVE active[task[t].state] = t /\ task[t].state \in Task
  BY <1>0, <1>1 DEF ResumedIsActive, HasState, OnlyResumed, Inside
<1>2. CASE Quiet
  BY <1>1, <1>2 DEF Quiet, OnlyResumed
<1>3. ASSUME NEW f \in Execution, NEW ts \in SUBSET Task, SpawnsFresh(ts, f)
      PROVE  active'[task'[t].state] = t
  <2>1. /\ \A x \in ts : task[x].pc = "idle" /\ task'[x].pc = "load"
        /\ \A x \in Task \ ts : task'[x] = task[x]
        /\ active' = active
    BY <1>3 DEF SpawnsFresh, Spawns, NewTask
  <2>2. t \notin ts /\ OnlyResumed(t)
    BY <2>1 DEF OnlyResumed, Inside
  <2> QED
    BY <1>1, <2>1, <2>2
<1>4. ASSUME NEW f \in Execution, NEW x \in Task, SpawnsResume(x, f)
      PROVE  active'[task'[t].state] = t
  BY <1>4 DEF SpawnsResume, Spawns, NewTask, OnlyResumed, Inside
<1>5. ASSUME NEW x \in Task, NEW s \in Task, Begins(x, s)
      PROVE  active'[task'[t].state] = t
  <2>1. /\ task[x].pc = "load" /\ task'[x].pc = "run" /\ task'[x].state = s
        /\ task'[x].kind = task[x].kind /\ \A y \in Task \ {x} : task'[y] = task[y]
        /\ task[x].kind = "fresh" => s = x
        /\ active' = [active EXCEPT ![s] = x]
    BY <1>5 DEF Begins, Moves
  <2>2. CASE x = t
    BY <1>0, <2>1, <2>2
  <2>3. CASE x # t
    <3>1. task[x].kind = "fresh" /\ s = x
      BY <2>1, <2>3 DEF OnlyResumed
    <3>2. OnlyResumed(t)
      BY <2>1, <2>3, <3>1 DEF OnlyResumed
    <3>3. Started(task[t].state)
      BY <1>0, <3>2 DEF StateBegun, OnlyResumed, Begun, Inside
    <3>4. task[t].state # x
      BY <2>1, <3>3 DEF Started
    <3> QED
      BY <1>0, <1>1, <2>1, <2>3, <3>1, <3>2, <3>4
  <2> QED
    BY <2>2, <2>3
<1>6. ASSUME NEW x \in Task, Proceeds(x)
      PROVE  active'[task'[t].state] = t
  <2>1. task[x].pc # "idle" /\ (active' = active \/ (task[x].pc \in Inside
           /\ active' = [active EXCEPT ![task[x].state] = NoTask]))
    BY <1>6 DEF Proceeds
  <2>2. OnlyResumed(t) /\ task'[t].state = task[t].state
    <3>1. /\ task'[x].kind = task[x].kind /\ task'[x].state = task[x].state
          /\ task'[x].pc \in Over \cup {"blocked"}
          /\ task'[x].pc \in Inside => task[x].pc \in Inside
          /\ \A u \in Task \ {x} : task'[u] = task[u]
      BY <1>6, ProceedsBegun
    <3>2. task'[x].pc # "idle"
      BY <3>1 DEF Over
    <3>3. /\ task'[t].pc \in Inside /\ task'[t].kind = "resume"
          /\ \A u \in Task \ {t} : task'[u].pc = "idle" \/ task'[u].kind = "fresh"
      BY DEF OnlyResumed
    <3>4. task[t].pc \in Inside /\ task[t].kind = "resume" /\ task'[t].state = task[t].state
      BY <3>1, <3>3
    <3>5. ASSUME NEW u \in Task \ {t} PROVE task[u].pc = "idle" \/ task[u].kind = "fresh"
      BY <3>1, <3>2, <3>3
    <3> QED
      BY <3>4, <3>5 DEF OnlyResumed
  <2>3. CASE x = t
    <3>1. active' = active
      BY <1>6, <2>3, ProceedsBegun DEF OnlyResumed
    <3> QED
      BY <1>1, <2>2, <3>1
  <2>4. CASE x # t /\ task[x].pc \in Inside
    <3>1. task[x].kind = "fresh" /\ task[t].pc \in Inside
      BY <2>1, <2>2, <2>4 DEF OnlyResumed
    <3>2. task[x].state = x
      BY <1>0, <2>4, <3>1 DEF FreshState, Begun, Inside
    <3>3. task[t].state # x
      BY <1>0, <2>4, <3>1 DEF FreshAlone
    <3> QED
      BY <1>0, <1>1, <2>1, <2>2, <3>2, <3>3
  <2> QED
    BY <1>1, <2>1, <2>2, <2>3, <2>4
<1>7. CASE Restarts
  BY <1>7 DEF Restarts, OnlyResumed, Inside
<1> QED
  BY <1>0, <1>2, <1>3, <1>4, <1>5, <1>6, <1>7, StepKinds

LEMMA StateInvKept == StateInv /\ [Next]_vars => StateInv'
<1>1. StateInv /\ [Next]_vars => Types'
  BY TypesKept DEF StateInv
<1> QED
  BY <1>1, FreshStateKept, StateBegunKept, SavedBegunKept, RowStateDoneKept, ResumeTargetKept,
     RememberedKept, FreshAloneKept, ActiveKept DEF StateInv

LEMMA CancelIsHeard ==
    ASSUME StateInv, NEW r \in Request, NEW t \in Task, CallExecutor(r),
           request[r].kind = "CANCELLED", task[t].pc \in {"run", "blocked"},
           task[t].kind = "resume", task[t].state = request[r].seen,
           \A u \in Task \ {t} : task[u].pc = "idle" \/ task[u].kind = "fresh"
    PROVE  t \in stopped'
<1>1. OnlyResumed(t)
  BY DEF OnlyResumed, Inside
<1>2. active[request[r].seen] = t
  BY <1>1 DEF StateInv, ResumedIsActive
<1>3. request[r].seen \in Task
  BY TypesGive DEF StateInv, HasState
<1>4. t # NoTask /\ request[r].seen # NoTask
  BY <1>3, ServiceAssumption
<1> QED
  BY <1>2, <1>4 DEF CallExecutor

\* A cancel that has seen the state id of the one resumed run stops that run:
\* no other run has taken the registration of its state away.
THEOREM CancelReachesResumed == Spec => ResumedRunHearsCancel
<1>1. StateInv /\ [Next]_vars => [\A r \in Request, t \in Task :
          /\ CallExecutor(r)
          /\ request[r].kind = "CANCELLED"
          /\ task[t].pc \in {"run", "blocked"}
          /\ task[t].kind = "resume"
          /\ task[t].state = request[r].seen
          /\ \A u \in Task \ {t} : task[u].pc = "idle" \/ task[u].kind = "fresh"
          => t \in stopped']_vars
  BY CancelIsHeard
<1> QED
  BY <1>1, StateInvInit, StateInvKept, PTL DEF Spec, ResumedRunHearsCancel

-----------------------------------------------------------------------------
(***************************************************************************)
(* What waits for a human is durable.                                      *)
(***************************************************************************)

\* While clients do not overlap, an execution has one resume at a time.
Resuming(t) == task[t].pc \notin {"idle", "done"} /\ task[t].kind = "resume"

OneResume ==
    \A t, u \in Task : Resuming(t) /\ Resuming(u) /\ task[t].of = task[u].of => t = u

\* A status of waiting was set with a snapshot.
WaitSaved ==
    \A t \in Task : task[t].pc \in Inside /\ stateStatus[task[t].state] = "WAITING_HUMAN"
                    => task[t].state \in saved

\* There is a snapshot of e.
HasSaved(e) == \E s \in saved : task[s].of = e

RecordSaved ==
    \A t \in Task : task[t].pc = "record" /\ task[t].outcome = "WAITING_HUMAN"
                    => HasSaved(task[t].of)

WaitInv == StateInv /\ OneResume /\ WaitSaved /\ RecordSaved /\ WaitingIsDurable

LEMMA OneResumeKept ==
    ASSUME Types, OneResume, ~MayOverlap, [Next]_vars
    PROVE  OneResume'
<1>1. ASSUME \A t \in Task : Resuming(t)' => Resuming(t) /\ task'[t].of = task[t].of
      PROVE  OneResume'
  BY <1>1 DEF OneResume
<1>2. CASE Quiet
  BY <1>1, <1>2 DEF Quiet, Resuming
<1>3. ASSUME NEW e \in Execution, NEW ts \in SUBSET Task, SpawnsFresh(ts, e)
      PROVE  OneResume'
  <2>1. \A t \in Task : Resuming(t)' => Resuming(t) /\ task'[t].of = task[t].of
    BY <1>3 DEF SpawnsFresh, Spawns, NewTask, Resuming
  <2> QED
    BY <1>1, <2>1
<1>4. ASSUME NEW e \in Execution, NEW x \in Task, SpawnsResume(x, e)
      PROVE  OneResume'
  <2>1. /\ task'[x].of = e
        /\ \A u \in Task \ {x} : task'[u] = task[u]
        /\ \A u \in Task : Driving(u, e) => task[u].kind = "fresh"
    BY <1>4 DEF SpawnsResume, Spawns, NewTask
  <2>2. ASSUME NEW u \in Task, Resuming(u), task[u].of = e PROVE FALSE
    <3>1. Driving(u, e)
      BY <2>2, BusyTask DEF Resuming, Driving, Busy, TaskPC
    <3> QED
      BY <2>1, <2>2, <3>1 DEF Resuming
  <2>3. ASSUME NEW u \in Task \ {x}, Resuming(u)' PROVE Resuming(u) /\ task'[u].of = task[u].of /\ task[u].of # e
    BY <2>1, <2>2, <2>3 DEF Resuming
  <2> QED
    BY <2>1, <2>3 DEF OneResume
<1>5. ASSUME NEW x \in Task, NEW s \in Task, Begins(x, s)
      PROVE  OneResume'
  <2>1. \A t \in Task : Resuming(t)' => Resuming(t) /\ task'[t].of = task[t].of
    BY <1>5 DEF Begins, Moves, Resuming
  <2> QED
    BY <1>1, <2>1
<1>6. ASSUME NEW x \in Task, Proceeds(x)
      PROVE  OneResume'
  <2>1. task[x].pc \notin {"idle", "done"}
    BY <1>6 DEF Proceeds
  <2>2. \A t \in Task : Resuming(t)' => Resuming(t) /\ task'[t].of = task[t].of
    BY <1>6, <2>1, ProceedsBegun DEF Resuming
  <2> QED
    BY <1>1, <2>2
<1>7. CASE Restarts
  BY <1>7 DEF Restarts, OneResume, Resuming
<1> QED
  BY <1>2, <1>3, <1>4, <1>5, <1>6, <1>7, StepKinds

\* Then no two runs are inside the executor on one state.
LEMMA Alone ==
    ASSUME StateInv, OneResume, NEW t \in Task, NEW u \in Task, t # u,
           task[t].pc \in Inside, task[u].pc \in Inside
    PROVE  task[t].state # task[u].state
<1>0. Types /\ FreshState /\ FreshAlone /\ StateBegun
  BY DEF StateInv
<1>1. task[t].kind \in {"fresh", "resume"} /\ task[u].kind \in {"fresh", "resume"}
  BY <1>0, OfTask DEF Inside
<1>2. CASE task[t].kind = "fresh" \/ task[u].kind = "fresh"
  BY <1>0, <1>2 DEF FreshState, FreshAlone, Begun, Inside
<1>3. CASE task[t].kind = "resume" /\ task[u].kind = "resume"
  <2>1. Resuming(t) /\ Resuming(u)
    BY <1>3 DEF Resuming, Inside
  <2>2. task[t].of # task[u].of
    BY <2>1 DEF OneResume
  <2> QED
    BY <1>0, <2>2 DEF StateBegun, Begun, Inside
<1> QED
  BY <1>1, <1>2, <1>3

\* Snapshots stay.
LEMMA SavedForKept ==
    ASSUME StateInv, [Next]_vars
    PROVE  \A e : HasSaved(e) => \E s \in saved' : task'[s].of = e
<1>0. Types /\ SavedBegun /\ saved \subseteq Task
  BY TypesGive DEF StateInv
<1>1. ASSUME NEW s \in saved PROVE task'[s].of = task[s].of
  <2>1. s \in Task /\ task[s].pc # "idle"
    BY <1>0 DEF SavedBegun, Started
  <2> QED
    BY <1>0, <2>1, Onward
<1>2. saved \subseteq saved'
  BY <1>0, StepKinds DEF Quiet, SpawnsFresh, SpawnsResume, Begins, Proceeds, Restarts
<1> QED
  BY <1>1, <1>2 DEF HasSaved

\* Steps that set no status leave WaitSaved to the tasks.
LEMMA WaitSavedStays ==
    ASSUME StateInv, WaitSaved, [Next]_vars, stateStatus' = stateStatus,
           \A t \in Task : task'[t].pc \in Inside =>
               task[t].pc \in Inside /\ task'[t].state = task[t].state
    PROVE  WaitSaved'
<1>1. saved \subseteq saved'
  BY StepKinds DEF StateInv, Quiet, SpawnsFresh, SpawnsResume, Begins, Proceeds, Restarts
<1> QED
  BY <1>1 DEF WaitSaved

LEMMA WaitSavedKept ==
    ASSUME StateInv, OneResume, WaitSaved, [Next]_vars
    PROVE  WaitSaved'
<1>0. Types /\ HasState /\ stateStatus \in [Task -> Status]
  BY TypesGive DEF StateInv
<1>1. ASSUME NEW t \in Task, TaskStep(t)
      PROVE  WaitSaved'
  <2>1. ASSUME NEW pc, NEW s, NEW o, Moves(t, pc, s, o), pc \notin Inside, stateStatus' = stateStatus
        PROVE  WaitSaved'
    BY <2>1, WaitSavedStays DEF Moves
  <2>2. ASSUME NEW s \in Task, Begin(t, s), Begins(t, s)
        PROVE  WaitSaved'
    <3>1. stateStatus' = [stateStatus EXCEPT ![s] = "RUNNING"] /\ saved' = saved
      BY <2>2 DEF Begin
    <3>2. /\ task'[t].state = s /\ \A u \in Task \ {t} : task'[u] = task[u]
      BY <2>2 DEF Begins, Moves
    <3>3. \A u \in Task : task[u].pc \in Inside => task[u].state \in Task
      BY <1>0 DEF HasState, Inside
    <3> QED
      BY <1>0, <3>1, <3>2, <3>3 DEF WaitSaved
  <2>3. ASSUME NEW pc, pc \notin Inside, NEW o, Moves(t, pc, task[t].state, o), task[t].pc \in Inside,
               NEW status, stateStatus' = [stateStatus EXCEPT ![task[t].state] = status],
               saved' = saved
        PROVE  WaitSaved'
    <3>1. task'[t].pc \notin Inside /\ \A u \in Task \ {t} : task'[u] = task[u]
      BY <2>3 DEF Moves
    <3>2. ASSUME NEW u \in Task \ {t}, task[u].pc \in Inside
          PROVE  task[u].state # task[t].state /\ task[u].state \in Task
      BY <1>0, <2>3, <3>2, Alone DEF HasState, Inside
    <3>3. ASSUME NEW u \in Task, task'[u].pc \in Inside,
                 stateStatus'[task'[u].state] = "WAITING_HUMAN"
          PROVE  task'[u].state \in saved'
      <4>1. u # t /\ task'[u] = task[u] /\ task[u].pc \in Inside
        BY <3>1, <3>3
      <4>2. stateStatus'[task[u].state] = stateStatus[task[u].state]
        BY <1>0, <2>3, <3>2, <4>1
      <4> QED
        BY <2>3, <3>3, <4>1, <4>2 DEF WaitSaved
    <3> QED
      BY <3>3 DEF WaitSaved
  <2>4. CASE LoadFails(t)
    BY <1>0, <2>1, <2>4, LoadFailsEffect DEF engine, Inside
  <2>5. CASE BeginFresh(t)
    BY <1>0, <2>2, <2>5, BeginFreshEffect
  <2>6. CASE BeginResumed(t)
    BY <1>0, <2>2, <2>6, BeginResumedEffect
  <2>7. CASE Block(t)
    <3>1. PICK status \in Suspended : stateStatus' = [stateStatus EXCEPT ![task[t].state] = status]
      BY <1>0, <2>7, BlockEffect
    <3>2. saved' = saved \cup {task[t].state} /\ task[t].pc = "run"
          /\ Moves(t, "blocked", task[t].state, task[t].outcome)
      BY <1>0, <2>7, BlockEffect DEF Block
    <3>3. ASSUME NEW u \in Task, task'[u].pc \in Inside,
                 stateStatus'[task'[u].state] = "WAITING_HUMAN"
          PROVE  task'[u].state \in saved'
      <4>1. task[u].pc \in Inside /\ task'[u].state = task[u].state
        BY <3>2, <3>3 DEF Moves, Inside
      <4>2. CASE task[u].state = task[t].state
        BY <3>2, <4>1, <4>2
      <4>3. CASE task[u].state # task[t].state
        <5>1. stateStatus'[task[u].state] = stateStatus[task[u].state]
          BY <1>0, <3>1, <4>1, <4>3 DEF HasState, Inside
        <5> QED
          BY <3>2, <3>3, <4>1, <5>1 DEF WaitSaved
      <4> QED
        BY <4>2, <4>3
    <3> QED
      BY <3>3 DEF WaitSaved
  <2>8. CASE SaveFails(t)
    <3> DEFINE pc == IF task[t].kind = "fresh" THEN "raised" ELSE "done"
    <3>1. PICK status \in Suspended : stateStatus' = [stateStatus EXCEPT ![task[t].state] = status]
      BY <1>0, <2>8, SaveFailsEffect
    <3>2. pc \notin Inside
      BY DEF Inside
    <3>3. Moves(t, pc, task[t].state, task[t].outcome) /\ task[t].pc \in Inside /\ saved' = saved
      BY <1>0, <2>8, SaveFailsEffect
    <3> HIDE DEF pc
    <3> QED
      BY <2>3, <3>1, <3>2, <3>3
  <2>9. CASE End(t)
    <3>1. PICK verdict \in Status : /\ stateStatus' = [stateStatus EXCEPT ![task[t].state] = verdict]
                                    /\ Moves(t, "record", task[t].state, verdict)
      BY <1>0, <2>9, EndEffect
    <3>2. "record" \notin Inside
      BY DEF Inside
    <3>3. task[t].pc \in Inside /\ saved' = saved
      BY <1>0, <2>9, EndEffect
    <3> QED
      BY <2>3, <3>1, <3>2, <3>3
  <2>10. CASE Record(t)
    BY <1>0, <2>1, <2>10, RecordEffect DEF engine, Inside
  <2>11. CASE RecordFailure(t)
    BY <1>0, <2>1, <2>11, RecordFailureEffect DEF engine, Inside
  <2> QED
    BY <1>1, <2>4, <2>5, <2>6, <2>7, <2>8, <2>9, <2>10, <2>11 DEF TaskStep
<1>2. ASSUME NEW r \in Request, CallExecutor(r)
      PROVE  WaitSaved'
  <2>1. task' = task /\ saved' = saved
        /\ (stateStatus' = stateStatus \/
            \E s \in Task, kind \in {"CANCELLED", "PAUSED"} :
                stateStatus' = [stateStatus EXCEPT ![s] = kind])
    BY <1>0, <1>2, CallEffect
  <2>2. \A u \in Task : task[u].pc \in Inside => task[u].state \in Task
    BY <1>0 DEF HasState, Inside
  <2> QED
    BY <1>0, <2>1, <2>2 DEF WaitSaved
<1>3. CASE task' = task /\ stateStatus' = stateStatus
  BY <1>3, WaitSavedStays
<1>4. ASSUME NEW e \in Execution, NEW t \in Task, NEW u \in Task,
             Enqueue(e, t) \/ RunInline(e, t) \/ Start(e, t, u)
      PROVE  WaitSaved'
  <2>1. PICK ts \in SUBSET Task : SpawnsFresh(ts, e)
    BY <1>0, <1>4, FreshEffect
  <2>2. stateStatus' = stateStatus
    BY <1>4 DEF Enqueue, RunInline, Start, Spawn, engine
  <2>3. \A x \in Task : task'[x].pc \in Inside => task'[x] = task[x]
    BY <2>1 DEF SpawnsFresh, Spawns, NewTask, Inside
  <2> QED
    BY <2>2, <2>3, WaitSavedStays
<1>5. ASSUME NEW e \in Execution, NEW t \in Task, Resume(e, t)
      PROVE  WaitSaved'
  <2>1. SpawnsResume(t, e) /\ stateStatus' = stateStatus
    BY <1>0, <1>5, ResumeEffect DEF Resume, Spawn, engine
  <2>2. \A x \in Task : task'[x].pc \in Inside => task'[x] = task[x]
    BY <2>1 DEF SpawnsResume, Spawns, NewTask, Inside
  <2> QED
    BY <2>1, <2>2, WaitSavedStays
<1>6. CASE Restart
  BY <1>0, <1>6, RestartEffect DEF Restarts, WaitSaved, Inside
<1> QED
  BY <1>1, <1>2, <1>3, <1>4, <1>5, <1>6
  DEF Next, RequestStep, WriteRow, Cancel, Pause, Accept, engine, vars

LEMMA RecordSavedKept ==
    ASSUME StateInv, WaitSaved, RecordSaved, [Next]_vars
    PROVE  RecordSaved'
<1>0. Types /\ StateBegun /\ HasState
  BY TypesGive DEF StateInv
<1>1. ASSUME NEW t \in Task, task'[t].pc = "record", task'[t].outcome = "WAITING_HUMAN",
             task[t].pc = "record", task'[t].outcome = task[t].outcome
      PROVE  \E s \in saved' : task'[s].of = task'[t].of
  <2>1. HasSaved(task[t].of) /\ task'[t].of = task[t].of
    BY <1>0, <1>1, Onward DEF RecordSaved
  <2> QED
    BY <2>1, SavedForKept
<1>2. ASSUME \A t \in Task : task'[t].pc = "record" =>
               task[t].pc = "record" /\ task'[t].outcome = task[t].outcome
      PROVE  RecordSaved'
  BY <1>1, <1>2 DEF RecordSaved, HasSaved
<1>3. ASSUME NEW t \in Task, End(t)
      PROVE  RecordSaved'
  <2>1. PICK verdict \in Status :
          /\ Moves(t, "record", task[t].state, verdict)
          /\ verdict = "WAITING_HUMAN" => stateStatus[task[t].state] = "WAITING_HUMAN"
    BY <1>0, <1>3, EndEffect
  <2>2. task[t].pc \in Inside
    BY <1>0, <1>3, EndEffect
  <2>3. ASSUME verdict = "WAITING_HUMAN"
        PROVE  \E s \in saved' : task'[s].of = task'[t].of
    <3>1. task[t].state \in saved /\ task[task[t].state].of = task[t].of
      BY <1>0, <2>1, <2>2, <2>3 DEF WaitSaved, StateBegun, Begun, Inside
    <3>2. HasSaved(task[t].of) /\ task'[t].of = task[t].of
      BY <2>1, <3>1 DEF HasSaved, Moves
    <3> QED
      BY <3>2, SavedForKept
  <2>4. ASSUME NEW u \in Task, task'[u].pc = "record", task'[u].outcome = "WAITING_HUMAN"
        PROVE  \E s \in saved' : task'[s].of = task'[u].of
    <3>1. CASE u = t
      BY <2>1, <2>3, <2>4, <3>1 DEF Moves
    <3>2. CASE u # t
      BY <1>1, <2>1, <2>4, <3>2 DEF Moves
    <3> QED
      BY <3>1, <3>2
  <2> QED
    BY <2>4 DEF RecordSaved, HasSaved
<1>4. ASSUME NEW t \in Task, TaskStep(t), ~End(t)
      PROVE  RecordSaved'
  <2>1. ASSUME NEW pc, NEW s, NEW o, Moves(t, pc, s, o), pc # "record"
        PROVE  RecordSaved'
    BY <1>2, <2>1 DEF Moves
  <2>2. CASE BeginFresh(t) \/ BeginResumed(t)
    BY <1>0, <2>1, <2>2, BeginFreshEffect, BeginResumedEffect DEF Begins
  <2>3. CASE LoadFails(t)
    BY <1>0, <2>1, <2>3, LoadFailsEffect
  <2>4. CASE Block(t)
    BY <1>0, <2>1, <2>4, BlockEffect
  <2>5. CASE SaveFails(t)
    BY <1>0, <2>1, <2>5, SaveFailsEffect
  <2>6. CASE Record(t)
    BY <1>0, <2>1, <2>6, RecordEffect
  <2>7. CASE RecordFailure(t)
    BY <1>0, <2>1, <2>7, RecordFailureEffect
  <2> QED
    BY <1>4, <2>2, <2>3, <2>4, <2>5, <2>6, <2>7 DEF TaskStep
<1>5. CASE task' = task
  BY <1>2, <1>5
<1>6. ASSUME NEW e \in Execution, NEW t \in Task, NEW u \in Task,
             Enqueue(e, t) \/ RunInline(e, t) \/ Start(e, t, u)
      PROVE  RecordSaved'
  <2>1. PICK ts \in SUBSET Task : SpawnsFresh(ts, e)
    BY <1>0, <1>6, FreshEffect
  <2>2. \A x \in Task : task'[x].pc = "record" => task'[x] = task[x]
    BY <2>1 DEF SpawnsFresh, Spawns, NewTask
  <2> QED
    BY <1>2, <2>2
<1>7. ASSUME NEW e \in Execution, NEW t \in Task, Resume(e, t)
      PROVE  RecordSaved'
  <2>1. SpawnsResume(t, e)
    BY <1>0, <1>7, ResumeEffect
  <2>2. \A x \in Task : task'[x].pc = "record" => task'[x] = task[x]
    BY <2>1 DEF SpawnsResume, Spawns, NewTask
  <2> QED
    BY <1>2, <2>2
<1>8. CASE Restart
  BY <1>0, <1>2, <1>8, RestartEffect DEF Restarts
<1> QED
  BY <1>3, <1>4, <1>5, <1>6, <1>7, <1>8
  DEF Next, RequestStep, CallExecutor, WriteRow, Cancel, Pause, Accept, vars

\* What WaitingIsDurable says of one row.
Durable(e) == row[e].state # NoTask /\ HasSaved(e)

\* Which rows a step may turn to waiting: that of a run which records it.
LEMMA TurnsWaiting ==
    ASSUME Types, [Next]_vars, NEW e \in Execution,
           row'[e].status = "WAITING_HUMAN", row[e].status # "WAITING_HUMAN"
    PROVE  \E t \in Task : Record(t) /\ task[t].of = e /\ task[t].outcome = "WAITING_HUMAN"
<1>1. ASSUME NEW f \in Execution, NEW status \in RowStatus, SetStatus(f, status),
             status # "WAITING_HUMAN"
      PROVE  FALSE
  BY <1>1, StatusSet
<1>2. \A status \in {"RUNNING", "FAILED", "CANCELLED", "PAUSED"} : status \in RowStatus
  BY DEF RowStatus, Status
<1>3. row' # row
  OBVIOUS
<1>4. ASSUME NEW t \in Task, TaskStep(t)
      PROVE  Record(t) /\ task[t].of = e /\ task[t].outcome = "WAITING_HUMAN"
  <2>1. CASE LoadFails(t)
    BY <1>1, <1>2, <1>3, <2>1, LoadFailsEffect, OfTask DEF LoadFails
  <2>2. CASE BeginFresh(t)
    BY <1>1, <1>2, <2>2, BeginFreshEffect, OfTask DEF BeginFresh
  <2>3. CASE RecordFailure(t)
    BY <1>1, <1>2, <2>3, RecordFailureEffect, OfTask
  <2>4. CASE BeginResumed(t) \/ Block(t) \/ SaveFails(t) \/ End(t)
    BY <1>3, <2>4 DEF BeginResumed, Block, SaveFails, End
  <2>5. CASE Record(t)
    BY <2>5, RecordEffect
  <2> QED
    BY <1>4, <2>1, <2>2, <2>3, <2>4, <2>5 DEF TaskStep
<1>5. ASSUME NEW f \in Execution, NEW status \in {"QUEUED", "RUNNING"}, Insert(f, status)
      PROVE  FALSE
  BY <1>5, InsertEffect DEF RowStatus, Status
<1>6. ASSUME NEW r \in Request, WriteRow(r) PROVE FALSE
  BY <1>1, <1>2, <1>6, WriteRowEffect
<1>7. CASE \E f \in Execution, t, u \in Task :
             Enqueue(f, t) \/ RunInline(f, t) \/ Start(f, t, u)
  BY <1>5, <1>7 DEF Enqueue, RunInline, Start
<1>8. CASE \E t \in Task : TaskStep(t)
  BY <1>4, <1>8
<1> QED
  BY <1>3, <1>6, <1>7, <1>8
  DEF Next, RequestStep, CallExecutor, Cancel, Pause, Accept, Resume, Restart, vars

LEMMA WaitingKept ==
    ASSUME StateInv, RecordSaved, WaitingIsDurable, [Next]_vars
    PROVE  WaitingIsDurable'
<1>0. Types /\ ResumeTarget /\ FreshState
  BY DEF StateInv
<1>1. ASSUME NEW e \in Execution, row[e].status = "WAITING_HUMAN" PROVE Durable(e)
  BY <1>1, TypesGive DEF WaitingIsDurable, Durable, HasSaved, SavedFor
<1>2. ASSUME NEW e \in Execution, Durable(e)
      PROVE  Durable(e)'
  <2>1. row'[e].state # NoTask
    BY <1>2, StateIds, ServiceAssumption DEF SameStateIds, Durable
  <2> QED
    BY <1>2, <2>1, SavedForKept DEF Durable, HasSaved
<1>3. ASSUME NEW t \in Task, NEW e \in Execution, Record(t), task[t].of = e,
             task[t].outcome = "WAITING_HUMAN"
      PROVE  Durable(e)'
  <2>1. /\ task[t].pc = "record" /\ task[t].kind \in {"fresh", "resume"}
        /\ row'[e].state = IF task[t].kind = "fresh" THEN task[t].state ELSE row[e].state
    BY <1>0, <1>3, RecordEffect, OfTask
  <2>2. task[t].kind = "fresh" => task[t].state # NoTask
    BY <1>0, <2>1, ServiceAssumption DEF FreshState, Begun
  <2>3. task[t].kind = "resume" => row[e].state # NoTask
    BY <1>0, <1>3, <2>1 DEF ResumeTarget
  <2>4. row'[e].state # NoTask
    BY <2>1, <2>2, <2>3
  <2>5. HasSaved(e)
    BY <1>3, <2>1 DEF RecordSaved
  <2> QED
    BY <2>4, <2>5, SavedForKept DEF Durable, HasSaved
<1>4. ASSUME NEW e \in Execution, row'[e].status = "WAITING_HUMAN"
      PROVE  Durable(e)'
  <2>1. CASE row[e].status = "WAITING_HUMAN"
    BY <1>1, <1>2, <2>1
  <2>2. CASE row[e].status # "WAITING_HUMAN"
    BY <1>0, <1>3, <1>4, <2>2, TurnsWaiting
  <2> QED
    BY <2>1, <2>2
<1>5. saved' \subseteq Task
  BY StateInvKept, TypesGive, TypesKept DEF StateInv, Types, TypeOK, StateId
<1> QED
  BY <1>4, <1>5 DEF WaitingIsDurable, Durable, HasSaved, SavedFor

\* A row that waits for a human has a state id and a snapshot, also after a
\* restart, as long as no client resumes what is being resumed.
THEOREM WaitingSurvives == ASSUME ~MayOverlap
                           PROVE  Spec => []WaitingIsDurable
<1>1. Init => WaitInv
  <2> SUFFICES ASSUME Init PROVE WaitInv
    OBVIOUS
  <2>1. \A t \in Task : task[t].pc = "idle"
    BY DEF Init
  <2>2. \A e \in Execution : row[e].status = "NONE"
    BY DEF Init, NoRow
  <2> QED
    BY <2>1, <2>2, StateInvInit
    DEF WaitInv, OneResume, Resuming, WaitSaved, Inside, RecordSaved, WaitingIsDurable
<1>2. WaitInv /\ [Next]_vars => WaitInv'
  BY StateInvKept, OneResumeKept, WaitSavedKept, RecordSavedKept, WaitingKept DEF WaitInv, StateInv
<1>3. WaitInv => WaitingIsDurable
  BY DEF WaitInv
<1> QED
  BY <1>1, <1>2, <1>3, PTL DEF Spec
=============================================================================
