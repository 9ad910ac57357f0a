-------------------------- MODULE TaskManagerProofs --------------------------
(***************************************************************************)
(* Theorems about TaskManager, for any number of tasks, runs and requests: *)
(* its types, that no running task is left without someone to end it, and  *)
(* that neither a kill nor the recovery disturbs what they should not.     *)
(***************************************************************************)
EXTENDS TaskManager, TLAPS

-----------------------------------------------------------------------------
(***************************************************************************)
(* The inductive invariants.                                               *)
(***************************************************************************)

IsKill(q) == request[q].kind \in {"kill", "direct"}

\* _running_tasks holds runs of the task it holds them for.
RunningAgrees ==
    \A t \in Task : running[t] # NoRun =>
        run[running[t]].pc # "idle" /\ run[running[t]].of = t

\* A run at the point of writing knows what to write.
WritesTerminal == \A r \in Run : run[r].pc = "write" => run[r].verdict \in Terminal

\* A run that is cancelled while the process lives is awaited by a kill of
\* its task, which goes on to write the row.
IsAwaited(r) ==
    \E q \in Request : /\ request[q].pc = "get"
                       /\ request[q].of = run[r].of
                       /\ IsKill(q)
                       /\ request[q].waits = r

CancelledIsAwaited ==
    \A r \in Run : Alive(r) /\ run[r].cancelled /\ life # "stopping" => IsAwaited(r)

\* A request works on a task whose row is there, and only on the strength of
\* a status that is not terminal.
Decides(q) ==
    request[q].pc \in {"act", "get", "commit"} =>
        /\ row[request[q].of] \notin NotVisible
        /\ request[q].seen \notin Terminal
        /\ request[q].pc = "commit" => request[q].seen # "UNREAD"
        /\ request[q].seen = "UNREAD" => request[q].kind = "direct"
        /\ request[q].kind = "cancel" => request[q].pc # "get"
        /\ request[q].kind = "flip" => request[q].pc = "commit"

RequestsDecide == \A q \in Request : Decides(q)

\* A start that has not committed has a run that waits for it.
Polled(t) == \E r \in Run : run[r].pc = "poll" /\ run[r].of = t /\ ~run[r].cancelled

OpenIsPolled == \A t \in Task : row[t] = "OPEN" => Polled(t)

\* Recovery belongs to the startup after a restart.
RecoveryAfterRestart == recovery.pc # "off" => life = "second"

\* What RunningIsAttended says of one task.
Attended(t) ==
    \/ RunsOf(t) # {}
    \/ \E q \in Request : AtWork(q, t) /\ request[q].kind \in {"kill", "direct"}
    \/ recovery.pc = "query" \/ t \in recovery.todo
    \/ life = "stopping"
    \/ life = "second" /\ t \notin Durable

Inv ==
    /\ TypeOK
    /\ RunningAgrees
    /\ WritesTerminal
    /\ CancelledIsAwaited
    /\ RequestsDecide
    /\ ~SlowCommit => OpenIsPolled
    /\ RecoveryAfterRestart
    /\ ~SlowCommit => RunningIsAttended

\* A task has one run at most, the one in _running_tasks.
OneRun == \A r \in Run : Alive(r) => running[run[r].of] = r /\ row[run[r].of] # "NONE"

\* With clients held back, nobody touches the jobs that are to be restarted.
RecoveryUndisturbed ==
    recovery.pc # "off" =>
        /\ \A q \in Request : request[q].pc \in {"idle", "done"}
        /\ recovery.pc = "query" => \A r \in Run : ~Alive(r)
        /\ \A t \in recovery.todo : /\ row[t] \in TaskStatus \ Terminal
                                    /\ \A r \in Run : Alive(r) => run[r].of # t

\* A kill awaits every run of its task, and writes the row after their end.
KillAwaitsAll ==
    \A q \in Request : IsKill(q) =>
        /\ request[q].pc = "get" =>
              \A r \in Run : Alive(r) /\ run[r].of = request[q].of => r = request[q].waits
        /\ request[q].pc = "commit" => \A r \in Run : Alive(r) => run[r].of # request[q].of

SoloInv ==
    /\ TypeOK
    /\ WritesTerminal
    /\ RequestsDecide
    /\ OneRun
    /\ RecoveryUndisturbed
    /\ KillAwaitsAll

-----------------------------------------------------------------------------
(***************************************************************************)
(* Types.                                                                  *)
(***************************************************************************)

LEMMA InitType == Init => TypeOK
BY DEF Init, TypeOK, NotVisible, Life, IdleRun, RunRecord, RunPC, Verdict, IdleRequest,
   RequestRecord, RequestPC, Kind

\* The steps of a run and of a request change one record.
LEMMA GoType ==
    ASSUME TypeOK, NEW r \in Run, run[r].pc # "idle",
           NEW pc \in RunPC, NEW verdict \in Verdict, Go(r, pc, verdict)
    PROVE  /\ run' \in [Run -> RunRecord]
           /\ \A s \in Run : run'[s].pc # "idle" => run'[s].of \in Task
<1> DEFINE new == [run[r] EXCEPT !.pc = pc, !.verdict = verdict]
<1>1. run[r] \in RunRecord /\ run[r].of \in Task
  BY DEF TypeOK
<1>2. new \in RunRecord /\ new.of \in Task
  BY <1>1 DEF RunRecord
<1>3. run' = [run EXCEPT ![r] = new]
  BY DEF Go
<1> QED
  <2> HIDE DEF new
  <2> QED BY <1>2, <1>3 DEF TypeOK

LEMMA LeaveType ==
    ASSUME TypeOK, NEW r \in Run, run[r].pc # "idle", Leave(r)
    PROVE  /\ run' \in [Run -> RunRecord]
           /\ \A s \in Run : run'[s].pc # "idle" => run'[s].of \in Task
           /\ running' \in [Task -> Run \cup {NoRun}]
           /\ registered' \in SUBSET Task
           /\ aborted' \in SUBSET Task
           /\ killOwned' \in SUBSET Task
<1>1. run[r].of \in Task
  BY DEF TypeOK
<1>2. /\ run' \in [Run -> RunRecord]
      /\ \A s \in Run : run'[s].pc # "idle" => run'[s].of \in Task
  BY DEF Leave, TypeOK, RunRecord, RunPC
<1> QED
  BY <1>1, <1>2 DEF Leave, TypeOK

LEMMA NextType == TypeOK /\ WritesTerminal /\ RequestsDecide /\ [Next]_vars => TypeOK'
<1> SUFFICES ASSUME TypeOK, WritesTerminal, RequestsDecide, [Next]_vars
             PROVE  TypeOK'
  OBVIOUS
<1> USE DEF memory
<1>1. ASSUME NEW t \in Task, NEW r \in Run, Start(t, r)
      PROVE  TypeOK'
  BY <1>1 DEF Start, Spawn, SetRow, TypeOK, RunRecord, RunPC, Verdict, NotVisible
<1>2. ASSUME NEW t \in Task, CommitStart(t) \/ RollBackStart(t) \/ CreateOnly(t)
      PROVE  TypeOK'
  BY <1>2 DEF CommitStart, RollBackStart, CreateOnly, SetRow, TypeOK, NotVisible,
              TaskStatus, Terminal
<1>3. ASSUME NEW r \in Run, RunStep(r)
      PROVE  TypeOK'
  <2>0. run[r].pc # "idle" /\ run[r] \in RunRecord
    BY <1>3 DEF RunStep, FindRow, GiveUp, HandlerEnds, ReadRow, WriteRow, Interrupted, At,
       TypeOK
  <2>1. CASE FindRow(r)
    BY <2>0, <2>1, GoType DEF FindRow, TypeOK, RunPC, Verdict
  <2>2. CASE GiveUp(r)
    BY <2>0, <2>2, LeaveType DEF GiveUp, TypeOK
  <2>3. CASE HandlerEnds(r)
    <3>1. PICK verdict \in {"RETURNED", "FAILED", "TIMEOUT"} :
             /\ Go(r, "read", verdict)
             /\ aborted' = IF verdict = "TIMEOUT" THEN aborted \cup {run[r].of} ELSE aborted
      BY <2>3 DEF HandlerEnds
    <3>2. "read" \in RunPC /\ verdict \in Verdict
      BY DEF RunPC, Verdict
    <3>3. /\ run' \in [Run -> RunRecord]
          /\ \A s \in Run : run'[s].pc # "idle" => run'[s].of \in Task
      BY <2>0, <3>1, <3>2, GoType
    <3> QED
      BY <2>0, <2>3, <3>1, <3>3 DEF HandlerEnds, TypeOK
  <2>4. CASE ReadRow(r)
    <3> DEFINE verdict == IF run[r].verdict # "RETURNED" THEN run[r].verdict
                          ELSE IF run[r].of \in aborted THEN "KILLED" ELSE "COMPLETED"
    <3>1. verdict \in Verdict /\ "write" \in RunPC
      BY <2>0 DEF RunRecord, RunPC, Verdict
    <3>2. CASE row[run[r].of] \in Terminal
      BY <2>0, <2>4, <3>2, LeaveType DEF ReadRow, TypeOK
    <3>3. CASE row[run[r].of] \notin Terminal
      <4>1. Go(r, "write", verdict) /\ UNCHANGED memory
        BY <2>4, <3>3 DEF ReadRow
      <4>2. /\ run' \in [Run -> RunRecord]
            /\ \A s \in Run : run'[s].pc # "idle" => run'[s].of \in Task
        <5> HIDE DEF verdict
        <5> QED BY <2>0, <3>1, <4>1, GoType
      <4> QED
        BY <2>4, <4>1, <4>2 DEF ReadRow, TypeOK
    <3> QED
      BY <3>2, <3>3
  <2>5. CASE WriteRow(r)
    <3>1. run[r].verdict \in Terminal
      BY <2>5 DEF WriteRow, At, WritesTerminal
    <3>2. row' \in [Task -> TaskStatus \cup NotVisible]
      BY <2>5, <3>1 DEF WriteRow, SetRow, TypeOK, TaskStatus
    <3> QED
      BY <2>0, <2>5, <3>2, LeaveType DEF WriteRow, TypeOK
  <2>6. CASE Interrupted(r)
    <3>1. run[r].pc = "write" => run[r].verdict \in Terminal
      BY DEF WritesTerminal
    <3>2. row' \in [Task -> TaskStatus \cup NotVisible]
      BY <2>6, <3>1 DEF Interrupted, SetRow, TypeOK, TaskStatus
    <3>3. CASE Leave(r)
      BY <2>0, <2>6, <3>2, <3>3, LeaveType DEF Interrupted, TypeOK
    <3>4. CASE ~Leave(r)
      <4>1. /\ run' = [run EXCEPT ![r] = [@ EXCEPT !.pc = "read", !.verdict = "KILLED",
                                                  !.cancelled = FALSE]]
            /\ UNCHANGED memory
        BY <2>6, <3>4 DEF Interrupted
      <4>2. /\ run' \in [Run -> RunRecord]
            /\ \A s \in Run : run'[s].pc # "idle" => run'[s].of \in Task
        BY <2>0, <4>1 DEF TypeOK, RunRecord, RunPC, Verdict
      <4> QED
        BY <2>6, <3>2, <4>1, <4>2 DEF Interrupted, TypeOK
    <3> QED
      BY <3>3, <3>4
  <2> QED
    BY <1>3, <2>1, <2>2, <2>3, <2>4, <2>5, <2>6 DEF RunStep
<1>4. ASSUME NEW q \in Request, NEW t \in Task, Load(q, t) \/ CallKill(q, t)
      PROVE  TypeOK'
  BY <1>4 DEF Load, CallKill, Admit, TypeOK, RequestRecord, RequestPC, Kind, TaskStatus
<1>5. ASSUME NEW q \in Request, RequestStep(q)
      PROVE  TypeOK'
  <2>0. request[q].pc # "idle" /\ request[q] \in RequestRecord
    BY <1>5 DEF RequestStep, CancelTask, KillTask, KillReads, Commit, TypeOK
  <2>1. CASE CancelTask(q)
    BY <2>0, <2>1 DEF CancelTask, Abort, TypeOK, RequestRecord, RequestPC
  <2>2. CASE KillTask(q)
    <3>1. /\ request' \in [Request -> RequestRecord]
          /\ \A p \in Request : request'[p].pc # "idle" => request'[p].of \in Task
      BY <2>0, <2>2 DEF KillTask, TypeOK, RequestRecord, RequestPC
    <3>2. /\ run' \in [Run -> RunRecord]
          /\ \A s \in Run : run'[s].pc # "idle" => run'[s].of \in Task
          /\ killOwned' \in SUBSET Task
      <4> DEFINE victim == running[request[q].of]
                 new == [run[victim] EXCEPT !.cancelled = TRUE]
      <4>1. request[q].of \in Task
        BY <2>0 DEF TypeOK
      <4>2. CASE victim = NoRun
        BY <2>2, <4>2 DEF KillTask, TypeOK
      <4>3. CASE victim # NoRun
        <5>1. victim \in Run /\ run[victim] \in RunRecord
          BY <4>1, <4>3 DEF TypeOK
        <5>2. /\ new \in RunRecord
              /\ new.pc = run[victim].pc
              /\ new.of = run[victim].of
          BY <5>1 DEF RunRecord
        <5>3. run' = [run EXCEPT ![victim] = new] /\ killOwned' = killOwned \cup {request[q].of}
          BY <2>2, <4>3 DEF KillTask
        <5> QED
          <6> HIDE DEF victim, new
          <6> QED BY <4>1, <5>1, <5>2, <5>3 DEF TypeOK
      <4> QED
        BY <4>2, <4>3
    <3> QED
      BY <2>0, <2>2, <3>1, <3>2 DEF KillTask, Abort, TypeOK
  <2>3. CASE KillReads(q)
    <3> DEFINE seen == IF request[q].seen = "UNREAD" THEN row[request[q].of]
                       ELSE request[q].seen
               new == [request[q] EXCEPT !.seen = seen,
                                         !.pc = IF seen \in Terminal THEN "done" ELSE "commit"]
    <3>1. request[q].of \in Task
      BY <2>0 DEF TypeOK
    <3>2. seen \in TaskStatus \cup {"UNREAD"}
      BY <2>0, <3>1, <2>3 DEF KillReads, RequestsDecide, Decides, RequestRecord, TypeOK
    <3>3. new \in RequestRecord /\ new.of \in Task
      BY <2>0, <3>1, <3>2 DEF RequestRecord, RequestPC
    <3>4. request' = [request EXCEPT ![q] = new]
      BY <2>3 DEF KillReads
    <3>5. /\ request' \in [Request -> RequestRecord]
          /\ \A p \in Request : request'[p].pc # "idle" => request'[p].of \in Task
      <4> HIDE DEF new
      <4> QED BY <3>3, <3>4 DEF TypeOK
    <3> QED
      BY <2>3, <3>5 DEF KillReads, TypeOK
  <2>4. CASE Commit(q)
    BY <2>0, <2>4 DEF Commit, SetRow, TypeOK, RequestRecord, RequestPC, TaskStatus, Terminal
  <2> QED
    BY <1>5, <2>1, <2>2, <2>3, <2>4 DEF RequestStep
<1>6. CASE Shutdown
  <2>1. /\ run' \in [Run -> RunRecord]
        /\ \A s \in Run : run'[s].pc # "idle" => run'[s].of \in Task
    <3>1. run' = [r \in Run |-> IF Alive(r) THEN [run[r] EXCEPT !.cancelled = TRUE] ELSE run[r]]
      BY <1>6 DEF Shutdown
    <3> QED
      <4>1. \A r \in Run : /\ [run[r] EXCEPT !.cancelled = TRUE] \in RunRecord
                           /\ [run[r] EXCEPT !.cancelled = TRUE].pc = run[r].pc
                           /\ [run[r] EXCEPT !.cancelled = TRUE].of = run[r].of
        BY DEF TypeOK, RunRecord
      <4> QED
        BY <3>1, <4>1 DEF TypeOK
  <2>2. aborted' \in SUBSET Task
    BY <1>6 DEF Shutdown, TypeOK, Alive
  <2> QED
    BY <1>6, <2>1, <2>2 DEF Shutdown, TypeOK, Life
<1>7. CASE Restart
  <2>1. /\ run' \in [Run -> RunRecord]
        /\ \A s \in Run : run'[s].pc # "idle" => run'[s].of \in Task
    BY <1>7 DEF Restart, TypeOK, RunRecord, RunPC, Alive
  <2>2. /\ request' \in [Request -> RequestRecord]
        /\ \A q \in Request : request'[q].pc # "idle" => request'[q].of \in Task
    BY <1>7 DEF Restart, TypeOK, RequestRecord, RequestPC
  <2> QED
    BY <1>7, <2>1, <2>2 DEF Restart, TypeOK, Life, NotVisible
<1>8. CASE QueryStale \/ RecoveryEnds
  BY <1>8, TaskAssumption DEF QueryStale, RecoveryEnds, TypeOK
<1>9. ASSUME NEW t \in Task, NEW r \in Run, Requeue(t, r)
      PROVE  TypeOK'
  BY <1>9 DEF Requeue, Spawn, SetRow, TypeOK, RunRecord, RunPC, Verdict, TaskStatus
<1>10. CASE UNCHANGED vars
  BY <1>10 DEF vars, TypeOK
<1> QED
  BY <1>1, <1>2, <1>3, <1>4, <1>5, <1>6, <1>7, <1>8, <1>9, <1>10 DEF Next, Recover

\* Nothing but these steps changes the runs, the requests and the rows.
LEMMA NextWrites == WritesTerminal /\ TypeOK /\ [Next]_vars => WritesTerminal'
<1> SUFFICES ASSUME WritesTerminal, TypeOK, [Next]_vars
             PROVE  WritesTerminal'
  OBVIOUS
<1> USE DEF memory, WritesTerminal
<1>1. ASSUME NEW t \in Task, NEW r \in Run, Spawn(t, r)
      PROVE  WritesTerminal'
  BY <1>1 DEF Spawn, TypeOK
<1>2. ASSUME NEW r \in Run, RunStep(r)
      PROVE  WritesTerminal'
  <2>1. ASSUME Leave(r) PROVE WritesTerminal'
    BY <2>1 DEF Leave, TypeOK
  <2>2. ASSUME NEW pc, NEW verdict, Go(r, pc, verdict),
               pc = "write" => verdict \in Terminal
        PROVE  WritesTerminal'
    BY <2>2 DEF Go, TypeOK, RunRecord
  <2>3. CASE FindRow(r)
    BY <2>2, <2>3 DEF FindRow
  <2>4. CASE GiveUp(r) \/ WriteRow(r)
    BY <2>1, <2>4 DEF GiveUp, WriteRow
  <2>5. CASE HandlerEnds(r)
    BY <2>2, <2>5 DEF HandlerEnds
  <2>6. CASE ReadRow(r)
    <3>1. run[r].verdict \in Verdict
      BY DEF TypeOK, RunRecord
    <3> QED
      BY <2>1, <2>2, <2>6, <3>1 DEF ReadRow, Verdict, Terminal
  <2>7. CASE Interrupted(r)
    <3>1. CASE Leave(r)
      BY <2>1, <3>1
    <3>2. CASE ~Leave(r)
      <4> DEFINE new == [run[r] EXCEPT !.pc = "read", !.verdict = "KILLED", !.cancelled = FALSE]
      <4>1. run' = [run EXCEPT ![r] = new]
        BY <2>7, <3>2 DEF Interrupted
      <4>2. new.pc # "write"
        BY DEF TypeOK, RunRecord
      <4> QED
        <5> HIDE DEF new
        <5> QED BY <4>1, <4>2 DEF TypeOK
    <3> QED
      BY <3>1, <3>2
  <2> QED
    BY <1>2, <2>3, <2>4, <2>5, <2>6, <2>7 DEF RunStep
<1>3. ASSUME NEW q \in Request, RequestStep(q)
      PROVE  WritesTerminal'
  <2>1. CASE KillTask(q)
    BY <2>1 DEF KillTask, TypeOK, RunRecord
  <2> QED
    BY <1>3, <2>1 DEF RequestStep, CancelTask, KillReads, Commit
<1>4. CASE Shutdown
  BY <1>4 DEF Shutdown, TypeOK
<1>5. CASE Restart
  BY <1>5 DEF Restart, TypeOK
<1>6. CASE UNCHANGED run
  BY <1>6
<1> QED
  <2>1. ASSUME NEW t \in Task, CommitStart(t) \/ RollBackStart(t) \/ CreateOnly(t)
        PROVE  UNCHANGED run
    BY <2>1 DEF CommitStart, RollBackStart, CreateOnly
  <2>2. ASSUME NEW q \in Request, NEW t \in Task, Load(q, t) \/ CallKill(q, t)
        PROVE  UNCHANGED run
    BY <2>2 DEF Load, CallKill, Admit
  <2>3. QueryStale \/ RecoveryEnds => UNCHANGED run
    BY DEF QueryStale, RecoveryEnds
  <2> QED
    BY <1>1, <1>2, <1>3, <1>4, <1>5, <1>6, <2>1, <2>2, <2>3
    DEF Next, Start, Recover, Requeue, vars

LEMMA NextDecide == RequestsDecide /\ TypeOK /\ WritesTerminal /\ [Next]_vars => RequestsDecide'
<1> SUFFICES ASSUME RequestsDecide, TypeOK, WritesTerminal, [Next]_vars
             PROVE  RequestsDecide'
  OBVIOUS
<1> USE DEF memory
\* A visible row stays visible: only the start of a task, not admitted to a
\* request before, leads to a row that is not.
<1>1. ASSUME NEW t \in Task, row[t] \notin NotVisible
      PROVE  row'[t] \notin NotVisible
  <2>1. ASSUME NEW u \in Task, NEW status, SetRow(u, status),
               status \notin NotVisible \/ row[u] \in NotVisible
        PROVE  row'[t] \notin NotVisible
    BY <1>1, <2>1 DEF SetRow, TypeOK
  <2>2. ASSUME NEW u \in Task, NEW r \in Run, Start(u, r)
        PROVE  row'[t] \notin NotVisible
    BY <2>1, <2>2 DEF Start, NotVisible
  <2>3. ASSUME NEW u \in Task, CommitStart(u) \/ RollBackStart(u) \/ CreateOnly(u)
        PROVE  row'[t] \notin NotVisible
    BY <2>1, <2>3 DEF CommitStart, RollBackStart, CreateOnly, NotVisible
  <2>4. ASSUME NEW r \in Run, RunStep(r)
        PROVE  row'[t] \notin NotVisible
    <3>1. run[r].pc # "idle" => run[r].of \in Task
      BY DEF TypeOK
    <3>2. run[r].pc = "write" => run[r].verdict \notin NotVisible
      BY DEF WritesTerminal, Terminal, NotVisible
    <3> QED
      BY <1>1, <2>1, <2>4, <3>1, <3>2
      DEF RunStep, FindRow, GiveUp, HandlerEnds, ReadRow, WriteRow, Interrupted, At
  <2>5. ASSUME NEW q \in Request, RequestStep(q)
        PROVE  row'[t] \notin NotVisible
    <3>1. request[q].pc # "idle" => request[q].of \in Task
      BY DEF TypeOK
    <3> QED
      BY <1>1, <2>1, <2>5, <3>1
      DEF RequestStep, CancelTask, KillTask, KillReads, Commit, NotVisible
  <2>6. ASSUME NEW u \in Task, NEW r \in Run, Requeue(u, r)
        PROVE  row'[t] \notin NotVisible
    BY <2>1, <2>6 DEF Requeue, NotVisible
  <2>7. CASE Restart
    BY <1>1, <2>7 DEF Restart, NotVisible, TypeOK
  <2>8. CASE UNCHANGED row
    BY <1>1, <2>8
  <2>9. ASSUME NEW q \in Request, NEW u \in Task, Load(q, u) \/ CallKill(q, u)
        PROVE  UNCHANGED row
    BY <2>9 DEF Load, CallKill, Admit
  <2>10. Shutdown \/ QueryStale \/ RecoveryEnds => UNCHANGED row
    BY DEF Shutdown, QueryStale, RecoveryEnds
  <2> QED
    BY <2>2, <2>3, <2>4, <2>5, <2>6, <2>7, <2>8, <2>9, <2>10 DEF Next, Recover, vars
\* A request that does not move keeps what it has.
<1>2. ASSUME NEW p \in Request, request'[p] = request[p]
      PROVE  Decides(p)'
  BY <1>1, <1>2 DEF RequestsDecide, Decides, TypeOK
<1>3. ASSUME NEW q \in Request, NEW new, request' = [request EXCEPT ![q] = new],
             new.pc \in {"act", "get", "commit"} =>
               /\ row'[new.of] \notin NotVisible
               /\ new.seen \notin Terminal
               /\ new.pc = "commit" => new.seen # "UNREAD"
               /\ new.seen = "UNREAD" => new.kind = "direct"
               /\ new.kind = "cancel" => new.pc # "get"
               /\ new.kind = "flip" => new.pc = "commit"
      PROVE  RequestsDecide'
  <2>1. Decides(q)'
    BY <1>3 DEF Decides, TypeOK
  <2>2. ASSUME NEW p \in Request, p # q
        PROVE  Decides(p)'
    BY <1>2, <1>3, <2>2 DEF TypeOK
  <2> QED
    BY <2>1, <2>2 DEF RequestsDecide
<1>4. ASSUME NEW q \in Request, NEW t \in Task, Load(q, t) \/ CallKill(q, t)
      PROVE  RequestsDecide'
  <2>1. ASSUME NEW kind, NEW seen, NEW pc, Admit(q, t, kind, seen, pc),
               seen \notin Terminal, pc # "get",
               pc = "commit" => seen # "UNREAD",
               seen = "UNREAD" => kind = "direct",
               kind = "flip" => pc = "commit"
        PROVE  RequestsDecide'
    BY <1>1, <1>3, <2>1 DEF Admit
  <2>2. "UNREAD" \notin Terminal /\ row[t] # "UNREAD"
    BY DEF Terminal, TypeOK, TaskStatus, NotVisible
  <2> QED
    BY <1>4, <2>1, <2>2 DEF Load, CallKill
<1>5. ASSUME NEW q \in Request, RequestStep(q)
      PROVE  RequestsDecide'
  <2>0. /\ request[q] \in RequestRecord
        /\ Decides(q)
        /\ row'[request[q].of] \notin NotVisible
        /\ request[q].of \in Task
    BY <1>1, <1>5 DEF RequestStep, CancelTask, KillTask, KillReads, Commit, TypeOK,
       RequestsDecide, Decides
  <2>1. CASE CancelTask(q)
    <3> DEFINE new == [request[q] EXCEPT !.pc = "commit"]
    <3>1. request' = [request EXCEPT ![q] = new]
      BY <2>1 DEF CancelTask
    <3>2. /\ new.pc = "commit" /\ new.of = request[q].of /\ new.seen = request[q].seen
          /\ new.kind = "cancel"
      BY <2>0, <2>1 DEF CancelTask, RequestRecord
    <3> QED
      <4> HIDE DEF new
      <4> QED BY <1>3, <2>0, <2>1, <3>1, <3>2 DEF Decides, CancelTask
  <2>2. CASE KillTask(q)
    <3> DEFINE new == [request[q] EXCEPT !.pc = "get", !.waits = running[request[q].of]]
    <3>1. request' = [request EXCEPT ![q] = new]
      BY <2>2 DEF KillTask
    <3>2. /\ new.pc = "get" /\ new.of = request[q].of /\ new.seen = request[q].seen
          /\ new.kind = request[q].kind /\ new.kind \notin {"cancel", "flip"}
      BY <2>0, <2>2 DEF KillTask, RequestRecord
    <3> QED
      <4> HIDE DEF new
      <4> QED BY <1>3, <2>0, <2>2, <3>1, <3>2 DEF Decides, KillTask
  <2>3. CASE KillReads(q)
    <3> DEFINE seen == IF request[q].seen = "UNREAD" THEN row[request[q].of]
                       ELSE request[q].seen
               new == [request[q] EXCEPT !.seen = seen,
                                         !.pc = IF seen \in Terminal THEN "done" ELSE "commit"]
    <3>1. request' = [request EXCEPT ![q] = new]
      BY <2>3 DEF KillReads
    <3>2. seen # "UNREAD"
      BY <2>0 DEF TypeOK, TaskStatus, Terminal, NotVisible
    <3>3. /\ new.pc = IF seen \in Terminal THEN "done" ELSE "commit"
          /\ new.of = request[q].of /\ new.seen = seen
      BY <2>0 DEF RequestRecord
    <3> QED
      <4> HIDE DEF new, seen
      <4> QED BY <1>3, <2>0, <3>1, <3>2, <3>3
  <2>4. CASE Commit(q)
    <3> DEFINE new == [request[q] EXCEPT !.pc = "done"]
    <3>1. request' = [request EXCEPT ![q] = new]
      BY <2>4 DEF Commit
    <3>2. new.pc = "done"
      BY <2>0 DEF RequestRecord
    <3> QED
      <4> HIDE DEF new
      <4> QED BY <1>3, <3>1, <3>2
  <2> QED
    BY <1>5, <2>1, <2>2, <2>3, <2>4 DEF RequestStep
<1>6. CASE UNCHANGED request
  BY <1>2, <1>6 DEF RequestsDecide
<1>7. CASE Restart
  <2>1. \A p \in Request : request'[p].pc \in {"idle", "done"}
    BY <1>7 DEF Restart, TypeOK, RequestRecord
  <2> QED
    BY <2>1 DEF RequestsDecide, Decides
<1> QED
  <2>1. ASSUME NEW t \in Task, CommitStart(t) \/ RollBackStart(t) \/ CreateOnly(t)
        PROVE  UNCHANGED request
    BY <2>1 DEF CommitStart, RollBackStart, CreateOnly
  <2>2. ASSUME NEW r \in Run, RunStep(r)
        PROVE  UNCHANGED request
    BY <2>2 DEF RunStep, FindRow, GiveUp, HandlerEnds, ReadRow, WriteRow, Interrupted
  <2>3. Shutdown \/ Recover => UNCHANGED request
    BY DEF Shutdown, Recover, QueryStale, RecoveryEnds, Requeue
  <2> QED
    BY <1>4, <1>5, <1>6, <1>7, <2>1, <2>2, <2>3 DEF Next, Start, vars

\* The variables keep their types: a run writes a terminal status, and a
\* request goes by a status the task can have (task_manager.py, all of it).
THEOREM TypeCorrect == Spec => []TypeOK
<1> DEFINE Typed == TypeOK /\ WritesTerminal /\ RequestsDecide
<1>1. Init => Typed
  BY InitType DEF Init, WritesTerminal, RequestsDecide, Decides, IdleRun, IdleRequest
<1>2. Typed /\ [Next]_vars => Typed'
  BY NextType, NextWrites, NextDecide
<1>3. Typed => TypeOK
  OBVIOUS
<1> QED
  BY <1>1, <1>2, <1>3, PTL DEF Spec

-----------------------------------------------------------------------------
(***************************************************************************)
(* What the steps of a run and of a request can do to the others.          *)
(***************************************************************************)

LEMMA RunEffect ==
    ASSUME TypeOK, WritesTerminal, NEW r \in Run, RunStep(r)
    PROVE  /\ Alive(r)
           /\ \A s \in Run : s # r => run'[s] = run[s]
           /\ run'[r].of = run[r].of /\ run'[r].pc # "idle"
           /\ run'[r].pc # "done" => ~run'[r].cancelled
           /\ running' = IF run'[r].pc = "done" THEN [running EXCEPT ![run[r].of] = NoRun]
                         ELSE running
           /\ run'[r].pc = "done" => \/ row'[run[r].of] \in Terminal \cup {"GONE"}
                                     \/ run[r].cancelled
                                     \/ SlowCommit
           /\ run[r].pc = "poll" => \/ row[run[r].of] # "OPEN"
                                    \/ run[r].cancelled
                                    \/ SlowCommit
           /\ \A t \in Task : row'[t] = row[t] \/ row'[t] \in Terminal
           /\ UNCHANGED <<request, recovery, life>>
<1> USE DEF memory
<1>0. /\ run \in [Run -> RunRecord] /\ run[r] \in RunRecord /\ run[r].of \in Task
      /\ row \in [Task -> TaskStatus \cup NotVisible] /\ running \in [Task -> Run \cup {NoRun}]
      /\ Alive(r)
  BY DEF RunStep, FindRow, GiveUp, HandlerEnds, ReadRow, WriteRow, Interrupted, At, Alive, TypeOK
<1>1. ASSUME NEW pc, NEW verdict, Go(r, pc, verdict)
      PROVE  /\ \A s \in Run : s # r => run'[s] = run[s]
             /\ run'[r].of = run[r].of /\ run'[r].pc = pc
             /\ run'[r].cancelled = run[r].cancelled
  <2> DEFINE new == [run[r] EXCEPT !.pc = pc, !.verdict = verdict]
  <2>1. run' = [run EXCEPT ![r] = new]
    BY <1>1 DEF Go
  <2>2. new.of = run[r].of /\ new.pc = pc /\ new.cancelled = run[r].cancelled
    BY <1>0 DEF RunRecord
  <2> HIDE DEF new
  <2> QED
    BY <1>0, <2>1, <2>2
<1>2. ASSUME Leave(r)
      PROVE  /\ \A s \in Run : s # r => run'[s] = run[s]
             /\ run'[r].of = run[r].of /\ run'[r].pc = "done"
             /\ running' = [running EXCEPT ![run[r].of] = NoRun]
  BY <1>0, <1>2 DEF Leave, RunRecord
<1>3. CASE FindRow(r)
  <2>1. Go(r, "handler", "RETURNED") /\ ~run[r].cancelled
    BY <1>3 DEF FindRow, At
  <2> QED
    BY <1>0, <1>1, <1>3, <2>1 DEF FindRow, At, NotVisible
<1>4. CASE GiveUp(r)
  BY <1>0, <1>2, <1>4 DEF GiveUp, At
<1>5. CASE HandlerEnds(r)
  BY <1>0, <1>1, <1>5 DEF HandlerEnds, At
<1>6. CASE ReadRow(r)
  BY <1>0, <1>1, <1>2, <1>6 DEF ReadRow, At
<1>7. CASE WriteRow(r)
  <2>1. run[r].verdict \in Terminal
    BY <1>7 DEF WriteRow, At, WritesTerminal
  <2> QED
    BY <1>0, <1>2, <1>7, <2>1 DEF WriteRow, At, SetRow
<1>8. CASE Interrupted(r)
  <2>1. run[r].pc = "write" => run[r].verdict \in Terminal
    BY DEF WritesTerminal
  <2>2. \A t \in Task : row'[t] = row[t] \/ row'[t] \in Terminal
    BY <1>0, <1>8, <2>1 DEF Interrupted, SetRow
  <2>3. CASE Leave(r)
    BY <1>0, <1>2, <1>8, <2>2, <2>3 DEF Interrupted
  <2>4. CASE ~Leave(r)
    <3> DEFINE new == [run[r] EXCEPT !.pc = "read", !.verdict = "KILLED", !.cancelled = FALSE]
    <3>1. run' = [run EXCEPT ![r] = new] /\ running' = running
      BY <1>8, <2>4 DEF Interrupted
    <3>2. new.pc = "read" /\ new.of = run[r].of /\ ~new.cancelled
      BY <1>0 DEF RunRecord
    <3> HIDE DEF new
    <3> QED
      BY <1>0, <1>8, <2>2, <3>1, <3>2 DEF Interrupted
  <2> QED
    BY <2>3, <2>4
<1> QED
  BY <1>3, <1>4, <1>5, <1>6, <1>7, <1>8 DEF RunStep

LEMMA RequestEffect ==
    ASSUME TypeOK, RequestsDecide, NEW q \in Request, RequestStep(q)
    PROVE  /\ request[q].pc \in {"act", "get", "commit"}
           /\ \A p \in Request : p # q => request'[p] = request[p]
           /\ request'[q].of = request[q].of /\ request'[q].kind = request[q].kind
           /\ request'[q].pc = "get" => /\ request[q].pc = "act"
                                        /\ request[q].kind \in {"kill", "direct"}
                                        /\ request'[q].waits = running[request[q].of]
           /\ request[q].pc = "get" => \/ request[q].waits = NoRun
                                       \/ run[request[q].waits].pc = "done"
           /\ request'[q].pc \in {"act", "get", "commit", "done"}
           /\ request'[q].pc # "act"
           /\ request'[q].pc = "done" => row'[request[q].of] \in Terminal
           /\ request[q].pc = "commit" => request'[q].pc = "done"
           /\ \A r \in Run : /\ run'[r].pc = run[r].pc
                             /\ run'[r].of = run[r].of
                             /\ run'[r] = run[r] \/ /\ r = running[request[q].of]
                                                    /\ request'[q].pc = "get"
           /\ \A t \in Task : row'[t] = row[t] \/ row'[t] \in Terminal
           /\ UNCHANGED <<running, recovery, life>>
<1> USE DEF memory
<1>0. /\ request \in [Request -> RequestRecord] /\ request[q] \in RequestRecord
      /\ request[q].of \in Task /\ Decides(q)
      /\ row \in [Task -> TaskStatus \cup NotVisible] /\ running \in [Task -> Run \cup {NoRun}]
      /\ run \in [Run -> RunRecord]
  BY DEF RequestStep, CancelTask, KillTask, KillReads, Commit, TypeOK, RequestsDecide
<1>1. CASE CancelTask(q)
  BY <1>0, <1>1 DEF CancelTask, RequestRecord, Commit
<1>2. CASE KillTask(q)
  <2> DEFINE victim == running[request[q].of]
             new == [request[q] EXCEPT !.pc = "get", !.waits = victim]
  <2>1. /\ request[q].pc = "act" /\ IsKill(q) /\ request' = [request EXCEPT ![q] = new]
        /\ UNCHANGED <<row, running, recovery, life>>
    BY <1>2 DEF KillTask, IsKill
  <2>2. new.pc = "get" /\ new.of = request[q].of /\ new.kind = request[q].kind /\ new.waits = victim
    BY <1>0 DEF RequestRecord
  <2>3. \A r \in Run : /\ run'[r].pc = run[r].pc
                       /\ run'[r].of = run[r].of
                       /\ run'[r] = run[r] \/ r = victim
    <3>1. CASE victim = NoRun
      BY <1>2, <3>1 DEF KillTask
    <3>2. CASE victim # NoRun
      <4>1. run' = [run EXCEPT ![victim].cancelled = TRUE] /\ victim \in Run
        BY <1>0, <1>2, <3>2 DEF KillTask
      <4> HIDE DEF victim
      <4> QED
        BY <1>0, <4>1 DEF RunRecord
    <3> QED
      BY <3>1, <3>2
  <2>4. \A r \in Run : /\ run'[r].pc = run[r].pc
                       /\ run'[r].of = run[r].of
                       /\ run'[r] = run[r] \/ (r = victim /\ request'[q].pc = "get")
    <3> HIDE DEF new
    <3> QED BY <1>0, <2>1, <2>2, <2>3
  <2>5. /\ request'[q].pc = "get" /\ request'[q].of = request[q].of
        /\ request'[q].kind = request[q].kind
        /\ request'[q].waits = running[request[q].of]
        /\ \A p \in Request : p # q => request'[p] = request[p]
    <3> HIDE DEF new
    <3> QED BY <1>0, <2>1, <2>2
  <2>6. request[q].pc = "act" /\ request[q].kind \in {"kill", "direct"}
    BY <2>1 DEF IsKill
  <2>7. UNCHANGED <<row, running, recovery, life>>
    BY <2>1
  <2> HIDE DEF new
  <2> QED
    <3>1. /\ request[q].pc \in {"act", "get", "commit"}
          /\ request'[q].pc \in {"act", "get", "commit", "done"}
          /\ ~(request[q].pc = "get") /\ ~(request[q].pc = "commit")
          /\ request'[q].pc # "act" /\ ~(request'[q].pc = "done")
      BY <2>5, <2>6
    <3> QED
      BY <2>4, <2>5, <2>6, <2>7, <3>1
<1>3. CASE KillReads(q)
  <2> DEFINE seen == IF request[q].seen = "UNREAD" THEN row[request[q].of] ELSE request[q].seen
             new == [request[q] EXCEPT !.seen = seen,
                                       !.pc = IF seen \in Terminal THEN "done" ELSE "commit"]
  <2>1. /\ request[q].pc = "get" /\ request' = [request EXCEPT ![q] = new]
        /\ request[q].waits = NoRun \/ run[request[q].waits].pc = "done"
        /\ UNCHANGED <<row, run, running, recovery, life>>
    BY <1>3 DEF KillReads
  <2>2. /\ new.pc = IF seen \in Terminal THEN "done" ELSE "commit"
        /\ new.of = request[q].of /\ new.kind = request[q].kind
    BY <1>0 DEF RequestRecord
  <2>3. seen \in Terminal => row[request[q].of] \in Terminal
    BY <1>0, <2>1 DEF Decides
  <2> HIDE DEF new, seen
  <2> QED
    BY <1>0, <2>1, <2>2, <2>3 DEF Commit
<1>4. CASE Commit(q)
  BY <1>0, <1>4 DEF Commit, SetRow, RequestRecord, Terminal
<1> QED
  BY <1>1, <1>2, <1>3, <1>4 DEF RequestStep

LEMMA SpawnEffect ==
    ASSUME TypeOK, NEW t \in Task, NEW r \in Run, Spawn(t, r)
    PROVE  /\ run[r].pc = "idle"
           /\ run'[r].pc = "poll" /\ run'[r].of = t /\ ~run'[r].cancelled
           /\ \A s \in Run : s # r => run'[s] = run[s]
           /\ running' = [running EXCEPT ![t] = r]
BY DEF Spawn, TypeOK

\* Steps that leave the coroutines alone.
LEMMA QuietSteps ==
    /\ \A t \in Task : CommitStart(t) \/ RollBackStart(t) \/ CreateOnly(t) =>
          UNCHANGED <<run, running, request, recovery, life>>
    /\ \A q \in Request, t \in Task : Load(q, t) \/ CallKill(q, t) =>
          UNCHANGED <<row, run, running, recovery, life>>
    /\ QueryStale \/ RecoveryEnds => UNCHANGED <<row, run, running, request, life>>
BY DEF CommitStart, RollBackStart, CreateOnly, Load, CallKill, Admit, QueryStale, RecoveryEnds,
   memory

LEMMA ProcessEffect ==
    ASSUME TypeOK
    PROVE  /\ Shutdown => /\ \A r \in Run : run'[r].pc = run[r].pc /\ run'[r].of = run[r].of
                          /\ life = "first" /\ life' = "stopping"
                          /\ UNCHANGED <<row, running, request, recovery>>
           /\ Restart => /\ \A r \in Run : run'[r].pc \in {"idle", "done"}
                         /\ \A q \in Request : request'[q].pc \in {"idle", "done"}
                         /\ \A t \in Task : /\ row'[t] # "OPEN" /\ running'[t] = NoRun
                                            /\ row'[t] = row[t] \/ row'[t] = "GONE"
                         /\ recovery' = [pc |-> "query", todo |-> {}] /\ life' = "second"
<1>1. ASSUME Shutdown, NEW r \in Run
      PROVE  run'[r].pc = run[r].pc /\ run'[r].of = run[r].of
  BY <1>1 DEF Shutdown, TypeOK, RunRecord
<1>2. ASSUME Restart
      PROVE  /\ \A r \in Run : run'[r].pc \in {"idle", "done"}
             /\ \A q \in Request : request'[q].pc \in {"idle", "done"}
  BY <1>2 DEF Restart, TypeOK, RunRecord, RequestRecord, RunPC, RequestPC, Alive
<1> QED
  BY <1>1, <1>2 DEF Shutdown, Restart, TypeOK

LEMMA AdmitEffect ==
    ASSUME TypeOK, NEW q \in Request, NEW t \in Task, Load(q, t) \/ CallKill(q, t)
    PROVE  /\ request[q].pc = "idle"
           /\ request'[q].pc \in {"act", "commit"} /\ request'[q].of = t
           /\ request'[q].pc = "commit" => request'[q].kind = "flip"
           /\ \A p \in Request : p # q => request'[p] = request[p]
BY DEF Load, CallKill, Admit, TypeOK

-----------------------------------------------------------------------------
(***************************************************************************)
(* The inductive steps.                                                    *)
(***************************************************************************)

LEMMA NextRunning == TypeOK /\ WritesTerminal /\ RequestsDecide /\ RunningAgrees /\ [Next]_vars
                     => RunningAgrees'
<1> SUFFICES ASSUME TypeOK, WritesTerminal, RequestsDecide, RunningAgrees, [Next]_vars
             PROVE  RunningAgrees'
  OBVIOUS
<1>0. running \in [Task -> Run \cup {NoRun}]
  BY DEF TypeOK
<1>1. ASSUME NEW t \in Task, NEW r \in Run, Spawn(t, r)
      PROVE  RunningAgrees'
  BY <1>0, <1>1, SpawnEffect, TaskAssumption DEF RunningAgrees
<1>2. ASSUME NEW r \in Run, RunStep(r)
      PROVE  RunningAgrees'
  BY <1>0, <1>2, RunEffect DEF RunningAgrees
<1>3. ASSUME NEW q \in Request, RequestStep(q)
      PROVE  RunningAgrees'
  <2>1. running' = running /\ \A r \in Run : run'[r].pc = run[r].pc /\ run'[r].of = run[r].of
    BY <1>3, RequestEffect
  <2> QED
    BY <1>0, <2>1 DEF RunningAgrees
<1>4. CASE Shutdown \/ Restart
  BY <1>0, <1>4, ProcessEffect DEF RunningAgrees
<1>5. CASE UNCHANGED <<run, running>>
  BY <1>5 DEF RunningAgrees
<1> QED
  BY <1>1, <1>2, <1>3, <1>4, <1>5, QuietSteps DEF Next, Start, Recover, Requeue, vars, memory

LEMMA NextAwaited == TypeOK /\ WritesTerminal /\ RequestsDecide /\ RunningAgrees
                     /\ CancelledIsAwaited /\ [Next]_vars => CancelledIsAwaited'
<1> SUFFICES ASSUME TypeOK, WritesTerminal, RequestsDecide, RunningAgrees, CancelledIsAwaited,
                    [Next]_vars, NEW r \in Run, (Alive(r) /\ run[r].cancelled)',
                    life' # "stopping"
             PROVE  IsAwaited(r)'
  BY DEF CancelledIsAwaited
<1> USE DEF Alive, IsKill, IsAwaited
\* A run that was cancelled before keeps the kill that awaits it.
<1>1. ASSUME Alive(r), run[r].cancelled, run'[r].of = run[r].of, life # "stopping",
             \A q \in Request : request[q].pc = "get" /\ request[q].waits = r =>
                 request'[q] = request[q]
      PROVE  IsAwaited(r)'
  BY <1>1 DEF CancelledIsAwaited
<1>2. ASSUME NEW t \in Task, NEW s \in Run, Spawn(t, s), UNCHANGED <<request, life>>
      PROVE  IsAwaited(r)'
  BY <1>1, <1>2, SpawnEffect
<1>3. ASSUME NEW s \in Run, RunStep(s)
      PROVE  IsAwaited(r)'
  BY <1>1, <1>3, RunEffect
<1>4. ASSUME NEW p \in Request, RequestStep(p)
      PROVE  IsAwaited(r)'
  <2>0. /\ \A q \in Request : q # p => request'[q] = request[q]
        /\ request[p].pc = "get" => \/ request[p].waits = NoRun
                                    \/ run[request[p].waits].pc = "done"
        /\ run'[r].pc = run[r].pc /\ run'[r].of = run[r].of
        /\ run'[r] = run[r] \/ (r = running[request[p].of] /\ request'[p].pc = "get")
        /\ request'[p].pc = "get" => /\ request[p].kind \in {"kill", "direct"}
                                     /\ request'[p].waits = running[request[p].of]
        /\ request'[p].of = request[p].of /\ request'[p].kind = request[p].kind
        /\ request[p].pc \in {"act", "get", "commit"} /\ UNCHANGED life
    BY <1>4, RequestEffect
  <2>1. CASE run[r].cancelled
    <3>1. request[p].pc = "get" => request[p].waits # r
      BY <2>0, TaskAssumption
    <3> QED
      BY <1>1, <2>0, <2>1, <3>1
  <2>2. CASE ~run[r].cancelled
    <3>1. r = running[request[p].of] /\ request'[p].pc = "get"
      BY <2>0, <2>2
    <3>2. request[p].of \in Task
      BY <2>0 DEF TypeOK
    <3>3. run[r].of = request[p].of
      BY <3>1, <3>2, TaskAssumption DEF RunningAgrees
    <3> QED
      BY <2>0, <3>1, <3>3
  <2> QED
    BY <2>1, <2>2
<1>5. ASSUME NEW p \in Request, NEW t \in Task, Load(p, t) \/ CallKill(p, t)
      PROVE  IsAwaited(r)'
  BY <1>1, <1>5, AdmitEffect, QuietSteps
<1>6. ~Shutdown /\ ~Restart
  BY ProcessEffect
<1>7. UNCHANGED <<run, request, life>> => IsAwaited(r)'
  BY <1>1
<1> QED
  BY <1>2, <1>3, <1>4, <1>5, <1>6, <1>7, QuietSteps
  DEF Next, Start, Recover, Requeue, vars, memory

LEMMA NextOpen == TypeOK /\ WritesTerminal /\ RequestsDecide /\ RunningAgrees /\ OpenIsPolled
                  /\ ~SlowCommit /\ [Next]_vars => OpenIsPolled'
<1> SUFFICES ASSUME TypeOK, WritesTerminal, RequestsDecide, RunningAgrees, OpenIsPolled,
                    ~SlowCommit, [Next]_vars, NEW t \in Task, row'[t] = "OPEN"
             PROVE  Polled(t)'
  BY DEF OpenIsPolled
<1> USE DEF memory
\* A row that was open keeps the run that waits for it.
<1>1. ASSUME row[t] = "OPEN", \A r \in Run : run[r].pc = "poll" /\ run[r].of = t
                                            /\ ~run[r].cancelled => run'[r] = run[r]
      PROVE  Polled(t)'
  BY <1>1 DEF OpenIsPolled, Polled
<1>2. ASSUME NEW u \in Task, NEW r \in Run, Start(u, r)
      PROVE  Polled(t)'
  <2>1. Spawn(u, r) /\ SetRow(u, "OPEN")
    BY <1>2 DEF Start
  <2>2. CASE u = t
    BY <2>1, <2>2, SpawnEffect DEF Polled
  <2>3. CASE u # t
    <3>1. row[t] = "OPEN"
      BY <2>1, <2>3 DEF SetRow, TypeOK
    <3> QED
      BY <1>1, <2>1, <3>1, SpawnEffect
  <2> QED
    BY <2>2, <2>3
<1>3. ASSUME NEW u \in Task, NEW r \in Run, Requeue(u, r)
      PROVE  Polled(t)'
  <2>1. Spawn(u, r) /\ SetRow(u, "RUNNING")
    BY <1>3 DEF Requeue
  <2>2. row[t] = "OPEN"
    BY <2>1 DEF SetRow, TypeOK
  <2> QED
    BY <1>1, <2>1, <2>2, SpawnEffect
<1>4. ASSUME NEW r \in Run, RunStep(r)
      PROVE  Polled(t)'
  <2>1. row[t] = "OPEN"
    BY <1>4, RunEffect DEF Terminal
  <2> QED
    BY <1>1, <1>4, <2>1, RunEffect
<1>5. ASSUME NEW q \in Request, RequestStep(q)
      PROVE  Polled(t)'
  <2>1. /\ row[t] = "OPEN"
        /\ request[q].of \in Task /\ row[request[q].of] \notin NotVisible
    BY <1>5, RequestEffect DEF TypeOK, Terminal, RequestsDecide, Decides
  <2>2. \A r \in Run : run'[r] = run[r] \/ r = running[request[q].of]
    BY <1>5, RequestEffect
  <2>3. running[request[q].of] \in Run => run[running[request[q].of]].of # t
    BY <2>1, TaskAssumption DEF RunningAgrees, NotVisible
  <2> QED
    BY <1>1, <2>1, <2>2, <2>3
<1>6. ASSUME NEW u \in Task, CommitStart(u) \/ RollBackStart(u) \/ CreateOnly(u)
      PROVE  Polled(t)'
  <2>1. row[t] = "OPEN"
    BY <1>6 DEF CommitStart, RollBackStart, CreateOnly, SetRow, TypeOK
  <2> QED
    BY <1>1, <1>6, <2>1, QuietSteps
<1>7. ~Shutdown /\ ~Restart
  <2>1. ~Shutdown
    BY DEF Shutdown
  <2> QED
    BY <2>1, ProcessEffect
<1>8. UNCHANGED <<row, run>> => Polled(t)'
  BY <1>1
<1> QED
  BY <1>2, <1>3, <1>4, <1>5, <1>6, <1>7, <1>8, QuietSteps DEF Next, Recover, vars

LEMMA NextRecovery == TypeOK /\ WritesTerminal /\ RequestsDecide /\ RecoveryAfterRestart
                      /\ [Next]_vars => RecoveryAfterRestart'
<1> SUFFICES ASSUME TypeOK, WritesTerminal, RequestsDecide, RecoveryAfterRestart, [Next]_vars
             PROVE  RecoveryAfterRestart'
  OBVIOUS
<1> USE DEF RecoveryAfterRestart, memory
<1>1. ASSUME NEW r \in Run, RunStep(r)
      PROVE  UNCHANGED <<recovery, life>>
  BY <1>1, RunEffect
<1>2. ASSUME NEW q \in Request, RequestStep(q)
      PROVE  UNCHANGED <<recovery, life>>
  BY <1>2, RequestEffect
<1>3. CASE Shutdown \/ Restart
  BY <1>3, ProcessEffect
<1>4. CASE Recover
  BY <1>4 DEF Recover, QueryStale, Requeue, RecoveryEnds, TypeOK
<1> QED
  BY <1>1, <1>2, <1>3, <1>4, QuietSteps DEF Next, Start, vars

LEMMA NextAttended == Inv /\ ~SlowCommit /\ [Next]_vars => RunningIsAttended'
<1> SUFFICES ASSUME Inv, ~SlowCommit, [Next]_vars, NEW t \in Task, row'[t] = "RUNNING"
             PROVE  Attended(t)'
  BY DEF RunningIsAttended, Attended
<1> USE DEF memory
<1>0. /\ TypeOK /\ WritesTerminal /\ RequestsDecide /\ RunningAgrees /\ CancelledIsAwaited
      /\ OpenIsPolled /\ RecoveryAfterRestart /\ RunningIsAttended
  BY DEF Inv
\* Whoever attended to the task still does, unless a step took them away.
<1>1. ASSUME row[t] = "RUNNING",
             \A r \in Run : Alive(r) /\ run[r].of = t => Attended(t)',
             \A q \in Request : AtWork(q, t) /\ IsKill(q) => Attended(t)',
             recovery.pc = "query" \/ t \in recovery.todo => Attended(t)',
             life = "stopping" => Attended(t)',
             life = "second" => life' = "second"
      PROVE  Attended(t)'
  BY <1>0, <1>1 DEF RunningIsAttended, Attended, RunsOf, IsKill
<1>2. ASSUME NEW r \in Run, Alive(r)', run'[r].of = t
      PROVE  Attended(t)'
  BY <1>2 DEF Attended, RunsOf
<1>3. ASSUME NEW q \in Request, AtWork(q, t)', IsKill(q)'
      PROVE  Attended(t)'
  BY <1>3 DEF Attended, IsKill
<1>4. ASSUME \/ recovery'.pc = "query" \/ t \in recovery'.todo
             \/ life' = "stopping"
             \/ life' = "second" /\ t \notin Durable
      PROVE  Attended(t)'
  BY <1>4 DEF Attended
<1>5. ASSUME NEW u \in Task, NEW r \in Run, Spawn(u, r), SetRow(u, row'[u]),
             UNCHANGED <<request, life>>,
             recovery' = recovery \/ recovery' = [recovery EXCEPT !.todo = @ \ {u}]
      PROVE  Attended(t)'
  <2>1. CASE u = t
    BY <1>0, <1>2, <1>5, <2>1, SpawnEffect DEF Alive
  <2>2. CASE u # t
    <3>1. row[t] = "RUNNING"
      BY <1>0, <1>5, <2>2 DEF SetRow, TypeOK
    <3>2. \A s \in Run : Alive(s) /\ run[s].of = t => Attended(t)'
      BY <1>0, <1>2, <1>5, SpawnEffect DEF Alive
    <3>3. \A q \in Request : AtWork(q, t) /\ IsKill(q) => Attended(t)'
      BY <1>3, <1>5 DEF AtWork, IsKill
    <3>4. recovery.pc = "query" \/ t \in recovery.todo => Attended(t)'
      BY <1>0, <1>4, <1>5, <2>2 DEF TypeOK
    <3> QED
      BY <1>1, <1>4, <1>5, <3>1, <3>2, <3>3, <3>4
  <2> QED
    BY <2>1, <2>2
<1>6. ASSUME NEW r \in Run, RunStep(r)
      PROVE  Attended(t)'
  <2>1. row[t] = "RUNNING" /\ UNCHANGED <<request, recovery, life>>
    BY <1>0, <1>6, RunEffect DEF Terminal
  <2>2. ASSUME NEW s \in Run, Alive(s), run[s].of = t
        PROVE  Attended(t)'
    <3>1. CASE s # r \/ run'[r].pc # "done"
      <4>1. run'[s].of = t /\ run'[s].pc \notin {"idle", "done"}
        BY <1>0, <1>6, <2>2, <3>1, RunEffect DEF Alive
      <4>2. Alive(s)'
        BY <1>0, <1>6, <4>1, NextType DEF Alive, TypeOK, RunRecord, RunPC
      <4> QED
        BY <1>2, <4>1, <4>2
    <3>2. CASE s = r /\ run'[r].pc = "done"
      <4>1. run[r].cancelled
        BY <1>0, <1>6, <2>2, <3>2, RunEffect DEF Terminal
      <4>2. CASE life = "stopping"
        BY <1>4, <2>1, <4>2
      <4>3. CASE life # "stopping"
        <5>1. PICK q \in Request : /\ request[q].pc = "get"
                                   /\ request[q].of = run[r].of
                                   /\ IsKill(q)
          BY <1>0, <2>2, <3>2, <4>1, <4>3 DEF CancelledIsAwaited, IsAwaited
        <5> QED
          BY <1>3, <2>1, <2>2, <3>2, <5>1 DEF AtWork, IsKill
      <4> QED
        BY <4>2, <4>3
    <3> QED
      BY <3>1, <3>2
  <2>3. \A q \in Request : AtWork(q, t) /\ IsKill(q) => Attended(t)'
    BY <1>3, <2>1 DEF AtWork, IsKill
  <2> QED
    BY <1>1, <1>4, <2>1, <2>2, <2>3
<1>7. ASSUME NEW q \in Request, RequestStep(q)
      PROVE  Attended(t)'
  <2>1. row[t] = "RUNNING" /\ UNCHANGED <<recovery, life>>
    BY <1>0, <1>7, RequestEffect DEF Terminal
  <2>2. \A r \in Run : Alive(r) /\ run[r].of = t => Attended(t)'
    BY <1>0, <1>2, <1>7, RequestEffect DEF Alive
  <2>3. ASSUME NEW p \in Request, AtWork(p, t), IsKill(p)
        PROVE  Attended(t)'
    <3>1. CASE p # q
      <4>1. request'[p] = request[p]
        BY <1>0, <1>7, <3>1, RequestEffect
      <4> QED
        BY <1>3, <2>3, <4>1 DEF AtWork, IsKill
    <3>2. CASE p = q
      <4>1. /\ request'[q].pc \in {"act", "get", "commit"}
            /\ request'[q].of = t /\ request'[q].kind = request[q].kind
        BY <1>0, <1>7, <2>3, <3>2, RequestEffect DEF AtWork, Terminal
      <4> QED
        BY <1>3, <2>3, <3>2, <4>1 DEF AtWork, IsKill
    <3> QED
      BY <3>1, <3>2
  <2> QED
    BY <1>1, <1>4, <2>1, <2>2, <2>3
<1>8. ASSUME NEW u \in Task, CommitStart(u)
      PROVE  Attended(t)'
  <2>1. row[u] = "OPEN" /\ row' = [row EXCEPT ![u] = "RUNNING"]
    BY <1>8 DEF CommitStart, SetRow
  <2>2. CASE u = t
    BY <1>0, <1>2, <1>8, <2>1, <2>2, QuietSteps DEF OpenIsPolled, Polled, Alive
  <2>3. CASE u # t
    <3>1. row[t] = "RUNNING"
      BY <1>0, <2>1, <2>3 DEF TypeOK
    <3> QED
      BY <1>0, <1>8, <3>1, QuietSteps
      DEF RunningIsAttended, Attended, RunsOf, Alive, AtWork
  <2> QED
    BY <2>2, <2>3
<1>9. ASSUME NEW u \in Task, RollBackStart(u) \/ CreateOnly(u)
      PROVE  Attended(t)'
  <2>1. row[t] = "RUNNING"
    BY <1>0, <1>9 DEF RollBackStart, CreateOnly, SetRow, TypeOK
  <2> QED
    BY <1>0, <1>9, <2>1, QuietSteps DEF RunningIsAttended, Attended, RunsOf, Alive, AtWork
<1>10. ASSUME NEW q \in Request, NEW u \in Task, Load(q, u) \/ CallKill(q, u)
       PROVE  Attended(t)'
  <2>1. row[t] = "RUNNING" /\ UNCHANGED <<run, recovery, life>>
    BY <1>10, QuietSteps
  <2>2. \A r \in Run : Alive(r) /\ run[r].of = t => Attended(t)'
    BY <1>2, <2>1 DEF Alive
  <2>3. ASSUME NEW p \in Request, AtWork(p, t), IsKill(p)
        PROVE  Attended(t)'
    <3>1. request'[p] = request[p]
      BY <1>0, <1>10, <2>3, AdmitEffect DEF AtWork
    <3> QED
      BY <1>3, <2>3, <3>1 DEF AtWork, IsKill
  <2> QED
    BY <1>1, <1>4, <2>1, <2>2, <2>3
<1>11. CASE Shutdown \/ Restart
  BY <1>0, <1>4, <1>11, ProcessEffect
<1>12. CASE QueryStale
  <2>1. CASE t \in Durable
    BY <1>4, <1>12, <2>1 DEF QueryStale, Terminal, TaskStatus
  <2>2. CASE t \notin Durable
    BY <1>0, <1>4, <1>12, <2>2 DEF QueryStale, RecoveryAfterRestart
  <2> QED
    BY <2>1, <2>2
<1>13. CASE RecoveryEnds
  BY <1>0, <1>13 DEF RecoveryEnds, RunningIsAttended, Attended, RunsOf, Alive, AtWork
<1>14. CASE UNCHANGED vars
  BY <1>0, <1>14 DEF vars, RunningIsAttended, Attended, RunsOf, Alive, AtWork
<1>15. ASSUME NEW u \in Task, NEW r \in Run, Start(u, r) \/ Requeue(u, r)
       PROVE  Attended(t)'
  <2>1. row' = [row EXCEPT ![u] = row'[u]]
    BY <1>0, <1>15 DEF Start, Requeue, SetRow, TypeOK
  <2> QED
    BY <1>5, <1>15, <2>1 DEF Start, Requeue, SetRow
<1> QED
  BY <1>6, <1>7, <1>8, <1>9, <1>10, <1>11, <1>12, <1>13, <1>14, <1>15 DEF Next, Recover

\* While starts commit before their run gives up on the row (SlowCommit is
\* false), a task whose row says running is attended to: no interleaving of
\* kills, cancellations, timeouts, shutdowns, crashes and recoveries
\* (task_manager.py and recover_pending_jobs) leaves it behind.
THEOREM NoTaskLeftRunning ==
    ASSUME ~SlowCommit
    PROVE  Spec => []RunningIsAttended
<1>1. Init => Inv
  BY InitType DEF Init, Inv, RunningAgrees, WritesTerminal, CancelledIsAwaited, RequestsDecide,
     Decides, OpenIsPolled, RecoveryAfterRestart, RunningIsAttended, IdleRun, IdleRequest, Alive
<1>2. Inv /\ [Next]_vars => Inv'
  BY NextType, NextWrites, NextDecide, NextRunning, NextAwaited, NextOpen, NextRecovery,
     NextAttended DEF Inv
<1>3. Inv => RunningIsAttended
  BY DEF Inv
<1> QED
  BY <1>1, <1>2, <1>3, PTL DEF Spec

-----------------------------------------------------------------------------
(***************************************************************************)
(* One run per task, with clients held back during the recovery.           *)
(***************************************************************************)

\* Only a start and a restart of a job bring a run to life.
LEMMA NoNewRuns ==
    ASSUME TypeOK, WritesTerminal, RequestsDecide, [Next]_vars,
           \A t \in Task, r \in Run : ~Start(t, r) /\ ~Requeue(t, r)
    PROVE  \A r \in Run : Alive(r)' => Alive(r) /\ run'[r].of = run[r].of
<1> USE DEF Alive
<1>1. ASSUME NEW s \in Run, RunStep(s)
      PROVE  \A r \in Run : Alive(r)' => Alive(r) /\ run'[r].of = run[r].of
  BY <1>1, RunEffect
<1>2. ASSUME NEW q \in Request, RequestStep(q)
      PROVE  \A r \in Run : Alive(r)' => Alive(r) /\ run'[r].of = run[r].of
  BY <1>2, RequestEffect
<1>3. CASE Shutdown \/ Restart
  BY <1>3, ProcessEffect
<1>4. CASE UNCHANGED run
  BY <1>4
<1> QED
  BY <1>1, <1>2, <1>3, <1>4, QuietSteps DEF Next, Recover, vars

\* What a step can do to a row.
LEMMA RowEffect ==
    ASSUME TypeOK, WritesTerminal, RequestsDecide, [Next]_vars, NEW t \in Task,
           \A r \in Run : ~Start(t, r) /\ ~Requeue(t, r)
    PROVE  \/ row'[t] = row[t]
           \/ row'[t] \in Terminal
           \/ row[t] \in {"NONE", "OPEN"} /\ row'[t] # "NONE"
<1> USE DEF memory
<1>1. ASSUME NEW u \in Task, CommitStart(u) \/ RollBackStart(u) \/ CreateOnly(u)
      PROVE  row'[t] = row[t] \/ (row[t] \in {"NONE", "OPEN"} /\ row'[t] # "NONE")
  BY <1>1 DEF CommitStart, RollBackStart, CreateOnly, SetRow, TypeOK
<1>2. ASSUME NEW u \in Task, u # t, NEW r \in Run, Start(u, r) \/ Requeue(u, r)
      PROVE  row'[t] = row[t]
  BY <1>2 DEF Start, Requeue, SetRow, TypeOK
<1>3. ASSUME NEW r \in Run, RunStep(r)
      PROVE  row'[t] = row[t] \/ row'[t] \in Terminal
  BY <1>3, RunEffect
<1>4. ASSUME NEW q \in Request, RequestStep(q)
      PROVE  row'[t] = row[t] \/ row'[t] \in Terminal
  BY <1>4, RequestEffect
<1>5. CASE Shutdown \/ Restart
  BY <1>5 DEF Shutdown, Restart, TypeOK
<1>6. CASE UNCHANGED row
  BY <1>6
<1> QED
  BY <1>1, <1>2, <1>3, <1>4, <1>5, <1>6, QuietSteps DEF Next, Recover, vars

LEMMA NextOneRun == SoloInv /\ [Next]_vars => OneRun'
<1> SUFFICES ASSUME SoloInv, [Next]_vars, NEW s \in Run, Alive(s)'
             PROVE  (running[run[s].of] = s /\ row[run[s].of] # "NONE")'
  BY DEF OneRun
<1>0. TypeOK /\ WritesTerminal /\ RequestsDecide /\ OneRun /\ RecoveryUndisturbed
  BY DEF SoloInv
<1>1. ASSUME NEW t \in Task, NEW r \in Run, Spawn(t, r), SetRow(t, row'[t]),
             row'[t] # "NONE", \A x \in Run : Alive(x) => run[x].of # t
      PROVE  (running[run[s].of] = s /\ row[run[s].of] # "NONE")'
  <2>1. CASE s = r
    BY <1>0, <1>1, <2>1, SpawnEffect DEF TypeOK
  <2>2. CASE s # r
    <3>1. Alive(s) /\ run'[s] = run[s] /\ run[s].of \in Task /\ run[s].of # t
      BY <1>0, <1>1, <2>2, SpawnEffect DEF Alive, TypeOK
    <3> QED
      BY <1>0, <1>1, <3>1, SpawnEffect DEF OneRun, SetRow, TypeOK
  <2> QED
    BY <2>1, <2>2
<1>2. ASSUME NEW t \in Task, NEW r \in Run, Start(t, r)
      PROVE  (running[run[s].of] = s /\ row[run[s].of] # "NONE")'
  <2>1. /\ Spawn(t, r) /\ row' = [row EXCEPT ![t] = "OPEN"]
        /\ \A x \in Run : Alive(x) => run[x].of # t
    BY <1>0, <1>2 DEF Start, SetRow, OneRun
  <2>2. SetRow(t, row'[t]) /\ row'[t] # "NONE"
    BY <1>0, <2>1 DEF SetRow, TypeOK
  <2> QED
    BY <1>1, <2>1, <2>2
<1>3. ASSUME NEW t \in Task, NEW r \in Run, Requeue(t, r)
      PROVE  (running[run[s].of] = s /\ row[run[s].of] # "NONE")'
  <2>1. /\ Spawn(t, r) /\ row' = [row EXCEPT ![t] = "RUNNING"]
        /\ \A x \in Run : Alive(x) => run[x].of # t
    BY <1>0, <1>3 DEF Requeue, SetRow, RecoveryUndisturbed
  <2>2. SetRow(t, row'[t]) /\ row'[t] # "NONE"
    BY <1>0, <2>1 DEF SetRow, TypeOK
  <2> QED
    BY <1>1, <2>1, <2>2
<1>4. CASE \A t \in Task, r \in Run : ~Start(t, r) /\ ~Requeue(t, r)
  <2>1. /\ Alive(s) /\ run'[s].of = run[s].of /\ run[s].of \in Task
        /\ running[run[s].of] = s /\ row[run[s].of] # "NONE"
    BY <1>0, <1>4, NoNewRuns DEF OneRun, Alive, TypeOK
  <2>2. row'[run[s].of] # "NONE"
    BY <1>0, <1>4, <2>1, RowEffect DEF Terminal
  <2>3. running'[run[s].of] = s
    <3>1. ASSUME NEW r \in Run, RunStep(r)
          PROVE  running'[run[s].of] = s
      <4>1. Alive(r) /\ running[run[r].of] = r
        BY <1>0, <3>1, RunEffect DEF OneRun
      <4>2. CASE s = r
        BY <1>0, <2>1, <3>1, <4>2, RunEffect DEF Alive
      <4>3. CASE s # r
        BY <1>0, <2>1, <3>1, <4>1, <4>3, RunEffect DEF TypeOK
      <4> QED
        BY <4>2, <4>3
    <3>2. ASSUME NEW q \in Request, RequestStep(q)
          PROVE  running'[run[s].of] = s
      BY <1>0, <2>1, <3>2, RequestEffect
    <3>3. ~Restart
      BY <1>0, ProcessEffect DEF Alive
    <3>4. Shutdown \/ UNCHANGED running => running'[run[s].of] = s
      BY <1>0, <2>1, ProcessEffect
    <3> QED
      BY <1>4, <3>1, <3>2, <3>3, <3>4, QuietSteps DEF Next, Recover, vars, memory
  <2> QED
    BY <2>1, <2>2, <2>3
<1> QED
  BY <1>2, <1>3, <1>4

LEMMA NextUndisturbed == SoloInv /\ ~EarlyTraffic /\ [Next]_vars => RecoveryUndisturbed'
<1> SUFFICES ASSUME SoloInv, ~EarlyTraffic, [Next]_vars, recovery'.pc # "off"
             PROVE  RecoveryUndisturbed'
  BY DEF RecoveryUndisturbed
<1>0. TypeOK /\ WritesTerminal /\ RequestsDecide /\ OneRun /\ RecoveryUndisturbed
  BY DEF SoloInv
<1> USE DEF memory
<1>1. CASE Restart
  BY <1>0, <1>1, ProcessEffect DEF RecoveryUndisturbed, Alive
<1>2. ASSUME ~Restart
      PROVE  recovery.pc # "off"
  <2>1. ASSUME NEW r \in Run, RunStep(r)
        PROVE  UNCHANGED recovery
    BY <1>0, <2>1, RunEffect
  <2>2. ASSUME NEW q \in Request, RequestStep(q)
        PROVE  UNCHANGED recovery
    BY <1>0, <2>2, RequestEffect
  <2>3. Shutdown => UNCHANGED recovery
    BY DEF Shutdown
  <2>4. \A t \in Task, r \in Run : /\ Start(t, r) => UNCHANGED recovery
                                   /\ Requeue(t, r) => recovery.pc = "requeue"
    BY DEF Start, Requeue
  <2>5. QueryStale => recovery.pc = "query"
    BY DEF QueryStale
  <2>6. RecoveryEnds => recovery.pc = "requeue"
    BY DEF RecoveryEnds
  <2> QED
    <3>1. CASE UNCHANGED recovery
      BY <3>1
    <3>2. CASE recovery.pc # "off"
      BY <3>2
    <3> QED
      BY <1>2, <2>1, <2>2, <2>3, <2>4, <2>5, <2>6, <3>1, <3>2, QuietSteps
      DEF Next, Recover, vars
<1>3. ASSUME recovery.pc # "off"
      PROVE  /\ ~Serving
             /\ \A q \in Request : request[q].pc \in {"idle", "done"} /\ ~RequestStep(q)
  BY <1>0, <1>3 DEF Serving, Recovering, RecoveryUndisturbed, RequestStep, CancelTask, KillTask,
     KillReads, Commit
<1>4. ASSUME NEW t \in Task, NEW r \in Run, Requeue(t, r)
      PROVE  RecoveryUndisturbed'
  <2>1. /\ Spawn(t, r) /\ row' = [row EXCEPT ![t] = "RUNNING"] /\ request' = request
        /\ recovery.pc = "requeue" /\ recovery'.pc = "requeue"
        /\ recovery'.todo = recovery.todo \ {t}
    BY <1>0, <1>4 DEF Requeue, SetRow, TypeOK
  <2>2. ASSUME NEW u \in recovery'.todo
        PROVE  row'[u] = row[u] /\ \A x \in Run : Alive(x)' => run'[x].of # u
    BY <1>0, <2>1, <2>2, SpawnEffect DEF RecoveryUndisturbed, Alive, TypeOK
  <2> QED
    BY <1>0, <2>1, <2>2 DEF RecoveryUndisturbed
<1>5. CASE QueryStale
  <2>1. /\ recovery.pc = "query" /\ recovery'.pc = "requeue"
        /\ \A t \in recovery'.todo : row[t] \in TaskStatus \ Terminal
        /\ UNCHANGED <<row, run, request>>
    BY <1>5 DEF QueryStale
  <2> QED
    BY <1>0, <2>1 DEF RecoveryUndisturbed, Alive
<1>6. ASSUME UNCHANGED <<request, recovery>>, recovery.pc # "off",
             \A t \in Task, r \in Run : ~Start(t, r) /\ ~Requeue(t, r),
             \A t \in Task : row[t] \notin NotVisible /\ row'[t] # row[t] =>
                \E r \in Run : Alive(r) /\ run[r].of = t
      PROVE  RecoveryUndisturbed'
  <2>1. \A r \in Run : Alive(r)' => Alive(r) /\ run'[r].of = run[r].of
    BY <1>0, <1>6, NoNewRuns
  <2>2. \A t \in recovery.todo : t \in Task /\ row[t] \notin NotVisible
    BY <1>0, <1>6 DEF RecoveryUndisturbed, TypeOK, NotVisible, TaskStatus, Terminal
  <2>3. \A t \in recovery.todo : row'[t] = row[t]
    BY <1>0, <1>6, <2>2 DEF RecoveryUndisturbed
  <2> QED
    BY <1>0, <1>6, <2>1, <2>3 DEF RecoveryUndisturbed
<1>7. CASE ~Restart /\ ~QueryStale /\ \A t \in Task, r \in Run : ~Requeue(t, r)
  <2>0. /\ recovery.pc # "off" /\ ~Serving /\ ~RecoveryEnds
        /\ \A q \in Request : ~RequestStep(q)
        /\ \A t \in Task, r \in Run : ~Start(t, r)
        /\ \A t \in Task : ~CreateOnly(t)
        /\ \A q \in Request, t \in Task : ~Load(q, t) /\ ~CallKill(q, t)
    BY <1>0, <1>2, <1>3, <1>7
    DEF Start, CreateOnly, Load, CallKill, Admit, RecoveryEnds, TypeOK
  <2>1. ASSUME NEW t \in Task, CommitStart(t) \/ RollBackStart(t)
        PROVE  RecoveryUndisturbed'
    BY <1>0, <1>6, <1>7, <2>0, <2>1 DEF CommitStart, RollBackStart, SetRow, NotVisible, TypeOK
  <2>2. ASSUME NEW r \in Run, RunStep(r)
        PROVE  RecoveryUndisturbed'
    <3>1. Alive(r) /\ UNCHANGED <<request, recovery>>
      BY <1>0, <2>2, RunEffect
    <3>2. \A t \in Task : t # run[r].of => row'[t] = row[t]
      BY <1>0, <2>2 DEF RunStep, FindRow, GiveUp, HandlerEnds, ReadRow, WriteRow, Interrupted,
         SetRow, TypeOK
    <3> QED
      BY <1>6, <1>7, <2>0, <3>1, <3>2
  <2>3. CASE Shutdown \/ UNCHANGED vars
    BY <1>6, <1>7, <2>0, <2>3 DEF Shutdown, vars
  <2> QED
    BY <1>7, <2>0, <2>1, <2>2, <2>3 DEF Next, Recover
<1> QED
  BY <1>1, <1>4, <1>5, <1>7

LEMMA NextKillAwaits == SoloInv /\ [Next]_vars => KillAwaitsAll'
<1> SUFFICES ASSUME SoloInv, [Next]_vars, NEW q \in Request, IsKill(q)',
                    request'[q].pc \in {"get", "commit"}
             PROVE  \A r \in Run : Alive(r)' /\ run'[r].of = request'[q].of =>
                       request'[q].pc = "get" /\ r = request'[q].waits
  BY DEF KillAwaitsAll, IsKill
<1>0. TypeOK /\ WritesTerminal /\ RequestsDecide /\ OneRun /\ RecoveryUndisturbed /\ KillAwaitsAll
  BY DEF SoloInv
<1> USE DEF memory
\* A request that stays where it is.
<1>1. ASSUME request'[q] = request[q],
             \A r \in Run : Alive(r)' /\ run'[r].of = request[q].of =>
                Alive(r) /\ run[r].of = request[q].of
      PROVE  \A r \in Run : Alive(r)' /\ run'[r].of = request'[q].of =>
                request'[q].pc = "get" /\ r = request'[q].waits
  BY <1>0, <1>1 DEF KillAwaitsAll, IsKill
<1>2. ASSUME NEW t \in Task, NEW s \in Run, Start(t, s) \/ Requeue(t, s)
      PROVE  \A r \in Run : Alive(r)' /\ run'[r].of = request'[q].of =>
                request'[q].pc = "get" /\ r = request'[q].waits
  <2>1. Spawn(t, s) /\ request' = request
    BY <1>2 DEF Start, Requeue
  <2>2. Start(t, s) => row[t] = "NONE"
    BY DEF Start
  <2>3. ~Requeue(t, s)
    BY <1>0, <2>1 DEF Requeue, RecoveryUndisturbed
  <2>4. request[q].of # t
    BY <1>0, <1>2, <2>1, <2>2, <2>3 DEF RequestsDecide, Decides, NotVisible
  <2>5. \A r \in Run : Alive(r)' /\ run'[r].of = request[q].of =>
            Alive(r) /\ run[r].of = request[q].of
    BY <1>0, <2>1, <2>4, SpawnEffect DEF Alive
  <2> QED
    BY <1>1, <2>1, <2>5
<1>3. CASE \A t \in Task, r \in Run : ~Start(t, r) /\ ~Requeue(t, r)
  <2>1. \A r \in Run : Alive(r)' => Alive(r) /\ run'[r].of = run[r].of
    BY <1>0, <1>3, NoNewRuns
  <2>2. ASSUME request'[q] = request[q]
        PROVE  \A r \in Run : Alive(r)' /\ run'[r].of = request'[q].of =>
                  request'[q].pc = "get" /\ r = request'[q].waits
    BY <1>1, <2>1, <2>2
  <2>3. ASSUME NEW p \in Request, RequestStep(p)
        PROVE  \A r \in Run : Alive(r)' /\ run'[r].of = request'[q].of =>
                  request'[q].pc = "get" /\ r = request'[q].waits
    <3>1. CASE p # q
      BY <1>0, <2>2, <2>3, <3>1, RequestEffect
    <3>2. CASE p = q /\ request'[q].pc = "get"
      <4>1. request'[q].waits = running[request[q].of] /\ request'[q].of = request[q].of
        BY <1>0, <2>3, <3>2, RequestEffect
      <4> QED
        BY <1>0, <2>1, <3>2, <4>1 DEF OneRun
    <3>3. CASE p = q /\ request'[q].pc = "commit"
      <4>1. KillReads(q) \/ CancelTask(q)
        <5>1. request[q].pc # "commit"
          BY <1>0, <2>3, <3>3, RequestEffect
        <5>2. ASSUME KillTask(q)
              PROVE  FALSE
          <6> DEFINE new == [request[q] EXCEPT !.pc = "get", !.waits = running[request[q].of]]
          <6>1. request' = [request EXCEPT ![q] = new]
            BY <5>2 DEF KillTask
          <6>2. new.pc = "get" /\ request \in [Request -> RequestRecord]
            BY <1>0 DEF TypeOK, RequestRecord
          <6> HIDE DEF new
          <6> QED
            BY <3>3, <6>1, <6>2
        <5> QED
          BY <2>3, <3>3, <5>1, <5>2 DEF RequestStep, Commit
      <4>2. request'[q].of = request[q].of /\ request'[q].kind = request[q].kind
        BY <1>0, <2>3, <3>3, RequestEffect
      <4>3. request[q].pc = "get" /\ (request[q].waits # NoRun => run[request[q].waits].pc = "done")
        BY <4>1, <4>2 DEF KillReads, CancelTask, IsKill
      <4>4. \A r \in Run : Alive(r) /\ run[r].of = request[q].of => r = request[q].waits
        BY <1>0, <4>2, <4>3 DEF KillAwaitsAll, IsKill
      <4> QED
        BY <2>1, <4>2, <4>3, <4>4, TaskAssumption DEF Alive
    <3> QED
      BY <3>1, <3>2, <3>3
  <2>4. ASSUME NEW p \in Request, NEW t \in Task, Load(p, t) \/ CallKill(p, t)
        PROVE  request'[q] = request[q]
    BY <1>0, <2>4, AdmitEffect DEF IsKill
  <2>5. ASSUME NEW r \in Run, RunStep(r)
        PROVE  request'[q] = request[q]
    BY <1>0, <2>5, RunEffect
  <2>6. ~Restart
    BY <1>0, ProcessEffect
  <2>7. Shutdown => request'[q] = request[q]
    BY DEF Shutdown
  <2> QED
    BY <1>3, <2>2, <2>3, <2>4, <2>5, <2>6, <2>7, QuietSteps DEF Next, Recover, vars
<1> QED
  BY <1>2, <1>3

LEMMA InitSolo == Init => SoloInv
BY InitType DEF Init, SoloInv, WritesTerminal, RequestsDecide, Decides, OneRun,
   RecoveryUndisturbed, KillAwaitsAll, IdleRun, IdleRequest, Alive

LEMMA NextSolo == SoloInv /\ ~EarlyTraffic /\ [Next]_vars => SoloInv'
BY NextType, NextWrites, NextDecide, NextOneRun, NextUndisturbed, NextKillAwaits DEF SoloInv

\* With clients held back during the recovery, no run of a task is left when
\* a kill of it writes the row (kill_task awaits the coroutine it cancels),
\* whatever cancels, kills, ends or restarts the task in between.
THEOREM KillIsComplete ==
    ASSUME ~EarlyTraffic
    PROVE  Spec => KillStopsRun
<1>1. SoloInv => \A q \in Request : Commit(q) /\ request[q].kind \in {"kill", "direct"} =>
                                    RunsOf(request[q].of) = {}
  BY DEF SoloInv, KillAwaitsAll, IsKill, Commit, RunsOf
<1>2. SoloInv /\ [Next]_vars => SoloInv'
  BY NextSolo
<1> QED
  BY InitSolo, <1>1, <1>2, PTL DEF Spec, KillStopsRun

\* With clients held back during the recovery, a task that is over and that
\* nobody is at work on stays over: no stale run, request or recovery changes
\* its row or runs it again (the guards on the terminal status in
\* task_manager.py, and the query of recover_pending_jobs).
THEOREM OverIsOver ==
    ASSUME ~EarlyTraffic
    PROVE  Spec => OverStaysOver
<1>1. ASSUME SoloInv, [Next]_vars, NEW t \in Task, row[t] \in Terminal, RunsOf(t) = {},
             \A q \in Request : ~Deciding(q, t)
      PROVE  row'[t] = row[t] /\ RunsOf(t)' = {} /\ \A q \in Request : ~Deciding(q, t)'
  <2> USE DEF memory
  <2>0. TypeOK /\ WritesTerminal /\ RequestsDecide /\ OneRun /\ RecoveryUndisturbed
    BY <1>1 DEF SoloInv
  <2>1. \A r \in Run : ~Start(t, r) /\ ~Requeue(t, r)
    BY <1>1, <2>0 DEF Start, Requeue, RecoveryUndisturbed, Terminal
  <2>2. RunsOf(t)' = {}
    <3>1. ASSUME NEW u \in Task, NEW s \in Run, Spawn(u, s), u # t, NEW r \in Run, Alive(r)'
          PROVE  run'[r].of # t
      BY <1>1, <2>0, <3>1, SpawnEffect DEF Alive, RunsOf
    <3>2. ASSUME NEW u \in Task, NEW s \in Run, Start(u, s) \/ Requeue(u, s)
          PROVE  RunsOf(t)' = {}
      BY <2>1, <3>1, <3>2 DEF Start, Requeue, RunsOf
    <3>3. ASSUME \A u \in Task, s \in Run : ~Start(u, s) /\ ~Requeue(u, s)
          PROVE  RunsOf(t)' = {}
      <4>1. \A r \in Run : Alive(r)' => Alive(r) /\ run'[r].of = run[r].of
        BY <1>1, <2>0, <3>3, NoNewRuns
      <4> QED
        BY <1>1, <4>1 DEF RunsOf
    <3> QED
      BY <3>2, <3>3
  <2>3. row'[t] = row[t]
    <3>1. ASSUME NEW r \in Run, RunStep(r)
          PROVE  row'[t] = row[t]
      <4>1. Alive(r) /\ run[r].of # t
        BY <1>1, <2>0, <3>1, RunEffect DEF RunsOf
      <4> QED
        BY <2>0, <3>1, <4>1 DEF RunStep, FindRow, GiveUp, HandlerEnds, ReadRow, WriteRow,
           Interrupted, SetRow, TypeOK
    <3>2. ASSUME NEW q \in Request, RequestStep(q)
          PROVE  row'[t] = row[t]
      <4>1. CASE Commit(q)
        <5>1. request[q].of # t
          BY <1>1, <2>0, <4>1 DEF Commit, Deciding, AtWork, RequestsDecide, Decides
        <5> QED
          BY <2>0, <4>1, <5>1 DEF Commit, SetRow, TypeOK
      <4> QED
        BY <3>2, <4>1 DEF RequestStep, CancelTask, KillTask, KillReads
    <3>3. ASSUME NEW u \in Task, CommitStart(u) \/ RollBackStart(u) \/ CreateOnly(u)
          PROVE  row'[t] = row[t]
      BY <1>1, <2>0, <3>3 DEF CommitStart, RollBackStart, CreateOnly, SetRow, TypeOK, Terminal
    <3>4. ASSUME NEW u \in Task, NEW r \in Run, Start(u, r) \/ Requeue(u, r)
          PROVE  row'[t] = row[t]
      BY <2>0, <2>1, <3>4 DEF Start, Requeue, SetRow, TypeOK
    <3>5. CASE Shutdown \/ Restart
      BY <1>1, <2>0, <3>5 DEF Shutdown, Restart, TypeOK, Terminal
    <3>6. CASE UNCHANGED row
      BY <3>6
    <3> QED
      BY <1>1, <3>1, <3>2, <3>3, <3>4, <3>5, <3>6, QuietSteps DEF Next, Recover, vars
  <2>4. ASSUME NEW q \in Request
        PROVE  ~Deciding(q, t)'
    <3>0. ~Deciding(q, t)
      BY <1>1
    <3>1. CASE request'[q] = request[q]
      BY <3>0, <3>1 DEF Deciding, AtWork
    <3>2. ASSUME NEW p \in Request, RequestStep(p)
          PROVE  ~Deciding(q, t)'
      <4>1. CASE p # q
        BY <2>0, <3>1, <3>2, <4>1, RequestEffect
      <4>2. CASE p = q
        <5>0. request[q] \in RequestRecord /\ request \in [Request -> RequestRecord]
          BY <2>0 DEF TypeOK
        <5>1. CASE CancelTask(q)
          BY <3>0, <5>0, <5>1 DEF CancelTask, Deciding, AtWork, RequestRecord
        <5>2. CASE KillTask(q)
          <6>1. request'[q].seen = request[q].seen /\ request'[q].of = request[q].of
            BY <5>0, <5>2 DEF KillTask, RequestRecord
          <6> QED
            BY <3>0, <5>2, <6>1 DEF KillTask, Deciding, AtWork
        <5>3. CASE KillReads(q)
          <6>1. request'[q].of = request[q].of
            BY <2>0, <3>2, <4>2, RequestEffect
          <6>2. CASE request[q].of = t
            <7>1. request[q].seen = "UNREAD"
              BY <3>0, <5>3, <6>2 DEF KillReads, Deciding, AtWork
            <7>2. request'[q].pc = "done"
              <8> DEFINE new == [request[q] EXCEPT !.seen = row[t], !.pc = "done"]
              <8>1. request' = [request EXCEPT ![q] = new]
                BY <1>1, <5>3, <6>2, <7>1 DEF KillReads
              <8>2. new.pc = "done"
                BY <5>0 DEF RequestRecord
              <8> HIDE DEF new
              <8> QED
                BY <5>0, <8>1, <8>2
            <7> QED
              BY <7>2 DEF Deciding, AtWork
          <6> QED
            BY <6>1, <6>2 DEF Deciding, AtWork
        <5>4. CASE Commit(q)
          BY <5>0, <5>4 DEF Commit, Deciding, AtWork, RequestRecord
        <5> QED
          BY <3>2, <4>2, <5>1, <5>2, <5>3, <5>4 DEF RequestStep
      <4> QED
        BY <4>1, <4>2
    <3>3. ASSUME NEW p \in Request, NEW u \in Task, Load(p, u) \/ CallKill(p, u)
          PROVE  ~Deciding(q, t)'
      <4>1. CASE p # q
        BY <2>0, <3>1, <3>3, <4>1, AdmitEffect
      <4>2. CASE p = q /\ Load(q, u)
        BY <1>1, <2>0, <4>2 DEF Load, Admit, Deciding, AtWork, TypeOK
      <4>3. CASE p = q /\ CallKill(q, u)
        BY <2>0, <4>3 DEF CallKill, Admit, Deciding, AtWork, TypeOK
      <4> QED
        BY <3>3, <4>1, <4>2, <4>3
    <3>4. ASSUME NEW r \in Run, RunStep(r)
          PROVE  ~Deciding(q, t)'
      BY <2>0, <3>1, <3>4, RunEffect
    <3>5. CASE Restart
      BY <2>0, <3>5, ProcessEffect DEF Deciding, AtWork
    <3>6. ASSUME NEW u \in Task, NEW s \in Run, Start(u, s) \/ Requeue(u, s)
          PROVE  ~Deciding(q, t)'
      BY <3>1, <3>6 DEF Start, Requeue
    <3>7. CASE Shutdown
      BY <3>1, <3>7 DEF Shutdown
    <3> QED
      BY <1>1, <3>1, <3>2, <3>3, <3>4, <3>5, <3>6, <3>7, QuietSteps DEF Next, Recover, vars
  <2> QED
    BY <2>2, <2>3, <2>4
<1>2. SoloInv /\ [Next]_vars => SoloInv'
  BY NextSolo
<1>3. SoloInv /\ [Next]_vars =>
        \A t \in Task :
          /\ row[t] \in Terminal
          /\ RunsOf(t) = {}
          /\ \A q \in Request : ~Deciding(q, t)
          => /\ row'[t] = row[t]
             /\ RunsOf(t)' = {}
             /\ \A q \in Request : ~Deciding(q, t)'
  BY <1>1
<1> QED
  BY InitSolo, <1>2, <1>3, PTL DEF Spec, OverStaysOver
=============================================================================
