----------------------- MODULE WorkflowExecutorProofs -----------------------
(***************************************************************************)
(* Theorems about WorkflowExecutor, for every document, every set of node  *)
(* ids and every value of the bounds: its types, that a run never waits    *)
(* for a release that cannot come, that it implements WorkflowRun, and, of *)
(* forward documents, that a node runs when its inputs have finished, runs *)
(* once, and that the outputs are delivered.                               *)
(***************************************************************************)
EXTENDS WorkflowExecutor, TLAPS

-----------------------------------------------------------------------------
(***************************************************************************)
(* Every operator of ExecutionList maps a scheduler state to a scheduler   *)
(* state; routing leaves the blocked nodes and the cancel flag alone and   *)
(* puts no node in progress.                                               *)
(***************************************************************************)

Keeps(s, t) ==
    /\ t \in Scheduler
    /\ t.blocked = s.blocked
    /\ t.cancelled = s.cancelled
    /\ t.inProgress \subseteq s.inProgress

\* A walk visits nodes only.
LEMMA WalkNodes ==
    ASSUME NEW S, NEW step
    PROVE  Walk(S, step) \subseteq Node
BY DEF Walk

\* The empty ExecutionList is a scheduler state.
LEMMA EmptySchedulerType == EmptyScheduler \in Scheduler
BY DEF EmptyScheduler, Scheduler

\* add_node.
LEMMA AddNodesFacts ==
    ASSUME NEW d \in Document, NEW s \in Scheduler, NEW seeds \in SUBSET Node
    PROVE  Keeps(s, AddNodes(d, s, seeds))
BY WalkNodes DEF AddNodes, Scheduler, Keeps

LEMMA AddNodeFacts ==
    ASSUME NEW d \in Document, NEW s \in Scheduler, NEW n \in Node
    PROVE  Keeps(s, AddNode(d, s, n))
BY AddNodesFacts DEF AddNode

\* select_branch with the subtrees it skips.
LEMMA SelectBranchFacts ==
    ASSUME NEW d \in Document, NEW s \in Scheduler, NEW n \in Node, NEW to \in Target
    PROVE  Keeps(s, SelectBranch(d, s, n, to))
<1> DEFINE t == [s EXCEPT !.chosen[n] = to]
<1>1. Keeps(s, t)
  BY DEF Scheduler, Keeps
<1>2. ASSUME NEW roots
      PROVE  Keeps(s, SkipSubtrees(d, t, roots))
  <2> DEFINE Skippable(m) == m \notin Finished(t) /\ Dependents(d, t, m) = {}
             down == [m \in Node |-> {k \in SuccessorsOf(d, t, m) : Skippable(k)}]
             skip == Walk({m \in roots : Skippable(m)}, down)
  <2>1. skip \subseteq Node
    BY WalkNodes
  <2>2. SkipSubtrees(d, t, roots) =
            [t EXCEPT !.skipped = @ \cup skip, !.ready = @ \ skip]
    BY DEF SkipSubtrees
  <2> HIDE DEF skip, t
  <2> DEFINE u == [t EXCEPT !.skipped = @ \cup skip, !.ready = @ \ skip]
  <2>3. t \in Scheduler
    BY <1>1 DEF Keeps
  <2>4. u \in Scheduler /\ u.blocked = t.blocked /\ u.cancelled = t.cancelled
        /\ u.inProgress = t.inProgress
    BY <2>1, <2>3 DEF Scheduler
  <2> HIDE DEF u
  <2>5. Keeps(s, u)
    BY <1>1, <2>4 DEF Keeps
  <2> QED
    BY <2>2, <2>5 DEF u
<1> QED
  BY <1>2 DEF SelectBranch

\* reopen and reopen_or_add.
LEMMA ReopenOrAddFacts ==
    ASSUME NEW d \in Document, NEW s \in Scheduler, NEW n \in Node, NEW allowed \in BOOLEAN
    PROVE  Keeps(s, ReopenOrAdd(d, s, n, allowed))
<1>1. Keeps(s, Reopen(d, s, n))
  <2> DEFINE again == [m \in Node |->
                         (SuccessorsOf(d, s, m) \cup Dependents(d, s, m)) \cap Finished(s)]
             reset == Walk({n}, again)
             t == [s EXCEPT !.completed = @ \ reset, !.skipped = @ \ reset,
                            !.ready = @ \ reset, !.inProgress = @ \ reset]
  <2>1. Reopen(d, s, n) = AddNode(d, t, n)
    BY DEF Reopen
  <2> HIDE DEF reset
  <2>2. Keeps(s, t)
    BY DEF Scheduler, Keeps
  <2>3. t \in Scheduler
    BY <2>2 DEF Keeps
  <2> HIDE DEF t
  <2>4. Keeps(t, AddNode(d, t, n))
    BY <2>3, AddNodeFacts
  <2> QED
    BY <2>1, <2>2, <2>4 DEF Keeps
<1> QED
  BY <1>1, AddNodeFacts DEF ReopenOrAdd

\* stage_ready_batch.
LEMMA StageFacts ==
    ASSUME NEW s \in Scheduler, NEW limit
    PROVE  LET first == FirstReady(s, limit)
               t == Stage(s, first)
           IN  /\ first \in SUBSET Node
               /\ t \in Scheduler
               /\ t.inProgress = s.inProgress \cup first
               /\ t.blocked = s.blocked
               /\ t.cancelled = s.cancelled
<1>1. FirstReady(s, limit) \subseteq s.ready /\ s.ready \subseteq Node
  BY DEF FirstReady, Scheduler
<1> QED
  BY <1>1 DEF Stage, Scheduler

\* complete_node_execution.
LEMMA CompleteNodeFacts ==
    ASSUME NEW d \in Document, NEW s \in Scheduler, NEW n \in Node
    PROVE  /\ Keeps(s, CompleteNode(d, s, n))
           /\ n \notin CompleteNode(d, s, n).inProgress
<1> DEFINE t == [s EXCEPT !.inProgress = @ \ {n}, !.completed = @ \cup {n}]
           promoted == {m \in Dependents(d, t, n) \ Finished(t) :
                          ~PrunedEdge(d, t, n, m) /\ RemainingDeps(d, t, m) = {}}
<1>1. Keeps(s, t) /\ n \notin t.inProgress
  BY DEF Scheduler, Keeps
<1>2. promoted \subseteq Node
  <2>1. promoted \subseteq t.walked
    BY DEF Dependents
  <2> QED
    BY <1>1, <2>1 DEF Scheduler, Keeps
<1>3. CompleteNode(d, s, n) = [t EXCEPT !.ready = @ \cup promoted]
  BY DEF CompleteNode
<1> HIDE DEF t, promoted
<1> QED
  BY <1>1, <1>2, <1>3 DEF Scheduler, Keeps

\* fail_node_execution, add_external_block and cancel.
LEMMA FailBlockCancelFacts ==
    ASSUME NEW s \in Scheduler, NEW n \in Node
    PROVE  /\ Keeps(s, FailNode(s, n)) /\ n \notin FailNode(s, n).inProgress
           /\ AddExternalBlock(s, n) \in Scheduler
           /\ AddExternalBlock(s, n).inProgress = s.inProgress \ {n}
           /\ AddExternalBlock(s, n).cancelled = s.cancelled
           /\ CancelList(s) \in Scheduler
           /\ CancelList(s).cancelled
           /\ CancelList(s).inProgress = s.inProgress
           /\ CancelList(s).blocked = s.blocked
BY DEF FailNode, AddExternalBlock, CancelList, Scheduler, Keeps

-----------------------------------------------------------------------------
(***************************************************************************)
(* Type correctness.                                                       *)
(***************************************************************************)

\* The fields of a document.
LEMMA DocType ==
    ASSUME TypeOK
    PROVE  /\ doc \in Document
           /\ \A n \in Node : /\ doc.next[n] \in Target
                              /\ doc.handler[n] \in Target
                              /\ doc.retry[n] \in Target
                              /\ doc.exhausted[n] \in Target
                              /\ doc.routes[n] \subseteq Target
           /\ doc.start \in Node
           /\ doc.outputs \subseteq Node
BY ExecutorAssumption DEF TypeOK, Document

\* What a node can return, now or from the cache, is a result.
LEMMA ResultType ==
    ASSUME TypeOK, NEW n \in Node
    PROVE  /\ Pending \in Result
           /\ cache[n] \in Result
           /\ Outputs(n) \subseteq Result
           /\ Returned("error", NoNode) \in Result
<1>1. run \in 0..MaxRuns /\ 0 \in 0..MaxRuns
  BY ExecutorAssumption DEF TypeOK
<1>2. NoNode \in Target
  BY DEF Target
<1>3. ASSUME NEW to \in Target, NEW tag \in {"ok", "route", "error", "block"}
      PROVE  Returned(tag, to) \in Result
  BY <1>1 DEF Returned, Result
<1>4. Outputs(n) \subseteq Result
  <2>1. doc.kind[n] \in Kind
    BY ExecutorAssumption DEF TypeOK, Document
  <2>2. CASE doc.kind[n] \in {"task", "wait"}
    BY <1>2, <1>3, <2>2 DEF Outputs
  <2>3. CASE doc.kind[n] \in {"condition", "gate"}
    BY <1>3, <2>3, DocType DEF Outputs
  <2>4. CASE doc.kind[n] = "refine"
    BY <1>3, <2>4, DocType DEF Outputs
  <2>5. CASE doc.kind[n] = "review"
    BY <1>2, <1>3, <2>5 DEF Outputs
  <2>6. CASE doc.kind[n] = "agent"
    BY <1>2, <1>3, <2>6 DEF Outputs
  <2> QED
    BY <2>1, <2>2, <2>3, <2>4, <2>5, <2>6 DEF Kind
<1> QED
  BY <1>1, <1>2, <1>3, <1>4 DEF Pending, Result, TypeOK

LEMMA InitType == Init => TypeOK
<1> SUFFICES ASSUME Init PROVE TypeOK
  OBVIOUS
<1>1. 0 \in 0..MaxRuns /\ 0 \in 0..MaxResumes /\ 0 \in 0..MaxIterations + 1
  BY ExecutorAssumption
<1>2. NoNode \in Target
  BY DEF Target
<1>3. Pending \in Result
  BY <1>1, <1>2 DEF Pending, Result
<1>4. EmptyCache \in [Node -> Result] /\ result \in [Node -> Result]
  BY <1>3 DEF EmptyCache, Init
<1>5. stored \in Snapshot
  BY <1>1, <1>2, <1>4 DEF Init, NoSnapshot, Snapshot
<1> QED
  BY <1>1, <1>2, <1>4, <1>5, EmptySchedulerType DEF Init, TypeOK, Phase, Status

\* The part of the state that Begin assigns.
LEMMA BeginFacts ==
    ASSUME TypeOK, Begin
    PROVE  /\ Keeps(EmptyScheduler, sched')
           /\ sched' \in Scheduler
           /\ phase' \in Phase
           /\ batch' \in SUBSET Node
           /\ result' \in [Node -> Result]
           /\ hasPaused' \in BOOLEAN
           /\ status' \in Status
           /\ errors' \in SUBSET Node
<1>1. doc.outputs \cup {doc.start} \in SUBSET Node /\ doc \in Document
  BY DocType
<1>2. Keeps(EmptyScheduler, sched')
  BY <1>1, AddNodesFacts, EmptySchedulerType DEF Begin
<1>3. [n \in Node |-> Pending] \in [Node -> Result]
  BY ResultType
<1> QED
  BY <1>2, <1>3 DEF Begin, Phase, Status, Keeps

\* What applying a result does to the scheduler.
LEMMA AppliedFacts ==
    ASSUME TypeOK, NEW n \in Node
    PROVE  /\ Keeps(sched, AfterError(n)) /\ n \notin AfterError(n).inProgress
           /\ Keeps(sched, AfterOutput(n)) /\ n \notin AfterOutput(n).inProgress
<1>1. doc \in Document /\ sched \in Scheduler /\ doc.handler[n] \in Target
      /\ doc.next[n] \in Target /\ result[n].to \in Target
  BY DocType DEF TypeOK, Result
<1>2. Keeps(sched, AfterError(n)) /\ n \notin AfterError(n).inProgress
  <2>1. Keeps(sched, FailNode(sched, n)) /\ n \notin FailNode(sched, n).inProgress
    BY <1>1, FailBlockCancelFacts
  <2>2. CASE doc.handler[n] = NoNode
    BY <2>1, <2>2 DEF AfterError
  <2>3. CASE doc.handler[n] # NoNode
    <3>1. doc.handler[n] \in Node
      BY <1>1, <2>3 DEF Target
    <3>2. Keeps(FailNode(sched, n), SelectBranch(doc, FailNode(sched, n), n, doc.handler[n]))
      BY <1>1, <2>1, SelectBranchFacts DEF Keeps
    <3> QED
      BY <1>1, <2>1, <2>3, <3>1, <3>2, AddNodeFacts DEF AfterError, Keeps
  <2> QED
    BY <2>2, <2>3
<1>3. Keeps(sched, AfterOutput(n)) /\ n \notin AfterOutput(n).inProgress
  <2> DEFINE routes == result[n].to # NoNode \/ doc.kind[n] = "condition"
             target == IF routes THEN result[n].to ELSE doc.next[n]
             selected == IF routes \/ target # NoNode
                         THEN SelectBranch(doc, sched, n, target) ELSE sched
             routed == IF target # NoNode
                       THEN ReopenOrAdd(doc, selected, target, LoopSafe(n)) ELSE selected
  <2>1. target \in Target
    BY <1>1
  <2>2. AfterOutput(n) = CompleteNode(doc, routed, n)
    BY DEF AfterOutput
  <2> HIDE DEF target
  <2>3. Keeps(sched, selected)
    BY <1>1, <2>1, SelectBranchFacts DEF Keeps
  <2> HIDE DEF selected
  <2>4. Keeps(selected, routed)
    <3>1. LoopSafe(n) \in BOOLEAN
      BY DEF LoopSafe
    <3>2. target # NoNode => target \in Node
      BY <2>1 DEF Target
    <3> QED
      BY <1>1, <2>3, <3>1, <3>2, ReopenOrAddFacts DEF Keeps
  <2> HIDE DEF routed
  <2> QED
    BY <1>1, <2>2, <2>3, <2>4, CompleteNodeFacts DEF Keeps
<1> QED
  BY <1>2, <1>3

\* Every step keeps the types.
LEMMA NextType == TypeOK /\ [Next]_vars => TypeOK'
<1> SUFFICES ASSUME TypeOK, [Next]_vars PROVE TypeOK'
  OBVIOUS
<1> USE DEF exec, state
<1>1. CASE StartRun
  <2>1. run' \in 0..MaxRuns /\ 0 \in 0..MaxIterations + 1 /\ NoNode \in Target
    BY <1>1, ExecutorAssumption DEF StartRun, TypeOK, Target
  <2>2. NoSnapshot \in Snapshot
    <3>1. EmptyCache \in [Node -> Result]
      BY ResultType DEF EmptyCache
    <3> QED
      BY <2>1, <3>1 DEF NoSnapshot, Snapshot
  <2>3. Begin
    BY <1>1 DEF StartRun
  <2> QED
    BY <1>1, <2>1, <2>2, <2>3, BeginFacts DEF StartRun, TypeOK
<1>2. CASE Resume
  <2> DEFINE from == IF inMemory
                     THEN [current |-> current, answers |-> answers,
                           iteration |-> iteration, cache |-> cache]
                     ELSE stored
  <2>1. /\ from.current \in Target
        /\ from.answers \in SUBSET Node
        /\ from.iteration \in 0..MaxIterations + 1
        /\ from.cache \in [Node -> Result]
    BY DEF TypeOK, Snapshot
  <2>2. /\ current' = from.current
        /\ answers' = from.answers \cup ({from.current} \ {NoNode})
        /\ iteration' = from.iteration
        /\ cache' = from.cache
        /\ inMemory' = TRUE
        /\ resumes' = resumes + 1
        /\ resumes < MaxResumes
        /\ UNCHANGED <<doc, run, stored>>
        /\ Begin
    BY <1>2 DEF Resume
  <2> HIDE DEF from
  <2>3. answers' \in SUBSET Node /\ resumes' \in 0..MaxResumes
    BY <2>1, <2>2, ExecutorAssumption DEF Target, TypeOK
  <2> QED
    BY <2>1, <2>2, <2>3, BeginFacts DEF TypeOK
<1>3. CASE Restart
  BY <1>3, ResultType DEF Restart, TypeOK, EmptyCache
<1>4. CASE TimeOut
  BY <1>4 DEF TimeOut, TypeOK, CancelList, Scheduler, Phase, Status
<1>5. CASE LeaveLoop
  BY <1>5 DEF LeaveLoop, TypeOK, Phase
<1>6. CASE StageBatch
  <2>1. /\ FirstReady(sched, MaxParallelism) \in SUBSET Node
        /\ Stage(sched, FirstReady(sched, MaxParallelism)) \in Scheduler
    BY StageFacts DEF TypeOK
  <2>2. result' \in [Node -> Result]
    BY <1>6, ResultType DEF StageBatch
  <2> QED
    BY <1>6, <2>1, <2>2 DEF StageBatch, TypeOK, Phase
<1>7. CASE Gathered
  BY <1>7 DEF Gathered, TypeOK, Phase
<1>8. CASE SaveSnapshot
  <2>1. stored' \in Snapshot
    <3>1. EmptyCache \in [Node -> Result]
      BY ResultType DEF EmptyCache
    <3> QED
      BY <1>8, <3>1 DEF SaveSnapshot, TypeOK, Snapshot
  <2> QED
    BY <1>8, <2>1 DEF SaveSnapshot, TypeOK, Phase
<1>9. CASE Finish
  BY <1>9 DEF Finish, TypeOK, Phase, FinalStatus, Status, Suspended
<1>10. ASSUME NEW n \in Node, RunNode(n)
       PROVE  TypeOK'
  <2>1. PICK r \in IF Cached(n) THEN {cache[n]}
                   ELSE Outputs(n) \cup {Returned("error", NoNode)} :
             /\ result' = [result EXCEPT ![n] = r]
             /\ cache' = cache \/ cache' = [cache EXCEPT ![n] = r]
             /\ iteration' \in {iteration} \/ (iteration <= MaxIterations /\ iteration' = iteration + 1)
    BY <1>10 DEF RunNode
  <2>2. r \in Result
    BY <2>1, ResultType
  <2>3. result' \in [Node -> Result] /\ cache' \in [Node -> Result]
    BY <2>1, <2>2 DEF TypeOK
  <2>4. iteration' \in 0..MaxIterations + 1
    BY <2>1, ExecutorAssumption DEF TypeOK
  <2> QED
    BY <1>10, <2>3, <2>4 DEF RunNode, TypeOK
<1>11. ASSUME NEW n \in Node, ApplyError(n)
       PROVE  TypeOK'
  BY <1>11, AppliedFacts DEF ApplyError, AfterResult, TypeOK, Phase, Target, Keeps
<1>12. ASSUME NEW n \in Node, ApplyOutput(n)
       PROVE  TypeOK'
  BY <1>12, AppliedFacts DEF ApplyOutput, AfterResult, TypeOK, Phase, Target, Keeps
<1>13. ASSUME NEW n \in Node, ApplyBlock(n)
       PROVE  TypeOK'
  <2>1. sched' \in Scheduler
    BY <1>13, FailBlockCancelFacts DEF ApplyBlock, TypeOK
  <2> QED
    BY <1>13, <2>1 DEF ApplyBlock, TypeOK, Phase, Target, Status
<1>14. CASE Cancel
  BY <1>14 DEF Cancel, TypeOK, CancelList, Scheduler, Status
<1>15. CASE Pause
  BY <1>15 DEF Pause, TypeOK, Status
<1>16. CASE UNCHANGED vars
  BY <1>16 DEF TypeOK, vars
<1> QED
  BY <1>1, <1>2, <1>3, <1>4, <1>5, <1>6, <1>7, <1>8, <1>9, <1>10, <1>11, <1>12,
     <1>13, <1>14, <1>15, <1>16 DEF Next, Idle

\* The variables of a run always hold values of their types.
THEOREM TypeCorrect == Spec => []TypeOK
BY InitType, NextType, PTL DEF Spec

-----------------------------------------------------------------------------
(***************************************************************************)
(* The safety of the loop.  NeverAwaitsRelease is not inductive: it needs  *)
(* to know that a node that blocks sets the local `paused', on which the   *)
(* loop stops.                                                             *)
(***************************************************************************)

BlockSetsPaused ==
    phase \in {"apply", "save"} /\ sched.blocked # {} => hasPaused

LoopInv == TypeOK /\ NeverAwaitsRelease /\ BlockSetsPaused /\ BatchIsInProgress

\* A new scheduler has no node in progress or blocked.
LEMMA BeginIsClean ==
    ASSUME TypeOK, Begin
    PROVE  /\ sched'.blocked = {}
           /\ sched'.inProgress = {}
           /\ ~sched'.cancelled
           /\ phase' = "loop"
BY BeginFacts DEF Keeps, EmptyScheduler, Begin

LEMMA LoopStep == LoopInv /\ [Next]_vars => LoopInv'
<1> SUFFICES ASSUME LoopInv, [Next]_vars PROVE LoopInv'
  OBVIOUS
<1> USE DEF exec, state
<1>0. TypeOK /\ TypeOK'
  BY NextType DEF LoopInv
<1> SUFFICES NeverAwaitsRelease' /\ BlockSetsPaused' /\ BatchIsInProgress'
  BY <1>0 DEF LoopInv
<1>1. CASE StartRun \/ Resume
  <2>1. Begin
    BY <1>1 DEF StartRun, Resume
  <2> QED
    BY <1>0, <2>1, BeginIsClean DEF NeverAwaitsRelease, BlockSetsPaused, BatchIsInProgress
<1>2. CASE TimeOut \/ LeaveLoop \/ Finish \/ Restart
  BY <1>2 DEF TimeOut, LeaveLoop, Finish, Restart, NeverAwaitsRelease, BlockSetsPaused,
              BatchIsInProgress
<1>3. CASE StageBatch
  <2>1. sched'.blocked = sched.blocked /\ sched'.inProgress = sched.inProgress \cup batch'
    BY <1>0, <1>3, StageFacts DEF StageBatch, TypeOK
  <2>2. phase = "loop" /\ phase' = "gather"
    BY <1>3 DEF StageBatch
  <2> QED
    BY <2>1, <2>2 DEF LoopInv, NeverAwaitsRelease, BlockSetsPaused, BatchIsInProgress
<1>4. CASE Gathered \/ SaveSnapshot
  BY <1>4 DEF Gathered, SaveSnapshot, LoopInv, NeverAwaitsRelease, BlockSetsPaused,
              BatchIsInProgress
<1>5. ASSUME NEW n \in Node, RunNode(n)
      PROVE  NeverAwaitsRelease' /\ BlockSetsPaused' /\ BatchIsInProgress'
  BY <1>5 DEF RunNode, LoopInv, NeverAwaitsRelease, BlockSetsPaused, BatchIsInProgress
<1>6. ASSUME NEW n \in Node, ApplyError(n) \/ ApplyOutput(n)
      PROVE  NeverAwaitsRelease' /\ BlockSetsPaused' /\ BatchIsInProgress'
  <2>1. /\ sched'.blocked = sched.blocked
        /\ sched'.inProgress \subseteq sched.inProgress \ {n}
    BY <1>0, <1>6, AppliedFacts DEF ApplyError, ApplyOutput, Keeps
  <2>2. phase = "apply" /\ AfterResult(n, hasPaused)
    BY <1>6 DEF ApplyError, ApplyOutput, NextToApply
  <2>3. sched.inProgress \subseteq batch /\ (sched.blocked # {} => hasPaused)
    BY <2>2 DEF LoopInv, BatchIsInProgress, BlockSetsPaused
  <2>4. sched'.inProgress \subseteq batch'
    BY <2>1, <2>2, <2>3 DEF AfterResult
  <2>5. batch = {n} => sched'.inProgress = {}
    BY <2>1, <2>3
  <2> QED
    BY <2>1, <2>2, <2>3, <2>4, <2>5 DEF AfterResult, NeverAwaitsRelease, BlockSetsPaused,
       BatchIsInProgress
<1>7. ASSUME NEW n \in Node, ApplyBlock(n)
      PROVE  NeverAwaitsRelease' /\ BlockSetsPaused' /\ BatchIsInProgress'
  <2>1. sched'.inProgress = sched.inProgress \ {n}
    BY <1>0, <1>7, FailBlockCancelFacts DEF ApplyBlock, TypeOK
  <2> QED
    BY <1>7, <2>1 DEF ApplyBlock, NextToApply, LoopInv, NeverAwaitsRelease, BlockSetsPaused,
       BatchIsInProgress
<1>8. CASE Cancel
  <2>1. sched'.inProgress = sched.inProgress /\ sched'.blocked = sched.blocked
    BY <1>8 DEF Cancel, CancelList, LoopInv, TypeOK, Scheduler
  <2> QED
    BY <1>8, <2>1 DEF Cancel, LoopInv, NeverAwaitsRelease, BlockSetsPaused, BatchIsInProgress
<1>9. CASE Pause \/ UNCHANGED vars
  BY <1>9 DEF Pause, vars, LoopInv, NeverAwaitsRelease, BlockSetsPaused, BatchIsInProgress
<1> QED
  BY <1>1, <1>2, <1>3, <1>4, <1>5, <1>6, <1>7, <1>8, <1>9 DEF Next, Idle

LEMMA LoopHolds == Spec => []LoopInv
<1>1. Init => LoopInv
  BY InitType DEF Init, LoopInv, NeverAwaitsRelease, BlockSetsPaused, BatchIsInProgress
<1> QED
  BY <1>1, LoopStep, PTL DEF Spec

\* stage_ready_batch is never entered with a blocked node: no run hangs in
\* its wait for a release.
THEOREM NoHang == Spec => []NeverAwaitsRelease
<1>1. LoopInv => NeverAwaitsRelease
  BY DEF LoopInv
<1> QED
  BY <1>1, LoopHolds, PTL

\* The nodes in progress are those of the batch: at the head of the loop
\* there are none.
THEOREM NoLostNode == Spec => []BatchIsInProgress
<1>1. LoopInv => BatchIsInProgress
  BY DEF LoopInv
<1> QED
  BY <1>1, LoopHolds, PTL

-----------------------------------------------------------------------------
(***************************************************************************)
(* Refinement.  The outcome is truthful because, while a run is in         *)
(* progress, its status and the cancel flag of its scheduler agree.        *)
(***************************************************************************)

StatusAgrees ==
    phase # "ended" =>
        /\ status \in {"RUNNING", "CANCELLED", "TIMEOUT"} \cup Suspended
        /\ status \in {"CANCELLED", "TIMEOUT"} => sched.cancelled
        /\ sched.cancelled => status # "RUNNING"

RunInv == TypeOK /\ StatusAgrees

\* Applying results leaves the cancel flag alone.
LEMMA ApplyKeepsFlag ==
    ASSUME TypeOK, NEW n \in Node, ApplyError(n) \/ ApplyOutput(n) \/ ApplyBlock(n)
    PROVE  sched'.cancelled = sched.cancelled
<1>1. CASE ApplyError(n) \/ ApplyOutput(n)
  BY <1>1, AppliedFacts DEF ApplyError, ApplyOutput, Keeps
<1>2. CASE ApplyBlock(n)
  BY <1>2, FailBlockCancelFacts DEF ApplyBlock, TypeOK
<1> QED
  BY <1>1, <1>2

LEMMA StageKeepsFlag ==
    ASSUME TypeOK, StageBatch
    PROVE  sched'.cancelled = sched.cancelled
BY StageFacts DEF StageBatch, TypeOK

LEMMA RunStep == RunInv /\ [Next]_vars => RunInv'
<1> SUFFICES ASSUME RunInv, [Next]_vars PROVE StatusAgrees'
  BY NextType DEF RunInv
<1> USE DEF exec, state
<1>0. TypeOK
  BY DEF RunInv
<1>1. CASE StartRun \/ Resume
  <2>1. Begin
    BY <1>1 DEF StartRun, Resume
  <2>2. ~sched'.cancelled /\ status' = "RUNNING"
    BY <1>0, <2>1, BeginIsClean DEF Begin
  <2> QED
    BY <2>2 DEF StatusAgrees
<1>2. CASE TimeOut \/ Cancel
  <2>1. sched'.cancelled
    BY <1>0, <1>2 DEF TimeOut, Cancel, CancelList, TypeOK, Scheduler
  <2> QED
    BY <1>2, <2>1 DEF TimeOut, Cancel, StatusAgrees
<1>3. CASE Finish \/ Restart
  BY <1>3 DEF Finish, Restart, StatusAgrees
<1>4. CASE StageBatch
  BY <1>0, <1>4, StageKeepsFlag DEF StageBatch, RunInv, StatusAgrees
<1>5. CASE LeaveLoop \/ Gathered \/ SaveSnapshot
  BY <1>5 DEF LeaveLoop, Gathered, SaveSnapshot, RunInv, StatusAgrees
<1>6. ASSUME NEW n \in Node, RunNode(n)
      PROVE  StatusAgrees'
  BY <1>6 DEF RunNode, RunInv, StatusAgrees
<1>7. ASSUME NEW n \in Node, ApplyError(n) \/ ApplyOutput(n)
      PROVE  StatusAgrees'
  <2>1. sched'.cancelled = sched.cancelled /\ status' = status /\ phase = "apply"
    BY <1>0, <1>7, ApplyKeepsFlag DEF ApplyError, ApplyOutput, NextToApply
  <2> QED
    BY <2>1 DEF RunInv, StatusAgrees
<1>8. ASSUME NEW n \in Node, ApplyBlock(n)
      PROVE  StatusAgrees'
  BY <1>8 DEF ApplyBlock, StatusAgrees, Suspended
<1>9. CASE Pause \/ UNCHANGED vars
  BY <1>9 DEF Pause, Interruptible, vars, RunInv, StatusAgrees, Suspended
<1> QED
  BY <1>1, <1>2, <1>3, <1>4, <1>5, <1>6, <1>7, <1>8, <1>9 DEF Next, Idle

LEMMA RunHolds == Spec => []RunInv
<1>1. Init => RunInv
  BY InitType DEF Init, RunInv, StatusAgrees
<1> QED
  BY <1>1, RunStep, PTL DEF Spec

\* Every step of the executor is a step of WorkflowRun or changes nothing of
\* what WorkflowRun sees.
LEMMA RunSimulates == RunInv /\ [Next]_vars => [Run!Next]_Run!vars
<1> SUFFICES ASSUME RunInv, [Next]_vars PROVE [Run!Next]_Run!vars
  OBVIOUS
<1> USE DEF exec, state
<1>0. TypeOK
  BY DEF RunInv
<1>1. CASE StartRun
  <2>1. Begin /\ phase = "ended" /\ run' = run + 1
    BY <1>1 DEF StartRun
  <2>2. ~sched'.cancelled /\ errors' = {} /\ phase' = "loop"
    BY <1>0, <2>1, BeginIsClean DEF Begin
  <2>3. sched'.cancelled = FALSE
    BY <1>0, <2>1, <2>2, BeginFacts DEF Scheduler
  <2> QED
    BY <2>1, <2>2, <2>3 DEF Run!Next, Run!Start, Run!Begin
<1>2. CASE Resume
  <2>1. Begin /\ phase = "ended" /\ run' = run /\ status \in Suspended
    BY <1>2 DEF Resume
  <2>2. ~sched'.cancelled /\ errors' = {} /\ phase' = "loop"
    BY <1>0, <2>1, BeginIsClean DEF Begin
  <2>3. sched'.cancelled = FALSE
    BY <1>0, <2>1, <2>2, BeginFacts DEF Scheduler
  <2> QED
    BY <2>1, <2>2, <2>3 DEF Run!Next, Run!Resume, Run!Begin, Run!Suspended, Suspended
<1>3. CASE TimeOut \/ Cancel
  <2>1. sched'.cancelled = TRUE
    BY <1>0, <1>3 DEF TimeOut, Cancel, CancelList, TypeOK, Scheduler
  <2>2. phase # "ended" /\ phase' # "ended" /\ errors' = errors /\ run' = run
    BY <1>3 DEF TimeOut, Cancel, Interruptible
  <2> QED
    BY <2>1, <2>2 DEF Run!Next, Run!Stop
<1>4. CASE StageBatch
  <2>1. sched'.cancelled = sched.cancelled
    BY <1>0, <1>4, StageKeepsFlag
  <2> QED
    BY <1>4, <2>1 DEF StageBatch, Run!vars
<1>5. CASE LeaveLoop \/ Gathered \/ SaveSnapshot
  BY <1>5 DEF LeaveLoop, Gathered, SaveSnapshot, Run!vars
<1>6. CASE Restart \/ UNCHANGED vars
  BY <1>6 DEF Restart, vars, Run!vars
<1>7. ASSUME NEW n \in Node, RunNode(n)
      PROVE  [Run!Next]_Run!vars
  BY <1>7 DEF RunNode, Run!vars
<1>8. ASSUME NEW n \in Node, ApplyError(n)
      PROVE  [Run!Next]_Run!vars
  <2>1. sched'.cancelled = sched.cancelled /\ phase = "apply" /\ phase' # "ended"
        /\ errors' = errors \cup {n} /\ run' = run
    BY <1>0, <1>8, ApplyKeepsFlag DEF ApplyError, NextToApply, AfterResult
  <2>2. (errors' # {}) = TRUE
    BY <2>1
  <2> QED
    BY <2>1, <2>2 DEF Run!Next, Run!Fail
<1>9. ASSUME NEW n \in Node, ApplyOutput(n) \/ ApplyBlock(n)
      PROVE  [Run!Next]_Run!vars
  <2>1. sched'.cancelled = sched.cancelled
    BY <1>0, <1>9, ApplyKeepsFlag
  <2>2. phase # "ended" /\ phase' # "ended" /\ errors' = errors /\ run' = run
    BY <1>9 DEF ApplyOutput, ApplyBlock, NextToApply, AfterResult
  <2> QED
    BY <2>1, <2>2 DEF Run!vars
<1>10. CASE Pause
  BY <1>10 DEF Pause, Interruptible, Run!vars
<1>11. CASE Finish
  <2>1. /\ phase = "finish" /\ phase' = "ended"
        /\ status' = FinalStatus(status, errors # {})
        /\ UNCHANGED <<sched, errors, run>>
    BY <1>11 DEF Finish
  <2>2. /\ status \in {"RUNNING", "CANCELLED", "TIMEOUT", "WAITING_HUMAN", "PAUSED"}
        /\ status \in {"CANCELLED", "TIMEOUT"} => sched.cancelled
        /\ sched.cancelled => status # "RUNNING"
    BY <2>1 DEF RunInv, StatusAgrees, Suspended
  <2>3. /\ status' \in Run!Terminal \cup Run!Suspended
        /\ Run!Truthful(status')
    BY <2>1, <2>2 DEF FinalStatus, Suspended, Run!Terminal, Run!Suspended, Run!Truthful
  <2> QED
    BY <2>1, <2>3 DEF Run!Next, Run!End
<1> QED
  BY <1>1, <1>2, <1>3, <1>4, <1>5, <1>6, <1>7, <1>8, <1>9, <1>10, <1>11 DEF Next, Idle

\* The executor implements WorkflowRun: what a run reports at its end is
\* true of the run, and only a suspended run is resumed.
THEOREM Refinement == Spec => ImplementsRun
<1>1. Init => Run!Init
  BY DEF Init, Run!Init, EmptyScheduler
<1> QED
  BY <1>1, RunSimulates, RunHolds, PTL DEF Spec, ImplementsRun, Run!Spec

-----------------------------------------------------------------------------
(***************************************************************************)
(* Dependencies.  Without loop-safe nodes nothing is reopened, so what has *)
(* finished stays finished and a ready node keeps its right to run until   *)
(* it is staged, whatever is routed, skipped or failed in between.         *)
(***************************************************************************)

ReadyMayRun(d, s) ==
    /\ s.ready \subseteq s.walked
    /\ \A n \in s.ready : d.data[n] \subseteq Finished(s)

LEMMA AddNodesReady ==
    ASSUME NEW d \in Document, NEW s \in Scheduler, NEW seeds \in SUBSET Node,
           ReadyMayRun(d, s)
    PROVE  ReadyMayRun(d, AddNodes(d, s, seeds))
<1> DEFINE seen == Walk(seeds, d.data)
           t == [s EXCEPT !.walked = @ \cup seen]
           new == {n \in seen \ (s.completed \cup s.inProgress) : RemainingDeps(d, t, n) = {}}
           u == [t EXCEPT !.ready = @ \cup new]
<1>1. AddNodes(d, s, seeds) = u
  BY DEF AddNodes
<1>2. t.walked = s.walked \cup seen /\ Finished(t) = Finished(s)
  BY DEF Scheduler, Finished
<1>3. \A n \in new : n \in t.walked /\ d.data[n] \subseteq Finished(t)
  BY <1>2 DEF RemainingDeps, StrongLinks
<1>4. u.ready = s.ready \cup new /\ u.walked = t.walked /\ Finished(u) = Finished(t)
  BY DEF Scheduler, Finished
<1> HIDE DEF new, t, u, seen
<1> QED
  BY <1>1, <1>2, <1>3, <1>4 DEF ReadyMayRun

LEMMA SelectBranchReady ==
    ASSUME NEW d \in Document, NEW s \in Scheduler, NEW n \in Node, NEW to \in Target,
           ReadyMayRun(d, s)
    PROVE  ReadyMayRun(d, SelectBranch(d, s, n, to))
<1> DEFINE t == [s EXCEPT !.chosen[n] = to]
<1>1. t \in Scheduler /\ ReadyMayRun(d, t)
  BY DEF Scheduler, ReadyMayRun, Finished
<1>2. ASSUME NEW roots
      PROVE  ReadyMayRun(d, SkipSubtrees(d, t, roots))
  <2> DEFINE Skippable(m) == m \notin Finished(t) /\ Dependents(d, t, m) = {}
             down == [m \in Node |-> {k \in SuccessorsOf(d, t, m) : Skippable(k)}]
             skip == Walk({m \in roots : Skippable(m)}, down)
  <2>1. SkipSubtrees(d, t, roots) =
            [t EXCEPT !.skipped = @ \cup skip, !.ready = @ \ skip]
    BY DEF SkipSubtrees
  <2> HIDE DEF skip, t
  <2> QED
    BY <1>1, <2>1 DEF Scheduler, ReadyMayRun, Finished
<1> QED
  BY <1>2 DEF SelectBranch

LEMMA CompleteNodeReady ==
    ASSUME NEW d \in Document, NEW s \in Scheduler, NEW n \in Node, ReadyMayRun(d, s)
    PROVE  ReadyMayRun(d, CompleteNode(d, s, n))
<1> DEFINE t == [s EXCEPT !.inProgress = @ \ {n}, !.completed = @ \cup {n}]
           new == {m \in Dependents(d, t, n) \ Finished(t) :
                     ~PrunedEdge(d, t, n, m) /\ RemainingDeps(d, t, m) = {}}
           u == [t EXCEPT !.ready = @ \cup new]
<1>1. CompleteNode(d, s, n) = u
  BY DEF CompleteNode
<1>2. t \in Scheduler /\ ReadyMayRun(d, t)
  BY DEF Scheduler, ReadyMayRun, Finished
<1>3. \A m \in new : m \in t.walked /\ d.data[m] \subseteq Finished(t)
  BY DEF Dependents, RemainingDeps, StrongLinks
<1> HIDE DEF t, new
<1>4. u.ready = t.ready \cup new /\ u.walked = t.walked /\ Finished(u) = Finished(t)
  BY <1>2 DEF Scheduler, Finished
<1> HIDE DEF u
<1> QED
  BY <1>1, <1>2, <1>3, <1>4 DEF ReadyMayRun

LEMMA OthersReady ==
    ASSUME NEW d \in Document, NEW s \in Scheduler, NEW n \in Node, ReadyMayRun(d, s)
    PROVE  /\ ReadyMayRun(d, FailNode(s, n))
           /\ ReadyMayRun(d, AddExternalBlock(s, n))
           /\ ReadyMayRun(d, CancelList(s))
           /\ Finished(CancelList(s)) = Finished(s)
<1>1. ReadyMayRun(d, FailNode(s, n))
  BY DEF FailNode, Scheduler, ReadyMayRun, Finished
<1>2. ReadyMayRun(d, AddExternalBlock(s, n))
  BY DEF AddExternalBlock, Scheduler, ReadyMayRun, Finished
<1> QED
  BY <1>1, <1>2 DEF CancelList, Scheduler, ReadyMayRun, Finished

\* Applying a result in a forward document.
LEMMA AppliedReady ==
    ASSUME TypeOK, NEW n \in Node, Forward, ReadyMayRun(doc, sched)
    PROVE  ReadyMayRun(doc, AfterError(n)) /\ ReadyMayRun(doc, AfterOutput(n))
<1>1. doc \in Document /\ sched \in Scheduler /\ doc.handler[n] \in Target
      /\ doc.next[n] \in Target /\ result[n].to \in Target
  BY DocType DEF TypeOK, Result
<1>2. ReadyMayRun(doc, AfterError(n))
  <2> DEFINE failed == FailNode(sched, n)
             routed == SelectBranch(doc, failed, n, doc.handler[n])
  <2>1. failed \in Scheduler /\ ReadyMayRun(doc, failed)
    BY <1>1, FailBlockCancelFacts, OthersReady DEF Keeps
  <2>2. routed \in Scheduler /\ ReadyMayRun(doc, routed)
    BY <1>1, <2>1, SelectBranchFacts, SelectBranchReady DEF Keeps
  <2>3. doc.handler[n] # NoNode => {doc.handler[n]} \in SUBSET Node
    BY <1>1 DEF Target
  <2> HIDE DEF failed, routed
  <2>4. doc.handler[n] # NoNode => ReadyMayRun(doc, AddNode(doc, routed, doc.handler[n]))
    BY <1>1, <2>2, <2>3, AddNodesReady DEF AddNode
  <2> QED
    BY <2>1, <2>4 DEF AfterError, failed, routed
<1>3. ReadyMayRun(doc, AfterOutput(n))
  <2> DEFINE routes == result[n].to # NoNode \/ doc.kind[n] = "condition"
             target == IF routes THEN result[n].to ELSE doc.next[n]
             selected == IF routes \/ target # NoNode
                         THEN SelectBranch(doc, sched, n, target) ELSE sched
             routed == IF target # NoNode
                       THEN ReopenOrAdd(doc, selected, target, LoopSafe(n)) ELSE selected
  <2>1. target \in Target
    BY <1>1
  <2>2. AfterOutput(n) = CompleteNode(doc, routed, n)
    BY DEF AfterOutput
  <2>3. ~LoopSafe(n)
    BY DEF Forward
  <2> HIDE DEF target
  <2>4. selected \in Scheduler /\ ReadyMayRun(doc, selected)
    BY <1>1, <2>1, SelectBranchFacts, SelectBranchReady DEF Keeps
  <2> HIDE DEF selected
  <2>5. target # NoNode => {target} \in SUBSET Node /\ target \in Node
    BY <2>1 DEF Target
  <2>6. routed = IF target # NoNode THEN AddNodes(doc, selected, {target}) ELSE selected
    BY <2>3 DEF ReopenOrAdd, AddNode
  <2> HIDE DEF routed
  <2>7. routed \in Scheduler /\ ReadyMayRun(doc, routed)
    BY <1>1, <2>4, <2>5, <2>6, AddNodesFacts, AddNodesReady DEF Keeps
  <2> QED
    BY <1>1, <2>2, <2>7, CompleteNodeReady
<1> QED
  BY <1>2, <1>3

DepsInv ==
    /\ TypeOK
    /\ Forward => /\ ReadyMayRun(doc, sched)
                  /\ phase = "gather" =>
                        \A n \in batch : doc.data[n] \subseteq Finished(sched)

LEMMA DepsStep == DepsInv /\ [Next]_vars => DepsInv'
<1> SUFFICES ASSUME DepsInv, [Next]_vars, Forward'
             PROVE  /\ ReadyMayRun(doc', sched')
                    /\ phase' = "gather" =>
                          \A n \in batch' : doc'.data[n] \subseteq Finished(sched')
  BY NextType DEF DepsInv
<1> USE DEF exec, state
<1>0. /\ TypeOK /\ doc' = doc /\ Forward
      /\ doc \in Document /\ sched \in Scheduler /\ ReadyMayRun(doc, sched)
  <2>1. doc' = doc
    BY DEF Next, StartRun, Resume, Restart, TimeOut, LeaveLoop, StageBatch, Gathered,
           SaveSnapshot, Finish, RunNode, ApplyError, ApplyOutput, ApplyBlock, Cancel,
           Pause, Idle, vars
  <2>2. Forward
    BY <2>1 DEF Forward, LoopSafe
  <2> QED
    BY <2>1, <2>2, DocType DEF DepsInv, TypeOK
<1>1. CASE StartRun \/ Resume
  <2>1. Begin
    BY <1>1 DEF StartRun, Resume
  <2>2. ReadyMayRun(doc, EmptyScheduler)
    BY DEF ReadyMayRun, EmptyScheduler
  <2>3. doc.outputs \cup {doc.start} \in SUBSET Node
    BY <1>0, DocType
  <2>4. ReadyMayRun(doc, sched') /\ phase' = "loop"
    BY <1>0, <2>1, <2>2, <2>3, EmptySchedulerType, AddNodesReady DEF Begin
  <2> QED
    BY <1>0, <2>4
<1>2. CASE StageBatch
  <2> DEFINE first == FirstReady(sched, MaxParallelism)
  <2>1. /\ sched'.ready \subseteq sched.ready
        /\ sched'.walked = sched.walked
        /\ Finished(sched') = Finished(sched)
    BY <1>0, <1>2 DEF StageBatch, Stage, Scheduler, Finished
  <2>2. batch' \subseteq sched.ready
    BY <1>2 DEF StageBatch, FirstReady
  <2> QED
    BY <1>0, <2>1, <2>2 DEF ReadyMayRun
<1>3. ASSUME NEW n \in Node, ApplyError(n) \/ ApplyOutput(n) \/ ApplyBlock(n)
      PROVE  ReadyMayRun(doc, sched') /\ phase' # "gather"
  <2>1. CASE ApplyError(n) \/ ApplyOutput(n)
    BY <1>0, <2>1, AppliedReady DEF ApplyError, ApplyOutput, AfterResult
  <2>2. CASE ApplyBlock(n)
    BY <1>0, <2>2, OthersReady DEF ApplyBlock
  <2> QED
    BY <1>3, <2>1, <2>2
<1>4. CASE TimeOut \/ Cancel
  <2>1. sched' = CancelList(sched) /\ (phase' = "gather" => phase = "gather" /\ batch' = batch)
    BY <1>4 DEF TimeOut, Cancel
  <2>2. ReadyMayRun(doc, sched') /\ Finished(sched') = Finished(sched)
    BY <1>0, <2>1 DEF CancelList, ReadyMayRun, Finished, Scheduler
  <2> QED
    BY <1>0, <2>1, <2>2 DEF DepsInv
<1>5. CASE Restart \/ LeaveLoop \/ Gathered \/ SaveSnapshot \/ Finish \/ Pause \/ UNCHANGED vars
  BY <1>0, <1>5 DEF Restart, LeaveLoop, Gathered, SaveSnapshot, Finish, Pause, vars, DepsInv
<1>6. ASSUME NEW n \in Node, RunNode(n)
      PROVE  sched' = sched /\ phase' = phase /\ batch' = batch
  BY <1>6 DEF RunNode
<1> QED
  BY <1>0, <1>1, <1>2, <1>3, <1>4, <1>5, <1>6 DEF Next, Idle, DepsInv

\* In a document without loop-safe nodes, a node runs only when every node
\* it links to has completed or was skipped.
THEOREM ForwardDeps == Spec => []ForwardDepsFinished
<1>1. Init => DepsInv
  BY InitType DEF Init, DepsInv, ReadyMayRun, EmptyScheduler
<1>2. DepsInv => ForwardDepsFinished
  BY DEF DepsInv, ForwardDepsFinished, RemainingDeps, StrongLinks
<1> QED
  BY <1>1, <1>2, DepsStep, PTL DEF Spec

-----------------------------------------------------------------------------
\* A stopped attempt stays stopped and starts no node.
THEOREM StoppedStartsNothing == Spec => NothingStagedAfterCancel
<1> DEFINE Quiet == sched.cancelled /\ phase # "ended" =>
                        sched'.cancelled /\ batch' \subseteq batch
<1>1. TypeOK /\ [Next]_vars => Quiet
  <2> SUFFICES ASSUME TypeOK, [Next]_vars, sched.cancelled, phase # "ended"
               PROVE  sched'.cancelled /\ batch' \subseteq batch
    OBVIOUS
  <2> USE DEF exec, state
  <2>1. ~(StartRun \/ Resume \/ Restart \/ Idle \/ StageBatch)
    BY DEF StartRun, Resume, Restart, Idle, StageBatch, IsDone
  <2>2. CASE TimeOut \/ Cancel
    BY <2>2 DEF TimeOut, Cancel, CancelList, TypeOK, Scheduler
  <2>3. CASE LeaveLoop \/ Gathered \/ SaveSnapshot \/ Finish \/ Pause \/ UNCHANGED vars
    BY <2>3 DEF LeaveLoop, Gathered, SaveSnapshot, Finish, Pause, vars
  <2>4. ASSUME NEW n \in Node, RunNode(n)
        PROVE  sched'.cancelled /\ batch' \subseteq batch
    BY <2>4 DEF RunNode
  <2>5. ASSUME NEW n \in Node, ApplyError(n) \/ ApplyOutput(n) \/ ApplyBlock(n)
        PROVE  sched'.cancelled /\ batch' \subseteq batch
    <3>1. sched'.cancelled = sched.cancelled
      BY <2>5, ApplyKeepsFlag
    <3> QED
      BY <2>5, <3>1 DEF ApplyError, ApplyOutput, ApplyBlock, AfterResult
  <2> QED
    BY <2>1, <2>2, <2>3, <2>4, <2>5 DEF Next
<1>2. Spec => [][Quiet]_vars
  BY <1>1, TypeCorrect, PTL DEF Spec
<1> QED
  BY <1>2, PTL DEF NothingStagedAfterCancel

-----------------------------------------------------------------------------
(***************************************************************************)
(* Walks.                                                                  *)
(***************************************************************************)

\* A walk contains its seeds and is closed under its steps.
LEMMA WalkClosed ==
    ASSUME NEW S \in SUBSET Node, NEW step \in [Node -> SUBSET Node]
    PROVE  /\ S \subseteq Walk(S, step)
           /\ \A n \in Walk(S, step) : step[n] \subseteq Walk(S, step)
<1>1. \A n \in Node : step[n] \subseteq Node
  OBVIOUS
<1> QED
  BY <1>1 DEF Walk, Closed

\* It is the least such set.
LEMMA WalkLeast ==
    ASSUME NEW S, NEW step, NEW T \in SUBSET Node,
           S \subseteq T, \A n \in T : step[n] \subseteq T
    PROVE  Walk(S, step) \subseteq T
BY DEF Walk, Closed

\* What _skip_subtree skips: unfinished nodes that no walked node links to,
\* those of the pruned successors included.
Skips(d, s, roots, skip, u) ==
    /\ u.skipped = s.skipped \cup skip /\ u.ready = s.ready \ skip
    /\ u.completed = s.completed /\ u.inProgress = s.inProgress
    /\ u.walked = s.walked /\ u.chosen = s.chosen
    /\ \A n \in skip : n \notin Finished(s) /\ Dependents(d, s, n) = {}
    /\ \A n \in roots : n \in Finished(s) \cup skip \/ Dependents(d, s, n) # {}

LEMMA SkipSubtreesFacts ==
    ASSUME NEW d \in Document, NEW s \in Scheduler, NEW roots \in SUBSET Node,
           NEW T \in SUBSET Node,
           roots \subseteq T,
           \A n \in T : SuccessorsOf(d, s, n) \subseteq T
    PROVE  \E skip \in SUBSET T : Skips(d, s, roots, skip, SkipSubtrees(d, s, roots))
<1> DEFINE Skippable(n) == n \notin Finished(s) /\ Dependents(d, s, n) = {}
           down == [n \in Node |-> {m \in SuccessorsOf(d, s, n) : Skippable(m)}]
           seeds == {n \in roots : Skippable(n)}
           skip == Walk(seeds, down)
           U == {n \in T : Skippable(n)}
<1>1. SkipSubtrees(d, s, roots) = [s EXCEPT !.skipped = @ \cup skip, !.ready = @ \ skip]
  BY DEF SkipSubtrees
<1>2. skip \subseteq U
  <2>1. U \in SUBSET Node /\ seeds \subseteq U
    OBVIOUS
  <2>2. \A n \in U : down[n] \subseteq U
    OBVIOUS
  <2> HIDE DEF seeds, down, U
  <2> QED
    BY <2>1, <2>2, WalkLeast
<1>3. seeds \subseteq skip
  BY DEF Walk, Closed
<1> HIDE DEF skip
<1>4. \A n \in roots : n \in Finished(s) \cup skip \/ Dependents(d, s, n) # {}
  BY <1>3
<1>5. skip \in SUBSET T
  BY <1>2
<1>6. \A n \in skip : Skippable(n)
  BY <1>2
<1>7. Skips(d, s, roots, skip, SkipSubtrees(d, s, roots))
  BY <1>1, <1>4, <1>6 DEF Scheduler, Skips
<1> QED
  BY <1>5, <1>7

-----------------------------------------------------------------------------
(***************************************************************************)
(* Routing.  In an attempt without failures a node of a forward document   *)
(* leads only where its document says.                                     *)
(***************************************************************************)

\* An output that n may return.
MayReturn(n, r) ==
    r.tag \in {"ok", "route"} =>
        IF doc.kind[n] \in {"condition", "gate"} THEN r.to \in doc.routes[n] ELSE r.to = NoNode

\* Every output that is at hand, or can be brought back by a resume, is one.
OutputsAllowed ==
    /\ TypeOK
    /\ \A n \in Node : ~LoopSafe(n) =>
           MayReturn(n, result[n]) /\ MayReturn(n, cache[n]) /\ MayReturn(n, stored.cache[n])

LEMMA PendingAllowed ==
    /\ \A n \in Node : MayReturn(n, Pending)
    /\ \A n \in Node : MayReturn(n, EmptyCache[n])
BY DEF MayReturn, Pending, EmptyCache

LEMMA ReturnedAllowed ==
    ASSUME TypeOK, NEW n \in Node, ~LoopSafe(n), NEW r \in Outputs(n)
    PROVE  MayReturn(n, r)
<1>1. doc.kind[n] \in Kind
  BY ExecutorAssumption DEF TypeOK, Document
<1>2. doc.kind[n] \notin {"wait", "refine"}
  BY DEF LoopSafe
<1>3. CASE doc.kind[n] \in {"condition", "gate"}
  BY <1>3 DEF Outputs, Returned, MayReturn
<1>4. CASE doc.kind[n] = "task"
  BY <1>4 DEF Outputs, Returned, MayReturn
<1>5. CASE doc.kind[n] = "review"
  BY <1>5 DEF Outputs, Returned, MayReturn
<1>6. CASE doc.kind[n] = "agent"
  BY <1>6 DEF Outputs, Returned, MayReturn
<1> QED
  BY <1>1, <1>2, <1>3, <1>4, <1>5, <1>6 DEF Kind

LEMMA SameDoc == [Next]_vars => doc' = doc
BY DEF Next, StartRun, Resume, Restart, TimeOut, LeaveLoop, StageBatch, Gathered,
       SaveSnapshot, Finish, RunNode, ApplyError, ApplyOutput, ApplyBlock, Cancel,
       Pause, Idle, vars

LEMMA OutputsAllowedStep == OutputsAllowed /\ [Next]_vars => OutputsAllowed'
<1> SUFFICES ASSUME OutputsAllowed, [Next]_vars, NEW n \in Node, ~LoopSafe(n)
             PROVE  /\ MayReturn(n, result'[n])
                    /\ MayReturn(n, cache'[n])
                    /\ MayReturn(n, stored'.cache[n])
  BY SameDoc, NextType DEF OutputsAllowed, LoopSafe, MayReturn
<1> USE DEF exec, state
<1>0. /\ TypeOK /\ MayReturn(n, Pending) /\ MayReturn(n, EmptyCache[n])
      /\ MayReturn(n, result[n]) /\ MayReturn(n, cache[n]) /\ MayReturn(n, stored.cache[n])
  BY PendingAllowed DEF OutputsAllowed
<1>1. CASE StartRun \/ Resume
  <2>1. result'[n] = Pending
    BY <1>1 DEF StartRun, Resume, Begin
  <2>2. stored' = stored \/ stored' = NoSnapshot
    BY <1>1 DEF StartRun, Resume
  <2>3. cache' = cache \/ cache' = stored.cache
    BY <1>1 DEF StartRun, Resume
  <2> QED
    BY <1>0, <2>1, <2>2, <2>3 DEF NoSnapshot
<1>2. CASE Restart
  BY <1>0, <1>2 DEF Restart
<1>3. CASE StageBatch
  BY <1>0, <1>3 DEF StageBatch
<1>4. ASSUME NEW m \in Node, RunNode(m)
      PROVE  MayReturn(n, result'[n]) /\ MayReturn(n, cache'[n]) /\ stored' = stored
  <2>1. PICK r \in IF Cached(m) THEN {cache[m]}
                   ELSE Outputs(m) \cup {Returned("error", NoNode)} :
            /\ result' = [result EXCEPT ![m] = r]
            /\ cache' = [cache EXCEPT ![m] = r] \/ cache' = cache
    BY <1>4 DEF RunNode
  <2>2. result \in [Node -> Result] /\ cache \in [Node -> Result]
    BY <1>0 DEF TypeOK
  <2>3. MayReturn(n, Returned("error", NoNode))
    BY DEF MayReturn, Returned
  <2>4. m = n => MayReturn(n, r)
    BY <1>0, <2>1, <2>3, ReturnedAllowed
  <2> QED
    BY <1>0, <1>4, <2>1, <2>2, <2>4 DEF RunNode
<1>5. CASE SaveSnapshot
  <2>1. stored'.cache = cache \/ stored'.cache = EmptyCache
    BY <1>5 DEF SaveSnapshot
  <2> QED
    BY <1>0, <1>5, <2>1 DEF SaveSnapshot
<1>6. CASE \/ TimeOut \/ LeaveLoop \/ Gathered \/ Finish \/ Cancel \/ Pause
           \/ (\E m \in Node : ApplyError(m) \/ ApplyOutput(m) \/ ApplyBlock(m))
           \/ UNCHANGED vars
  BY <1>0, <1>6 DEF TimeOut, LeaveLoop, Gathered, Finish, Cancel, Pause, ApplyError,
                    ApplyOutput, ApplyBlock, vars
<1> QED
  BY <1>0, <1>1, <1>2, <1>3, <1>4, <1>5, <1>6 DEF Next, Idle

LEMMA OutputsAllowedInit == Init => OutputsAllowed
<1> SUFFICES ASSUME Init PROVE OutputsAllowed
  OBVIOUS
<1>1. TypeOK
  BY InitType
<1>2. ASSUME NEW n \in Node
      PROVE  result[n] = Pending /\ cache = EmptyCache /\ stored.cache = EmptyCache
  BY DEF Init, NoSnapshot
<1> QED
  BY <1>1, <1>2, PendingAllowed DEF OutputsAllowed

-----------------------------------------------------------------------------
(***************************************************************************)
(* What the operators keep in a forward document when nothing has failed.  *)
(***************************************************************************)

Opened(d, s) == Opening(d) \subseteq s.walked

WaysChosen(d, s) == \A n \in Node : s.chosen[n] \in Ways(d, n) \cup {Unrouted}

\* No node is at two places, each that was started had its inputs, and a
\* skipped node is nobody's input.
Ordered(d, s) ==
    /\ ReadyMayRun(d, s)
    /\ s.skipped \cap Linked(d, Node) = {}
    /\ s.ready \cap s.inProgress = {}
    /\ s.completed \cap (s.ready \cup s.inProgress) = {}
    /\ \A n \in s.inProgress : d.data[n] \subseteq Finished(s)

\* A walked node with all its inputs is not forgotten, and a successor that
\* was left out is finished or an input of other nodes.
Attended(d, s) ==
    /\ \A n \in s.walked \ Finished(s) :
           d.data[n] \subseteq Finished(s) => n \in s.ready \cup s.inProgress
    /\ \A n \in Node : s.chosen[n] # Unrouted =>
           Choices(d, n) \ {s.chosen[n]} \subseteq Finished(s) \cup Linked(d, Node)

LEMMA ControlTypes ==
    ASSUME NEW d \in Document, NEW n \in Node
    PROVE  /\ d.data \in [Node -> SUBSET Node]
           /\ Choices(d, n) \subseteq Node
           /\ Ways(d, n) \subseteq Target
           /\ SuccessorsOf(d, EmptyScheduler, n) \subseteq Node
           /\ Linked(d, Node) \subseteq Node
           /\ \A m \in Node : d.data[m] \subseteq Linked(d, Node)
<1>1. /\ d.next[n] \in Target /\ d.alts[n] \subseteq Node /\ d.branches[n] \subseteq Node
      /\ d.routes[n] \subseteq Target /\ d.data \in [Node -> SUBSET Node]
  BY DEF Document
<1> QED
  BY <1>1 DEF Choices, Ways, SuccessorsOf, EmptyScheduler, Linked, Target

\* What is pruned lies within LeftOut, and control flow does not leave it.
LEMMA PrunedIsLeftOut ==
    ASSUME NEW d \in Document, NEW s \in Scheduler, WaysChosen(d, s)
    PROVE  /\ LeftOut(d) \in SUBSET Node
           /\ \A n \in Node : \A to \in Ways(d, n) : Choices(d, n) \ {to} \subseteq LeftOut(d)
           /\ \A n \in LeftOut(d) : SuccessorsOf(d, s, n) \subseteq LeftOut(d)
<1> DEFINE seeds == UNION {LeftBy(d, n) : n \in Node}
           step == [n \in Node |-> SuccessorsOf(d, EmptyScheduler, n) \cup (Ways(d, n) \ {NoNode})]
<1>1. LeftOut(d) = Walk(seeds, step) /\ LeftOut(d) \in SUBSET Node
  BY WalkNodes DEF LeftOut
<1>2. \A n \in Node : \A to \in Ways(d, n) : Choices(d, n) \ {to} \subseteq seeds
  BY DEF LeftBy
<1>3. seeds \in SUBSET Node
  BY ControlTypes DEF LeftBy
<1>4. step \in [Node -> SUBSET Node]
  BY ControlTypes DEF Target
<1>5. \A n \in Node : SuccessorsOf(d, s, n) \subseteq step[n]
  <2> SUFFICES ASSUME NEW n \in Node PROVE SuccessorsOf(d, s, n) \subseteq step[n]
    OBVIOUS
  <2>1. CASE s.chosen[n] = Unrouted
    BY <2>1 DEF SuccessorsOf, EmptyScheduler
  <2>2. CASE s.chosen[n] # Unrouted
    BY <2>2 DEF SuccessorsOf, WaysChosen
  <2> QED
    BY <2>1, <2>2
<1> HIDE DEF seeds, step
<1>6. seeds \subseteq LeftOut(d) /\ \A n \in LeftOut(d) : step[n] \subseteq LeftOut(d)
  BY <1>1, <1>3, <1>4, WalkClosed
<1> QED
  BY <1>1, <1>2, <1>5, <1>6

\* select_branch.
LEMMA SelectBranchOrder ==
    ASSUME NEW d \in Document, NEW s \in Scheduler, NEW n \in Node, NEW to \in Ways(d, n),
           WaysChosen(d, s), Opened(d, s)
    PROVE  LET u == SelectBranch(d, s, n, to)
           IN  /\ WaysChosen(d, u) /\ Opened(d, u)
               /\ s.completed = u.completed /\ s.inProgress = u.inProgress
               /\ d \in EarlyDocs /\ Ordered(d, s) => Ordered(d, u)
               /\ Attended(d, s) => Attended(d, u)
<1> PICK t : t = [s EXCEPT !.chosen[n] = to]
  OBVIOUS
<1> PICK roots : roots = Choices(d, n) \ {to}
  OBVIOUS
<1> DEFINE u == SelectBranch(d, s, n, to)
<1>0. to \in Target
  BY ControlTypes
<1>1. /\ t \in Scheduler /\ WaysChosen(d, t)
      /\ t.ready = s.ready /\ t.inProgress = s.inProgress /\ t.completed = s.completed
      /\ t.skipped = s.skipped /\ t.walked = s.walked
      /\ t.chosen[n] = to /\ \A m \in Node \ {n} : t.chosen[m] = s.chosen[m]
  BY <1>0 DEF Scheduler, WaysChosen
<1>2. u = SkipSubtrees(d, t, roots)
  BY DEF SelectBranch
<1>3. roots \in SUBSET Node /\ roots \subseteq LeftOut(d)
  BY <1>1, ControlTypes, PrunedIsLeftOut
<1>4. PICK skip \in SUBSET LeftOut(d) : Skips(d, t, roots, skip, SkipSubtrees(d, t, roots))
  <2>1. LeftOut(d) \in SUBSET Node /\ \A m \in LeftOut(d) : SuccessorsOf(d, t, m) \subseteq LeftOut(d)
    BY <1>1, PrunedIsLeftOut
  <2>2. t \in Scheduler /\ roots \in SUBSET Node /\ roots \subseteq LeftOut(d)
    BY <1>1, <1>3
  <2> QED
    BY <2>1, <2>2, SkipSubtreesFacts
<1>5. /\ u.skipped = t.skipped \cup skip /\ u.ready = t.ready \ skip
      /\ u.completed = t.completed /\ u.inProgress = t.inProgress
      /\ u.walked = t.walked /\ u.chosen = t.chosen
  BY <1>2, <1>4 DEF Skips
<1>6. /\ \A m \in skip : m \notin Finished(t) /\ Dependents(d, t, m) = {}
      /\ \A m \in roots : m \in Finished(t) \cup skip \/ Dependents(d, t, m) # {}
  BY <1>4 DEF Skips
<1> HIDE DEF u
<1>7. Finished(u) = Finished(t) \cup skip /\ Finished(t) = Finished(s)
  BY <1>1, <1>5 DEF Finished
<1>8. WaysChosen(d, u) /\ Opened(d, u)
  BY <1>1, <1>5 DEF WaysChosen, Opened
<1>9. ASSUME d \in EarlyDocs, Ordered(d, s)
      PROVE  Ordered(d, u)
  <2>1. skip \cap Linked(d, Node) = {}
    <3> SUFFICES ASSUME NEW m \in skip, m \in Linked(d, Node) PROVE FALSE
      OBVIOUS
    <3>1. m \in Linked(d, Opening(d))
      BY <1>9 DEF EarlyDocs
    <3>2. PICK k \in Opening(d) : m \in d.data[k]
      BY <3>1 DEF Linked
    <3>3. k \in Dependents(d, t, m)
      BY <1>1, <3>2 DEF Opened, Dependents
    <3> QED
      BY <1>6, <3>3
  <2>2. ReadyMayRun(d, u)
    BY <1>1, <1>5, <1>7, <1>9 DEF Ordered, ReadyMayRun
  <2> QED
    BY <1>1, <1>5, <1>7, <1>9, <2>1, <2>2 DEF Ordered
<1>10. ASSUME Attended(d, s)
      PROVE  Attended(d, u)
  <2>1. ASSUME NEW m \in u.walked \ Finished(u), d.data[m] \subseteq Finished(u)
        PROVE  m \in u.ready \cup u.inProgress
    <3>1. d.data[m] \cap skip = {}
      BY <1>6, <1>5, <2>1 DEF Dependents
    <3>2. d.data[m] \subseteq Finished(s) /\ m \in s.walked \ Finished(s) /\ m \notin skip
      BY <1>1, <1>5, <1>7, <2>1, <3>1
    <3> QED
      BY <1>1, <1>5, <1>10, <3>2 DEF Attended
  <2>2. ASSUME NEW m \in Node, u.chosen[m] # Unrouted
        PROVE  Choices(d, m) \ {u.chosen[m]} \subseteq Finished(u) \cup Linked(d, Node)
    <3>1. CASE m = n
      <4>1. \A k \in roots : k \in Finished(u) \/ Dependents(d, t, k) # {}
        BY <1>6, <1>7
      <4>2. \A k \in roots : Dependents(d, t, k) # {} => k \in Linked(d, Node)
        BY <1>1 DEF Dependents, Linked, Scheduler
      <4> QED
        BY <1>1, <1>5, <3>1, <4>1, <4>2
    <3>2. CASE m # n
      BY <1>1, <1>5, <1>7, <1>10, <2>2, <3>2 DEF Attended
    <3> QED
      BY <3>1, <3>2
  <2> QED
    BY <2>1, <2>2 DEF Attended
<1> QED
  BY <1>1, <1>5, <1>8, <1>9, <1>10 DEF u

\* add_node.
LEMMA AddNodesOrder ==
    ASSUME NEW d \in Document, NEW s \in Scheduler, NEW seeds \in SUBSET Node
    PROVE  LET u == AddNodes(d, s, seeds)
           IN  /\ WaysChosen(d, s) => WaysChosen(d, u)
               /\ s.walked \cup Walk(seeds, d.data) \subseteq u.walked
               /\ s.completed = u.completed /\ s.inProgress = u.inProgress
               /\ Ordered(d, s) => Ordered(d, u)
               /\ Attended(d, s) => Attended(d, u)
<1> DEFINE seen == Walk(seeds, d.data)
           t == [s EXCEPT !.walked = @ \cup seen]
           new == {n \in seen \ (s.completed \cup s.inProgress) : RemainingDeps(d, t, n) = {}}
           u == AddNodes(d, s, seeds)
<1>1. u = [t EXCEPT !.ready = @ \cup new]
  BY DEF AddNodes
<1>2. seen \subseteq Node
  BY WalkNodes
<1> HIDE DEF seen
<1>3. /\ t.walked = s.walked \cup seen /\ Finished(t) = Finished(s)
  BY DEF Scheduler, Finished
<1>4. new = {n \in seen \ (s.completed \cup s.inProgress) : d.data[n] \subseteq Finished(s)}
  BY <1>3 DEF RemainingDeps, StrongLinks
<1>5. /\ u.ready = s.ready \cup new /\ u.walked = s.walked \cup seen
      /\ u.completed = s.completed /\ u.inProgress = s.inProgress /\ u.skipped = s.skipped
      /\ u.chosen = s.chosen
  BY <1>1 DEF Scheduler
<1> HIDE DEF new, t, u
<1>6. Finished(u) = Finished(s)
  BY <1>5 DEF Finished
<1>7. ASSUME Ordered(d, s)
      PROVE  Ordered(d, u)
  <2>1. ReadyMayRun(d, u)
    BY <1>4, <1>5, <1>6, <1>7 DEF Ordered, ReadyMayRun
  <2> QED
    BY <1>4, <1>5, <1>6, <1>7, <2>1 DEF Ordered
<1>8. ASSUME Attended(d, s)
      PROVE  Attended(d, u)
  <2>1. ASSUME NEW m \in u.walked \ Finished(u), d.data[m] \subseteq Finished(u)
        PROVE  m \in u.ready \cup u.inProgress
    <3>1. CASE m \in s.walked
      BY <1>5, <1>6, <1>8, <2>1, <3>1 DEF Attended
    <3>2. CASE m \in seen
      BY <1>4, <1>5, <1>6, <2>1, <3>2 DEF Finished
    <3> QED
      BY <1>5, <2>1, <3>1, <3>2
  <2> QED
    BY <1>5, <1>6, <1>8, <2>1 DEF Attended
<1> QED
  BY <1>5, <1>7, <1>8 DEF u, seen, WaysChosen

\* complete_node_execution.
LEMMA CompleteNodeOrder ==
    ASSUME NEW d \in Document, NEW s \in Scheduler, NEW n \in Node
    PROVE  LET u == CompleteNode(d, s, n)
           IN  /\ WaysChosen(d, s) => WaysChosen(d, u)
               /\ u.walked = s.walked
               /\ u.completed = s.completed \cup {n} /\ u.inProgress = s.inProgress \ {n}
               /\ n \in s.inProgress /\ Ordered(d, s) => Ordered(d, u)
               /\ /\ d \in UngatedDocs /\ WaysChosen(d, s) /\ Attended(d, s)
                  => Attended(d, u)
<1> DEFINE t == [s EXCEPT !.inProgress = @ \ {n}, !.completed = @ \cup {n}]
           new == {m \in Dependents(d, t, n) \ Finished(t) :
                     ~PrunedEdge(d, t, n, m) /\ RemainingDeps(d, t, m) = {}}
           u == CompleteNode(d, s, n)
<1>1. u = [t EXCEPT !.ready = @ \cup new]
  BY DEF CompleteNode
<1>2. /\ t.ready = s.ready /\ t.walked = s.walked /\ t.skipped = s.skipped /\ t.chosen = s.chosen
      /\ t.completed = s.completed \cup {n} /\ t.inProgress = s.inProgress \ {n}
      /\ Finished(t) = Finished(s) \cup {n} /\ t \in Scheduler
  BY DEF Scheduler, Finished
<1>3. /\ u.ready = t.ready \cup new /\ u.walked = t.walked /\ u.skipped = t.skipped
      /\ u.chosen = t.chosen /\ u.completed = t.completed /\ u.inProgress = t.inProgress
      /\ Finished(u) = Finished(t)
  BY <1>1, <1>2 DEF Scheduler, Finished
<1> HIDE DEF t, u
<1>4. \A m \in new : m \in s.walked /\ n \in d.data[m] /\ m \notin Finished(t)
                      /\ d.data[m] \subseteq Finished(t)
  BY <1>2 DEF Dependents, RemainingDeps, StrongLinks
<1>5. ASSUME n \in s.inProgress, Ordered(d, s)
      PROVE  Ordered(d, u)
  <2>1. n \notin Finished(s) \/ n \notin Linked(d, Node)
    BY <1>5 DEF Ordered, Finished
  <2>2. new \cap s.inProgress = {}
    <3> SUFFICES ASSUME NEW m \in new, m \in s.inProgress PROVE FALSE
      OBVIOUS
    <3>1. n \in d.data[m] /\ m \in Node
      BY <1>4 DEF Scheduler
    <3>2. n \in Linked(d, Node) /\ n \in Finished(s)
      BY <1>5, <3>1 DEF Linked, Ordered
    <3> QED
      BY <2>1, <3>2
  <2>3. new \cap u.completed = {}
    BY <1>3, <1>4 DEF Finished
  <2>4. ReadyMayRun(d, u)
    BY <1>2, <1>3, <1>4, <1>5 DEF Ordered, ReadyMayRun
  <2> HIDE DEF new
  <2> QED
    BY <1>2, <1>3, <1>5, <2>2, <2>3, <2>4 DEF Ordered
<1>6. ASSUME d \in UngatedDocs, WaysChosen(d, s), Attended(d, s)
      PROVE  Attended(d, u)
  <2>1. ASSUME NEW m \in u.walked \ Finished(u), d.data[m] \subseteq Finished(u)
        PROVE  m \in u.ready \cup u.inProgress
    <3>0. m \in Node /\ m \in s.walked /\ m \notin Finished(s) /\ m # n
      BY <1>2, <1>3, <2>1 DEF Scheduler
    <3>1. CASE n \notin d.data[m]
      <4>1. d.data[m] \subseteq Finished(s)
        BY <1>2, <1>3, <2>1, <3>1
      <4> QED
        BY <1>2, <1>3, <1>6, <3>0, <4>1 DEF Attended
    <3>2. CASE n \in d.data[m]
      <4>1. m \in Dependents(d, t, n) /\ m \notin Finished(t) /\ RemainingDeps(d, t, m) = {}
        BY <1>2, <1>3, <2>1, <3>0, <3>2 DEF Dependents, RemainingDeps, StrongLinks
      <4>2. ~PrunedEdge(d, t, n, m)
        <5> SUFFICES ASSUME PrunedEdge(d, t, n, m) PROVE FALSE
          OBVIOUS
        <5>1. s.chosen[n] # Unrouted /\ m \in Choices(d, n) \ {s.chosen[n]}
          BY <1>2 DEF PrunedEdge
        <5>2. s.chosen[n] \in Ways(d, n)
          BY <1>6, <5>1 DEF WaysChosen
        <5>3. m \in LeftBy(d, n)
          BY <5>1, <5>2 DEF LeftBy
        <5>4. m \in Linked(d, Node)
          BY <1>6, <3>0, <5>1 DEF Attended
        <5> QED
          BY <1>6, <3>2, <5>3, <5>4 DEF UngatedDocs
      <4> QED
        BY <1>3, <4>1, <4>2
    <3> QED
      BY <3>1, <3>2
  <2>2. Finished(s) \subseteq Finished(u) /\ u.chosen = s.chosen
    BY <1>2, <1>3
  <2> HIDE DEF new
  <2> QED
    BY <1>6, <2>1, <2>2 DEF Attended
<1>7. WaysChosen(d, s) => WaysChosen(d, u)
  BY <1>2, <1>3 DEF WaysChosen
<1> QED
  BY <1>2, <1>3, <1>5, <1>6, <1>7 DEF u

\* Applying an output in a forward document: a branch is selected or not, a
\* successor is added or not, and the node is completed.
LEMMA OutputSteps ==
    ASSUME TypeOK, NEW n \in Node, ~LoopSafe(n), MayReturn(n, result[n]),
           result[n].tag \in {"ok", "route"}
    PROVE  \E selected, routed \in Scheduler :
              /\ selected = sched \/ \E to \in Ways(doc, n) : selected = SelectBranch(doc, sched, n, to)
              /\ routed = selected \/ \E m \in Node : routed = AddNodes(doc, selected, {m})
              /\ AfterOutput(n) = CompleteNode(doc, routed, n)
<1> DEFINE routes == result[n].to # NoNode \/ doc.kind[n] = "condition"
           target == IF routes THEN result[n].to ELSE doc.next[n]
           selected == IF routes \/ target # NoNode
                       THEN SelectBranch(doc, sched, n, target) ELSE sched
           routed == IF target # NoNode
                     THEN ReopenOrAdd(doc, selected, target, LoopSafe(n)) ELSE selected
<1>0. doc \in Document /\ sched \in Scheduler /\ doc.next[n] \in Target /\ result[n].to \in Target
  BY DocType DEF TypeOK, Result
<1>1. AfterOutput(n) = CompleteNode(doc, routed, n)
  BY DEF AfterOutput
<1>2. target \in Target /\ (routes \/ target # NoNode => target \in Ways(doc, n))
  <2>1. CASE doc.kind[n] = "condition"
    BY <1>0, <2>1 DEF MayReturn, Ways
  <2>2. CASE doc.kind[n] # "condition"
    BY <1>0, <2>2 DEF MayReturn, Ways
  <2> QED
    BY <2>1, <2>2
<1>3. selected \in Scheduler /\ (selected = sched \/ selected = SelectBranch(doc, sched, n, target))
  BY <1>0, <1>2, SelectBranchFacts DEF Keeps
<1>4. selected = sched \/ \E to \in Ways(doc, n) : selected = SelectBranch(doc, sched, n, to)
  BY <1>2
<1> HIDE DEF selected, target
<1>5. target # NoNode => target \in Node /\ routed = AddNodes(doc, selected, {target})
  BY <1>2 DEF ReopenOrAdd, AddNode, Target
<1>6. target = NoNode => routed = selected
  OBVIOUS
<1> HIDE DEF routed
<1>7. routed \in Scheduler
  <2>1. target # NoNode => {target} \in SUBSET Node
    BY <1>5
  <2> QED
    BY <1>0, <1>3, <1>5, <1>6, <2>1, AddNodesFacts DEF Keeps
<1> QED
  BY <1>1, <1>3, <1>4, <1>5, <1>6, <1>7

LEMMA OutputOrder ==
    ASSUME TypeOK, NEW n \in Node, ~LoopSafe(n), MayReturn(n, result[n]),
           result[n].tag \in {"ok", "route"},
           WaysChosen(doc, sched), Opened(doc, sched)
    PROVE  LET u == AfterOutput(n)
           IN  /\ WaysChosen(doc, u) /\ Opened(doc, u)
               /\ u.completed = sched.completed \cup {n}
               /\ u.inProgress = sched.inProgress \ {n}
               /\ doc \in EarlyDocs /\ n \in sched.inProgress /\ Ordered(doc, sched)
                  => Ordered(doc, u)
               /\ doc \in UngatedDocs /\ Attended(doc, sched) => Attended(doc, u)
<1> DEFINE u == AfterOutput(n)
<1>0. doc \in Document /\ sched \in Scheduler
  BY DocType DEF TypeOK
<1>1. PICK selected, routed \in Scheduler :
        /\ selected = sched \/ \E to \in Ways(doc, n) : selected = SelectBranch(doc, sched, n, to)
        /\ routed = selected \/ \E m \in Node : routed = AddNodes(doc, selected, {m})
        /\ u = CompleteNode(doc, routed, n)
  BY OutputSteps
<1>2. /\ WaysChosen(doc, selected) /\ Opened(doc, selected)
      /\ selected.completed = sched.completed /\ selected.inProgress = sched.inProgress
      /\ doc \in EarlyDocs /\ Ordered(doc, sched) => Ordered(doc, selected)
      /\ Attended(doc, sched) => Attended(doc, selected)
  BY <1>0, <1>1, SelectBranchOrder
<1>3. /\ WaysChosen(doc, routed) /\ Opened(doc, routed)
      /\ routed.completed = sched.completed /\ routed.inProgress = sched.inProgress
      /\ Ordered(doc, selected) => Ordered(doc, routed)
      /\ Attended(doc, selected) => Attended(doc, routed)
  <2>1. CASE routed = selected
    BY <1>2, <2>1
  <2>2. ASSUME NEW m \in Node, routed = AddNodes(doc, selected, {m})
        PROVE  /\ WaysChosen(doc, routed) /\ Opened(doc, routed)
               /\ routed.completed = sched.completed /\ routed.inProgress = sched.inProgress
               /\ Ordered(doc, selected) => Ordered(doc, routed)
               /\ Attended(doc, selected) => Attended(doc, routed)
    <3>1. {m} \in SUBSET Node
      OBVIOUS
    <3> QED
      BY <1>0, <1>2, <2>2, <3>1, AddNodesOrder DEF Opened
  <2> QED
    BY <1>1, <2>1, <2>2
<1> HIDE DEF u
<1>4. /\ WaysChosen(doc, u) /\ u.walked = routed.walked
      /\ u.completed = routed.completed \cup {n} /\ u.inProgress = routed.inProgress \ {n}
      /\ n \in routed.inProgress /\ Ordered(doc, routed) => Ordered(doc, u)
      /\ doc \in UngatedDocs /\ WaysChosen(doc, routed) /\ Attended(doc, routed) => Attended(doc, u)
  BY <1>0, <1>1, <1>3, CompleteNodeOrder
<1> QED
  BY <1>2, <1>3, <1>4 DEF Opened, u

\* The beginning of an attempt, staging, a block and a stop.
LEMMA BeginOrder ==
    ASSUME TypeOK, Begin
    PROVE  /\ WaysChosen(doc, sched') /\ Opened(doc, sched')
           /\ Ordered(doc, sched') /\ Attended(doc, sched')
           /\ sched'.completed = {}
<1>0. doc \in Document /\ doc.outputs \cup {doc.start} \in SUBSET Node
  BY DocType
<1>1. sched' = AddNodes(doc, EmptyScheduler, doc.outputs \cup {doc.start})
  BY DEF Begin
<1>2. WaysChosen(doc, EmptyScheduler)
  BY DEF WaysChosen, EmptyScheduler
<1>3. Ordered(doc, EmptyScheduler)
  BY DEF Ordered, ReadyMayRun, Finished, EmptyScheduler
<1>4. Attended(doc, EmptyScheduler)
  BY DEF Attended, Finished, EmptyScheduler
<1>5. EmptyScheduler.completed = {}
  BY DEF EmptyScheduler
<1> QED
  BY <1>0, <1>1, <1>2, <1>3, <1>4, <1>5, EmptySchedulerType, AddNodesOrder DEF Opened, Opening

LEMMA StageOrder ==
    ASSUME TypeOK, StageBatch
    PROVE  /\ WaysChosen(doc, sched) => WaysChosen(doc, sched')
           /\ Opened(doc, sched) => Opened(doc, sched')
           /\ Ordered(doc, sched) => Ordered(doc, sched')
           /\ Attended(doc, sched) => Attended(doc, sched')
           /\ sched'.completed = sched.completed
           /\ batch' \subseteq sched.ready
           /\ sched'.inProgress = sched.inProgress \cup batch'
<1> DEFINE first == FirstReady(sched, MaxParallelism)
<1>1. sched' = Stage(sched, first) /\ batch' = first
  BY DEF StageBatch
<1>2. first \subseteq sched.ready
  BY DEF FirstReady
<1> HIDE DEF first
<1>3. /\ sched'.ready = sched.ready \ first /\ sched'.inProgress = sched.inProgress \cup first
      /\ sched'.completed = sched.completed /\ sched'.skipped = sched.skipped
      /\ sched'.walked = sched.walked /\ sched'.chosen = sched.chosen
  BY <1>1 DEF Stage, TypeOK, Scheduler
<1>4. Finished(sched') = Finished(sched)
  BY <1>3 DEF Finished
<1>5. Ordered(doc, sched) => Ordered(doc, sched')
  <2> SUFFICES ASSUME Ordered(doc, sched) PROVE Ordered(doc, sched')
    OBVIOUS
  <2>1. ReadyMayRun(doc, sched) /\ ReadyMayRun(doc, sched')
    BY <1>3, <1>4 DEF Ordered, ReadyMayRun
  <2> QED
    BY <1>2, <1>3, <1>4, <2>1 DEF Ordered, ReadyMayRun
<1>6. Attended(doc, sched) => Attended(doc, sched')
  BY <1>3, <1>4 DEF Attended
<1> QED
  BY <1>1, <1>2, <1>3, <1>5, <1>6 DEF WaysChosen, Opened

LEMMA BlockOrder ==
    ASSUME NEW d \in Document, NEW s \in Scheduler, NEW n \in Node
    PROVE  LET u == AddExternalBlock(s, n)
           IN  /\ WaysChosen(d, s) => WaysChosen(d, u)
               /\ Opened(d, s) => Opened(d, u)
               /\ Ordered(d, s) => Ordered(d, u)
               /\ u.completed = s.completed
               /\ u.inProgress = s.inProgress \ {n}
               /\ n \in u.blocked
<1> DEFINE u == AddExternalBlock(s, n)
<1>1. /\ u.ready = s.ready \ {n} /\ u.inProgress = s.inProgress \ {n}
      /\ u.completed = s.completed /\ u.skipped = s.skipped
      /\ u.walked = s.walked /\ u.chosen = s.chosen /\ n \in u.blocked
  BY DEF AddExternalBlock, Scheduler
<1> HIDE DEF u
<1>2. Finished(u) = Finished(s)
  BY <1>1 DEF Finished
<1>3. Ordered(d, s) => Ordered(d, u)
  BY <1>1, <1>2 DEF Ordered, ReadyMayRun
<1> QED
  BY <1>1, <1>3 DEF WaysChosen, Opened, u

LEMMA CancelOrder ==
    ASSUME NEW d \in Document, NEW s \in Scheduler
    PROVE  LET u == CancelList(s)
           IN  /\ WaysChosen(d, s) => WaysChosen(d, u)
               /\ Opened(d, s) => Opened(d, u)
               /\ Ordered(d, s) => Ordered(d, u)
               /\ Attended(d, s) => Attended(d, u)
               /\ u.completed = s.completed /\ u.inProgress = s.inProgress
               /\ u.blocked = s.blocked /\ u.skipped = s.skipped /\ u.ready = s.ready
<1> DEFINE u == CancelList(s)
<1>1. /\ u.ready = s.ready /\ u.inProgress = s.inProgress
      /\ u.completed = s.completed /\ u.skipped = s.skipped
      /\ u.walked = s.walked /\ u.chosen = s.chosen /\ u.blocked = s.blocked
  BY DEF CancelList, Scheduler
<1> HIDE DEF u
<1>2. Finished(u) = Finished(s)
  BY <1>1 DEF Finished
<1> QED
  BY <1>1, <1>2 DEF WaysChosen, Opened, Ordered, Attended, ReadyMayRun, u

-----------------------------------------------------------------------------
(***************************************************************************)
(* A node runs once.  In an attempt in which nothing has failed, what was  *)
(* completed is neither ready nor in progress: what makes a node ready     *)
(* finds its inputs finished, and no node that has dependents is skipped.  *)
(***************************************************************************)

Once ==
    /\ WaysChosen(doc, sched)
    /\ Opened(doc, sched)
    /\ Ordered(doc, sched)
    /\ phase \in {"gather", "apply", "save"} => batch \subseteq sched.inProgress

OnceInv ==
    /\ OutputsAllowed
    /\ phase # "ended" /\ Forward /\ doc \in EarlyDocs /\ errors = {} => Once

\* One step, of an attempt that goes on or of one that begins.
LEMMA OnceStep ==
    ASSUME OnceInv, [Next]_vars, Forward, doc \in EarlyDocs, errors' = {}
    PROVE  /\ phase' # "ended" => Once'
           /\ phase # "ended" => NoneAgain
<1> USE DEF exec, state
<1>0. /\ TypeOK /\ doc' = doc /\ doc \in Document /\ sched \in Scheduler
      /\ \A n \in Node : ~LoopSafe(n) /\ MayReturn(n, result[n])
  BY SameDoc, DocType DEF OnceInv, OutputsAllowed, TypeOK, Forward
<1>1. CASE StartRun \/ Resume
  <2>1. Begin /\ phase = "ended" /\ phase' = "loop"
    BY <1>1 DEF StartRun, Resume, Begin
  <2> QED
    BY <1>0, <2>1, BeginOrder DEF Once
<1>2. CASE phase = "ended" /\ ~(StartRun \/ Resume)
  BY <1>2 DEF Next, Restart, TimeOut, LeaveLoop, StageBatch, Gathered, SaveSnapshot, Finish,
              RunNode, ApplyError, ApplyOutput, ApplyBlock, NextToApply, Cancel, Pause,
              Interruptible, Idle, vars
<1>3. ASSUME phase # "ended"
      PROVE  (phase' # "ended" => Once') /\ NoneAgain
  <2>1. errors = {}
    BY <1>3 DEF Next, StartRun, Resume, Restart, TimeOut, LeaveLoop, StageBatch, Gathered,
              SaveSnapshot, Finish, RunNode, ApplyError, ApplyOutput, ApplyBlock, Cancel,
              Pause, Idle, vars
  <2>2. Once
    BY <1>3, <2>1 DEF OnceInv
  <2>3. CASE TimeOut \/ Cancel
    <3>1. /\ sched' = CancelList(sched)
          /\ \/ phase' = "finish" /\ batch' = {}
             \/ phase' = phase /\ batch' = batch
      BY <2>3 DEF TimeOut, Cancel
    <3> QED
      BY <1>0, <2>2, <3>1, CancelOrder DEF Once, NoneAgain
  <2>4. CASE LeaveLoop \/ Gathered \/ SaveSnapshot \/ Finish \/ Pause \/ UNCHANGED vars
    BY <1>0, <2>2, <2>4 DEF LeaveLoop, Gathered, SaveSnapshot, Finish, Pause, vars, Once,
                          NoneAgain
  <2>5. CASE StageBatch
    <3>1. phase' = "gather"
      BY <2>5 DEF StageBatch
    <3> QED
      BY <1>0, <2>2, <2>5, <3>1, StageOrder DEF Once, NoneAgain, Ordered
  <2>6. ASSUME NEW n \in Node, RunNode(n)
        PROVE  Once' /\ NoneAgain
    BY <1>0, <2>2, <2>6 DEF RunNode, Once, NoneAgain
  <2>7. ASSUME NEW n \in Node, ApplyError(n)
        PROVE  FALSE
    BY <2>7 DEF ApplyError
  <2>8. ASSUME NEW n \in Node, ApplyOutput(n)
        PROVE  Once' /\ NoneAgain
    <3>1. /\ phase = "apply" /\ n \in batch /\ result[n].tag \in {"ok", "route"}
          /\ sched' = AfterOutput(n) /\ batch' = batch \ {n}
      BY <2>8 DEF ApplyOutput, NextToApply, AfterResult
    <3>2. n \in sched.inProgress /\ WaysChosen(doc, sched) /\ Opened(doc, sched)
      BY <2>2, <3>1 DEF Once
    <3>3. ~LoopSafe(n) /\ MayReturn(n, result[n])
      BY <1>0
    <3>4. /\ WaysChosen(doc, sched') /\ Opened(doc, sched') /\ Ordered(doc, sched')
          /\ sched'.completed = sched.completed \cup {n}
          /\ sched'.inProgress = sched.inProgress \ {n}
      BY <1>0, <2>2, <3>1, <3>2, <3>3, OutputOrder DEF Once
    <3> QED
      BY <1>0, <2>2, <3>1, <3>4 DEF Once, NoneAgain
  <2>9. ASSUME NEW n \in Node, ApplyBlock(n)
        PROVE  Once' /\ NoneAgain
    <3>1. phase = "apply" /\ sched' = AddExternalBlock(sched, n) /\ batch' = batch \ {n}
      BY <2>9 DEF ApplyBlock, NextToApply
    <3> QED
      BY <1>0, <2>2, <3>1, BlockOrder DEF Once, NoneAgain
  <2> QED
    BY <1>0, <1>3, <2>3, <2>4, <2>5, <2>6, <2>7, <2>8, <2>9 DEF Next, Idle, StartRun, Resume,
       Restart
<1> QED
  BY <1>1, <1>2, <1>3

LEMMA OnceHolds == Spec => []OnceInv
<1>1. Init => OnceInv
  BY OutputsAllowedInit DEF Init, OnceInv
<1>2. OnceInv /\ [Next]_vars => OnceInv'
  <2> SUFFICES ASSUME OnceInv, [Next]_vars PROVE OnceInv'
    OBVIOUS
  <2>1. OutputsAllowed' /\ doc' = doc
    BY OutputsAllowedStep, SameDoc DEF OnceInv
  <2>2. Forward' => Forward
    BY <2>1 DEF Forward, LoopSafe
  <2> QED
    BY <2>1, <2>2, OnceStep DEF OnceInv
<1> QED
  BY <1>1, <1>2, PTL DEF Spec

\* In a forward document whose links into branches are all found when the
\* run begins, no node runs a second time unless some node fails.
THEOREM RunsOnce == Spec => ForwardRunsOnce
<1> DEFINE Step == phase # "ended" /\ Forward /\ doc \in EarlyDocs /\ errors' = {} => NoneAgain
<1>1. OnceInv /\ [Next]_vars => Step
  BY OnceStep
<1>2. Spec => [][Step]_vars
  BY <1>1, OnceHolds, PTL DEF Spec
<1> QED
  BY <1>2, PTL DEF ForwardRunsOnce

-----------------------------------------------------------------------------
(***************************************************************************)
(* Nothing is left behind.  While nothing has failed and no node blocks,   *)
(* every walked node that has its inputs is ready, in progress or          *)
(* finished; so when the loop runs dry, what is left of the nodes the      *)
(* outputs are computed from waits for itself, and there is no such cycle. *)
(***************************************************************************)

\* With nothing ready or in progress, every output is finished.
LEMMA RunsDry ==
    ASSUME NEW d \in Document, NEW s \in Scheduler, ~HasCycle(d),
           Attended(d, s), Opened(d, s), s.ready \cup s.inProgress = {}
    PROVE  d.outputs \subseteq Finished(s)
<1> DEFINE needed == Walk(d.outputs, d.data)
           left == needed \ Finished(s)
<1>1. d.data \in [Node -> SUBSET Node] /\ d.outputs \in SUBSET Node /\ d.start \in Node
  BY DEF Document
<1>2. d.outputs \subseteq needed /\ \A n \in needed : d.data[n] \subseteq needed
  BY <1>1, WalkClosed
<1>3. needed \subseteq s.walked
  <2>1. /\ Opening(d) \in SUBSET Node
        /\ d.outputs \cup {d.start} \subseteq Opening(d)
        /\ \A n \in Opening(d) : d.data[n] \subseteq Opening(d)
    <3>1. d.outputs \cup {d.start} \in SUBSET Node
      BY <1>1
    <3> QED
      BY <1>1, <3>1, WalkClosed, WalkNodes, Zenon DEF Opening
  <2>2. needed \subseteq Opening(d)
    BY <2>1, WalkLeast
  <2> QED
    BY <2>2 DEF Opened
<1>4. left \in SUBSET needed
  OBVIOUS
<1>5. \A n \in left : d.data[n] \cap left # {}
  <2> SUFFICES ASSUME NEW n \in left PROVE d.data[n] \cap left # {}
    OBVIOUS
  <2>1. ~(d.data[n] \subseteq Finished(s))
    BY <1>3 DEF Attended
  <2> QED
    BY <1>2, <2>1
<1> HIDE DEF needed, left
<1>6. left = {}
  BY <1>4, <1>5 DEF HasCycle, needed
<1> QED
  BY <1>2, <1>6 DEF left

\* The attempt is over or about to be: its status says so.
Halted ==
    phase # "ended" /\ (hasPaused \/ phase = "save" \/ sched.blocked # {})
        => status # "RUNNING"

Watched ==
    /\ WaysChosen(doc, sched)
    /\ Opened(doc, sched)
    /\ Attended(doc, sched)

AttendInv ==
    /\ OutputsAllowed
    /\ LoopInv
    /\ StatusAgrees
    /\ Halted
    /\ Forward /\ doc \in UngatedDocs =>
          /\ phase # "ended" /\ errors = {} /\ sched.blocked = {} => Watched
          /\ phase = "finish" /\ status = "RUNNING" /\ errors = {}
                => doc.outputs \subseteq Finished(sched)
    /\ ForwardOutputsFinished

LEMMA HaltedStep == LoopInv /\ Halted /\ [Next]_vars => Halted'
<1> SUFFICES ASSUME LoopInv, Halted, [Next]_vars PROVE Halted'
  OBVIOUS
<1> USE DEF exec, state
<1>0. TypeOK
  BY DEF LoopInv
<1>1. CASE StartRun \/ Resume
  <2>1. Begin
    BY <1>1 DEF StartRun, Resume
  <2> QED
    BY <1>0, <2>1, BeginIsClean DEF Begin, Halted
<1>2. CASE Restart \/ TimeOut \/ LeaveLoop \/ Gathered \/ SaveSnapshot \/ Finish \/ Cancel
           \/ Pause \/ UNCHANGED vars
  BY <1>2 DEF Restart, TimeOut, LeaveLoop, Gathered, SaveSnapshot, Finish, Cancel, Pause,
              vars, Halted, CancelList
<1>3. CASE StageBatch
  <2>1. sched'.blocked = sched.blocked
    BY <1>0, <1>3, StageFacts DEF StageBatch, TypeOK
  <2> QED
    BY <1>3, <2>1 DEF StageBatch, Halted
<1>4. ASSUME NEW n \in Node, RunNode(n)
      PROVE  Halted'
  BY <1>4 DEF RunNode, Halted
<1>5. ASSUME NEW n \in Node, ApplyError(n) \/ ApplyOutput(n)
      PROVE  Halted'
  <2>1. sched'.blocked = sched.blocked
    BY <1>0, <1>5, AppliedFacts DEF ApplyError, ApplyOutput, Keeps
  <2> QED
    BY <1>5, <2>1 DEF ApplyError, ApplyOutput, NextToApply, AfterResult, Halted
<1>6. ASSUME NEW n \in Node, ApplyBlock(n)
      PROVE  Halted'
  BY <1>6 DEF ApplyBlock, Halted
<1> QED
  BY <1>1, <1>2, <1>3, <1>4, <1>5, <1>6 DEF Next, Idle

\* The scheduler of a forward document in which no link is gated.
LEMMA WatchedStep ==
    ASSUME AttendInv, [Next]_vars, Forward, doc \in UngatedDocs,
           phase' # "ended", errors' = {}, sched'.blocked = {}
    PROVE  Watched'
<1> USE DEF exec, state
<1>0. /\ TypeOK /\ doc' = doc /\ doc \in Document /\ sched \in Scheduler
      /\ \A n \in Node : ~LoopSafe(n) /\ MayReturn(n, result[n])
  BY SameDoc, DocType DEF AttendInv, OutputsAllowed, TypeOK, Forward
<1>1. phase # "ended" /\ errors = {} /\ sched.blocked = {} => Watched
  BY DEF AttendInv
<1>2. CASE StartRun \/ Resume
  <2>1. Begin
    BY <1>2 DEF StartRun, Resume
  <2> QED
    BY <1>0, <2>1, BeginOrder DEF Watched
<1>3. CASE TimeOut \/ Cancel
  <2>1. sched' = CancelList(sched) /\ errors' = errors /\ phase # "ended"
    BY <1>3 DEF TimeOut, Cancel, Interruptible
  <2> QED
    BY <1>0, <1>1, <2>1, CancelOrder DEF Watched
<1>4. CASE StageBatch
  <2>1. sched'.blocked = sched.blocked
    BY <1>0, <1>4, StageFacts DEF StageBatch, TypeOK
  <2>2. phase = "loop" /\ errors' = errors
    BY <1>4 DEF StageBatch
  <2> QED
    BY <1>0, <1>1, <1>4, <2>1, <2>2, StageOrder DEF Watched
<1>5. CASE Restart \/ LeaveLoop \/ Gathered \/ SaveSnapshot \/ Finish \/ Pause \/ UNCHANGED vars
  BY <1>0, <1>1, <1>5 DEF Restart, LeaveLoop, Gathered, SaveSnapshot, Finish, Pause, vars, Watched
<1>6. ASSUME NEW n \in Node, RunNode(n)
      PROVE  Watched'
  BY <1>0, <1>1, <1>6 DEF RunNode, Watched
<1>7. ASSUME NEW n \in Node, ApplyOutput(n)
      PROVE  Watched'
  <2>1. /\ phase = "apply" /\ errors' = errors /\ result[n].tag \in {"ok", "route"}
        /\ sched' = AfterOutput(n)
    BY <1>7 DEF ApplyOutput, NextToApply
  <2>2. sched'.blocked = sched.blocked
    BY <1>0, <2>1, AppliedFacts DEF Keeps
  <2>3. WaysChosen(doc, sched) /\ Opened(doc, sched) /\ Attended(doc, sched)
    BY <1>1, <2>1, <2>2 DEF Watched
  <2>4. ~LoopSafe(n) /\ MayReturn(n, result[n])
    BY <1>0
  <2>5. WaysChosen(doc, sched') /\ Opened(doc, sched') /\ Attended(doc, sched')
    BY <1>0, <2>1, <2>3, <2>4, OutputOrder
  <2> QED
    BY <1>0, <2>5 DEF Watched
<1>8. ASSUME NEW n \in Node, ApplyError(n) \/ ApplyBlock(n)
      PROVE  FALSE
  <2>1. CASE ApplyError(n)
    BY <2>1 DEF ApplyError
  <2>2. CASE ApplyBlock(n)
    BY <1>0, <2>2, BlockOrder DEF ApplyBlock
  <2> QED
    BY <1>8, <2>1, <2>2
<1> QED
  BY <1>2, <1>3, <1>4, <1>5, <1>6, <1>7, <1>8 DEF Next, Idle

\* The loop ends.
LEMMA DryStep ==
    ASSUME AttendInv, [Next]_vars, Forward, doc \in UngatedDocs,
           phase' = "finish", status' = "RUNNING", errors' = {}
    PROVE  doc.outputs \subseteq Finished(sched')
<1> USE DEF exec, state
<1>0. TypeOK /\ doc \in Document /\ sched \in Scheduler /\ doc \in Docs
  BY DocType DEF AttendInv, LoopInv, TypeOK
<1>1. CASE LeaveLoop
  <2>1. /\ phase = "loop" /\ sched' = sched /\ errors' = errors /\ status' = status
        /\ IsDone(sched) \/ sched.ready \cup sched.blocked = {}
    BY <1>1 DEF LeaveLoop
  <2>2. ~sched.cancelled
    BY <2>1 DEF AttendInv, StatusAgrees
  <2>3. sched.inProgress = {} /\ sched.blocked = {}
    BY <2>1 DEF AttendInv, LoopInv, BatchIsInProgress, NeverAwaitsRelease
  <2>4. sched.ready = {}
    BY <2>1, <2>2 DEF IsDone
  <2>5. Watched
    BY <2>1, <2>3 DEF AttendInv
  <2>6. ~HasCycle(doc)
    BY <1>0, NoCycleAssumption
  <2> QED
    BY <1>0, <2>1, <2>3, <2>4, <2>5, <2>6, RunsDry DEF Watched
<1>2. ASSUME phase = "finish", sched' = sched, errors' = errors, status' = status
      PROVE  doc.outputs \subseteq Finished(sched')
  BY <1>2 DEF AttendInv
<1>3. CASE StartRun \/ Resume \/ Restart \/ TimeOut \/ StageBatch \/ Gathered \/ Finish
           \/ Cancel \/ Pause
  BY <1>3 DEF StartRun, Resume, Restart, Begin, TimeOut, StageBatch, Gathered, Finish,
              Cancel, Pause, Interruptible
<1>4. CASE SaveSnapshot
  BY <1>4 DEF SaveSnapshot, AttendInv, Halted
<1>5. ASSUME NEW n \in Node, RunNode(n) \/ ApplyError(n) \/ ApplyOutput(n) \/ ApplyBlock(n)
      PROVE  FALSE
  BY <1>5 DEF RunNode, ApplyError, ApplyOutput, ApplyBlock, NextToApply, AfterResult,
              AttendInv, Halted
<1>6. CASE UNCHANGED vars
  BY <1>2, <1>6 DEF vars
<1> QED
  BY <1>1, <1>3, <1>4, <1>5, <1>6 DEF Next, Idle

LEMMA AttendStep == AttendInv /\ [Next]_vars => AttendInv'
<1> SUFFICES ASSUME AttendInv, [Next]_vars PROVE AttendInv'
  OBVIOUS
<1> USE DEF exec, state
<1>1. OutputsAllowed' /\ LoopInv' /\ Halted' /\ doc' = doc
  BY OutputsAllowedStep, LoopStep, HaltedStep, SameDoc DEF AttendInv
<1>2. StatusAgrees'
  BY RunStep DEF RunInv, AttendInv, LoopInv
<1>3. (Forward' <=> Forward) /\ UngatedDocs' = UngatedDocs
  BY <1>1 DEF Forward, LoopSafe, UngatedDocs
<1>4. ASSUME Forward, doc \in UngatedDocs
      PROVE  /\ phase' # "ended" /\ errors' = {} /\ sched'.blocked = {} => Watched'
             /\ phase' = "finish" /\ status' = "RUNNING" /\ errors' = {}
                   => doc'.outputs \subseteq Finished(sched')
  BY <1>1, <1>4, WatchedStep, DryStep
<1>5. ForwardOutputsFinished'
  <2> SUFFICES ASSUME phase' = "ended", status' = "COMPLETED", Forward, doc \in UngatedDocs
               PROVE  errors' = {} /\ doc.outputs \subseteq Finished(sched')
    BY <1>1, <1>3 DEF ForwardOutputsFinished, OutputsFinished
  <2>1. CASE Finish
    <3>1. /\ phase = "finish" /\ sched' = sched /\ errors' = errors
          /\ status' = FinalStatus(status, errors # {})
      BY <2>1 DEF Finish
    <3>2. status \in {"RUNNING", "CANCELLED", "TIMEOUT"} \cup Suspended
      BY <3>1 DEF AttendInv, StatusAgrees
    <3>3. errors = {} /\ status = "RUNNING"
      BY <3>1, <3>2 DEF FinalStatus, Suspended
    <3> QED
      BY <3>1, <3>3 DEF AttendInv
  <2>2. ASSUME ~Finish
        PROVE  phase = "ended" /\ status' = status /\ sched' = sched /\ errors' = errors
    BY <2>2 DEF Next, StartRun, Resume, Begin, Restart, TimeOut, LeaveLoop, StageBatch, Gathered,
                SaveSnapshot, RunNode, ApplyError, ApplyOutput, ApplyBlock, NextToApply,
                AfterResult, Cancel, Pause, Interruptible, Idle, vars
  <2> QED
    BY <2>1, <2>2 DEF AttendInv, ForwardOutputsFinished, OutputsFinished
<1> QED
  BY <1>1, <1>2, <1>3, <1>4, <1>5 DEF AttendInv

\* A run of a forward document in which no link is gated by the node it
\* comes from ends COMPLETED only when every output node has run or was
\* routed away from.
THEOREM OutputsDelivered == Spec => []ForwardOutputsFinished
<1>1. Init => AttendInv
  BY OutputsAllowedInit, InitType
     DEF Init, AttendInv, LoopInv, NeverAwaitsRelease, BlockSetsPaused, BatchIsInProgress,
         StatusAgrees, Halted, ForwardOutputsFinished
<1>2. AttendInv => ForwardOutputsFinished
  BY DEF AttendInv
<1> QED
  BY <1>1, <1>2, AttendStep, PTL DEF Spec

-----------------------------------------------------------------------------
(***************************************************************************)
(* The output cache.  With the classic cache every output that was or will *)
(* be applied is in memory, and from the moment the snapshot of a blocked  *)
(* node is written it is in the snapshot too: the other nodes of the batch *)
(* have returned before the first result is applied.                       *)
(***************************************************************************)

\* Applying a result completes no other node.
LEMMA AppliedCompleted ==
    ASSUME TypeOK, NEW n \in Node
    PROVE  /\ AfterError(n).completed \subseteq sched.completed
           /\ AfterOutput(n).completed \subseteq sched.completed \cup {n}
<1>1. ASSUME NEW d \in Document, NEW s \in Scheduler, NEW seeds \in SUBSET Node
      PROVE  AddNodes(d, s, seeds).completed = s.completed
  BY <1>1, AddNodesOrder
<1>2. ASSUME NEW d \in Document, NEW s \in Scheduler, NEW m \in Node, NEW to \in Target
      PROVE  SelectBranch(d, s, m, to).completed = s.completed
  BY DEF SelectBranch, SkipSubtrees, Scheduler
<1>3. ASSUME NEW d \in Document, NEW s \in Scheduler, NEW m \in Node, NEW allowed \in BOOLEAN
      PROVE  ReopenOrAdd(d, s, m, allowed).completed \subseteq s.completed
  <2>1. \E t \in Scheduler : t.completed \subseteq s.completed /\ Reopen(d, s, m) = AddNode(d, t, m)
    <3> DEFINE again == [k \in Node |->
                           (SuccessorsOf(d, s, k) \cup Dependents(d, s, k)) \cap Finished(s)]
               reset == Walk({m}, again)
               t == [s EXCEPT !.completed = @ \ reset, !.skipped = @ \ reset,
                              !.ready = @ \ reset, !.inProgress = @ \ reset]
    <3>1. Reopen(d, s, m) = AddNode(d, t, m)
      BY DEF Reopen
    <3> HIDE DEF reset
    <3>2. t \in Scheduler /\ t.completed \subseteq s.completed
      BY DEF Scheduler
    <3> HIDE DEF t
    <3> QED
      BY <3>1, <3>2
  <2>2. {m} \in SUBSET Node
    OBVIOUS
  <2>3. \A t \in Scheduler : AddNode(d, t, m).completed = t.completed
    BY <1>1, <2>2 DEF AddNode
  <2> QED
    BY <2>1, <2>3 DEF ReopenOrAdd
<1>4. ASSUME NEW d \in Document, NEW s \in Scheduler, NEW m \in Node
      PROVE  CompleteNode(d, s, m).completed = s.completed \cup {m}
  BY CompleteNodeOrder
<1>5. doc \in Document /\ sched \in Scheduler /\ doc.handler[n] \in Target
      /\ doc.next[n] \in Target /\ result[n].to \in Target
  BY DocType DEF TypeOK, Result
<1>6. AfterError(n).completed \subseteq sched.completed
  <2> PICK failed : failed = FailNode(sched, n)
    OBVIOUS
  <2> PICK routed : routed = SelectBranch(doc, failed, n, doc.handler[n])
    OBVIOUS
  <2>1. failed \in Scheduler /\ failed.completed = sched.completed
    BY <1>5 DEF FailNode, Scheduler
  <2>2. routed \in Scheduler /\ routed.completed = sched.completed
    BY <1>2, <1>5, <2>1, SelectBranchFacts DEF Keeps
  <2>3. doc.handler[n] # NoNode => {doc.handler[n]} \in SUBSET Node
    BY <1>5 DEF Target
  <2>4. doc.handler[n] # NoNode => AddNode(doc, routed, doc.handler[n]).completed = sched.completed
    BY <1>1, <1>5, <2>2, <2>3 DEF AddNode
  <2> QED
    BY <2>1, <2>4 DEF AfterError
<1>7. AfterOutput(n).completed \subseteq sched.completed \cup {n}
  <2> DEFINE routes == result[n].to # NoNode \/ doc.kind[n] = "condition"
             target == IF routes THEN result[n].to ELSE doc.next[n]
             selected == IF routes \/ target # NoNode
                         THEN SelectBranch(doc, sched, n, target) ELSE sched
             routed == IF target # NoNode
                       THEN ReopenOrAdd(doc, selected, target, LoopSafe(n)) ELSE selected
  <2>1. target \in Target /\ LoopSafe(n) \in BOOLEAN
    BY <1>5 DEF LoopSafe
  <2>2. AfterOutput(n) = CompleteNode(doc, routed, n)
    BY DEF AfterOutput
  <2> HIDE DEF target
  <2>3. selected \in Scheduler /\ selected.completed = sched.completed
    BY <1>2, <1>5, <2>1, SelectBranchFacts DEF Keeps
  <2> HIDE DEF selected
  <2>4. target # NoNode => target \in Node
    BY <2>1 DEF Target
  <2>5. routed \in Scheduler /\ routed.completed \subseteq selected.completed
    BY <1>3, <1>5, <2>1, <2>3, <2>4, ReopenOrAddFacts DEF Keeps
  <2> HIDE DEF routed
  <2> QED
    BY <1>4, <1>5, <2>2, <2>3, <2>5
<1> QED
  BY <1>6, <1>7

\* The outputs in c stand for what has been completed, or is about to be.
Replays(c) == \A n \in sched.completed \cap doc.cacheable : c[n].tag # "pending"

ReplaysBatch(c) ==
    \A n \in batch \cap doc.cacheable :
        result[n].tag \in {"ok", "route"} => c[n].tag # "pending"

CacheInv ==
    /\ LoopInv
    /\ phase # "ended" => inMemory
    /\ inMemory => Replays(cache)
    /\ phase \in {"gather", "apply", "save"} => ReplaysBatch(cache)
    /\ sched.blocked # {} /\ phase # "save" => Replays(stored.cache)
    /\ sched.blocked # {} /\ phase = "apply" => ReplaysBatch(stored.cache)

LEMMA CacheStep ==
    ASSUME CacheMode = "classic", CacheInv, [Next]_vars
    PROVE  CacheInv'
<1> USE DEF exec, state
<1>0. TypeOK /\ doc' = doc /\ LoopInv /\ LoopInv'
  BY LoopStep, SameDoc DEF CacheInv, LoopInv
<1>1. CASE StartRun \/ Resume
  <2>1. Begin /\ inMemory'
    BY <1>1 DEF StartRun, Resume
  <2>2. sched'.completed = {} /\ sched'.blocked = {} /\ phase' = "loop"
    BY <1>0, <2>1, BeginOrder, BeginIsClean
  <2> QED
    BY <1>0, <2>1, <2>2 DEF CacheInv, Replays
<1>2. CASE Restart
  BY <1>0, <1>2 DEF Restart, CacheInv, Replays
<1>3. CASE TimeOut
  <2>1. /\ sched' = CancelList(sched) /\ phase \in {"loop", "gather"} /\ phase' = "finish"
        /\ cache' = cache /\ inMemory' = inMemory
    BY <1>3 DEF TimeOut
  <2>2. sched'.blocked = {} /\ sched'.completed = sched.completed
    BY <1>0, <2>1 DEF LoopInv, NeverAwaitsRelease, CancelList, TypeOK, Scheduler
  <2> QED
    BY <1>0, <2>1, <2>2 DEF CacheInv, Replays
<1>4. CASE Cancel
  <2>1. sched'.blocked = sched.blocked /\ sched'.completed = sched.completed
    BY <1>0, <1>4 DEF Cancel, CancelList, TypeOK, Scheduler
  <2> QED
    BY <1>0, <1>4, <2>1 DEF Cancel, CacheInv, Replays, ReplaysBatch
<1>5. CASE LeaveLoop \/ Gathered \/ Finish \/ Pause \/ UNCHANGED vars
  <2>1. /\ sched' = sched /\ batch' = batch /\ result' = result /\ cache' = cache
        /\ stored' = stored /\ inMemory' = inMemory
        /\ \/ phase' = phase
           \/ phase \in {"loop", "finish"} /\ phase' \in {"finish", "ended"}
           \/ phase = "gather" /\ phase' = "apply"
    BY <1>5 DEF LeaveLoop, Gathered, Finish, Pause, vars
  <2>2. phase \in {"loop", "gather"} => sched.blocked = {}
    BY <1>0 DEF LoopInv, NeverAwaitsRelease
  <2> QED
    BY <1>0, <2>1, <2>2, <1>5 DEF CacheInv, Replays, ReplaysBatch, Finish, LeaveLoop
<1>6. CASE StageBatch
  <2>1. /\ sched'.blocked = sched.blocked /\ sched'.completed = sched.completed
        /\ batch' \subseteq Node
    BY <1>0, <1>6, StageFacts, StageOrder DEF StageBatch, TypeOK
  <2>2. /\ phase = "loop" /\ phase' = "gather" /\ result' = [n \in Node |-> Pending]
        /\ cache' = cache /\ stored' = stored /\ inMemory' = inMemory
    BY <1>6 DEF StageBatch
  <2>3. \A n \in Node : result'[n].tag = "pending"
    BY <2>2 DEF Pending
  <2> QED
    BY <1>0, <2>1, <2>2, <2>3 DEF CacheInv, Replays, ReplaysBatch
<1>7. CASE SaveSnapshot
  <2>1. /\ phase = "save" /\ phase' # "save" /\ stored'.cache = cache
        /\ phase' \in {"apply", "finish"}
        /\ UNCHANGED <<sched, batch, result, cache, inMemory>>
    BY <1>7 DEF SaveSnapshot
  <2> QED
    BY <1>0, <2>1 DEF CacheInv, Replays, ReplaysBatch
<1>8. ASSUME NEW n \in Node, RunNode(n)
      PROVE  CacheInv'
  <2>1. /\ phase = "gather" /\ phase' = phase /\ inMemory' = inMemory
        /\ UNCHANGED <<sched, batch, stored>>
    BY <1>8 DEF RunNode
  <2>2. PICK r \in IF Cached(n) THEN {cache[n]}
                   ELSE Outputs(n) \cup {Returned("error", NoNode)} :
            /\ result' = [result EXCEPT ![n] = r]
            /\ IF ~Cached(n) /\ n \in doc.cacheable /\ CacheMode # "none"
                  /\ r.tag \in {"ok", "route"}
               THEN cache' = [cache EXCEPT ![n] = r]
               ELSE UNCHANGED cache
    BY <1>8 DEF RunNode
  <2>3. result \in [Node -> Result] /\ cache \in [Node -> Result] /\ batch \subseteq Node
    BY <1>0 DEF TypeOK
  <2>4. \A m \in Node : cache[m].tag # "pending" => cache'[m].tag # "pending"
    BY <2>2, <2>3
  <2>5. n \in doc.cacheable /\ r.tag \in {"ok", "route"} => cache'[n].tag # "pending"
    <3>1. CASE Cached(n)
      BY <2>2, <3>1 DEF Cached
    <3>2. CASE ~Cached(n)
      BY <2>2, <2>3, <3>2
    <3> QED
      BY <3>1, <3>2
  <2>6. ReplaysBatch(cache)'
    <3>1. \A m \in batch : m # n => result'[m] = result[m]
      BY <2>2, <2>3
    <3>2. result'[n] = r
      BY <2>2, <2>3
    <3> QED
      BY <1>0, <2>1, <2>3, <2>4, <2>5, <3>1, <3>2 DEF CacheInv, ReplaysBatch
  <2>7. sched.completed \subseteq Node
    BY <1>0 DEF TypeOK, Scheduler
  <2>8. Replays(cache)'
    BY <1>0, <2>1, <2>4, <2>7 DEF CacheInv, Replays
  <2>9. sched.blocked = {}
    BY <1>0, <2>1 DEF LoopInv, NeverAwaitsRelease
  <2> QED
    BY <1>0, <2>1, <2>6, <2>8, <2>9 DEF CacheInv
<1>9. ASSUME NEW n \in Node, ApplyError(n)
      PROVE  CacheInv'
  <2>1. /\ phase = "apply" /\ phase' \in {"apply", "finish", "loop"} /\ batch' = batch \ {n}
        /\ sched' = AfterError(n)
        /\ UNCHANGED <<result, cache, stored, inMemory>>
    BY <1>9 DEF ApplyError, NextToApply, AfterResult
  <2>2. sched'.completed \subseteq sched.completed /\ sched'.blocked = sched.blocked
    BY <1>0, <2>1, AppliedCompleted, AppliedFacts DEF Keeps
  <2> QED
    BY <1>0, <2>1, <2>2 DEF CacheInv, Replays, ReplaysBatch
<1>10. ASSUME NEW n \in Node, ApplyOutput(n)
      PROVE  CacheInv'
  <2>1. /\ phase = "apply" /\ phase' \in {"apply", "finish", "loop"} /\ batch' = batch \ {n}
        /\ n \in batch /\ result[n].tag \in {"ok", "route"} /\ sched' = AfterOutput(n)
        /\ UNCHANGED <<result, cache, stored, inMemory>>
    BY <1>10 DEF ApplyOutput, NextToApply, AfterResult
  <2>2. sched'.completed \subseteq sched.completed \cup {n} /\ sched'.blocked = sched.blocked
    BY <1>0, <2>1, AppliedCompleted, AppliedFacts DEF Keeps
  <2> QED
    BY <1>0, <2>1, <2>2 DEF CacheInv, Replays, ReplaysBatch
<1>11. ASSUME NEW n \in Node, ApplyBlock(n)
      PROVE  CacheInv'
  <2>1. /\ phase = "apply" /\ phase' = "save" /\ batch' = batch \ {n}
        /\ sched' = AddExternalBlock(sched, n)
        /\ UNCHANGED <<result, cache, stored, inMemory>>
    BY <1>11 DEF ApplyBlock, NextToApply
  <2>2. sched'.completed = sched.completed
    BY <1>0, <2>1 DEF AddExternalBlock, TypeOK, Scheduler
  <2> QED
    BY <1>0, <2>1, <2>2 DEF CacheInv, Replays, ReplaysBatch
<1> QED
  BY <1>1, <1>2, <1>3, <1>4, <1>5, <1>6, <1>7, <1>8, <1>9, <1>10, <1>11 DEF Next, Idle

\* With the classic cache, a resume of a run that stopped at a blocked node
\* finds each cacheable node that had completed in the output cache, after a
\* restart of the process too: none of them is computed again.
THEOREM ResumeReplays ==
    ASSUME CacheMode = "classic"
    PROVE  Spec => ResumeSkipsComputed
<1> DEFINE Found == Resume /\ sched.blocked # {} =>
                        \A n \in sched.completed \cap doc.cacheable : cache'[n].tag # "pending"
<1>1. Init => CacheInv
  BY InitType DEF Init, CacheInv, LoopInv, NeverAwaitsRelease, BlockSetsPaused,
                  BatchIsInProgress, Replays, EmptyScheduler
<1>2. CacheInv /\ [Next]_vars => CacheInv'
  BY CacheStep
<1>3. CacheInv /\ [Next]_vars => Found
  BY DEF CacheInv, Replays, Resume
<1>4. Spec => [][Found]_vars
  BY <1>1, <1>2, <1>3, PTL DEF Spec
<1> QED
  BY <1>4, PTL DEF ResumeSkipsComputed
=============================================================================
