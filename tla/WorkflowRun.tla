----------------------------- MODULE WorkflowRun -----------------------------
(***************************************************************************)
(* What a workflow executor promises its caller about one run at a time,   *)
(* without nodes, batches or queues: a run starts or is resumed, may be    *)
(* told to stop (a cancel or the deadline), nodes of it may fail, and it   *)
(* ends with an outcome that tells the truth about all that.               *)
(***************************************************************************)
EXTENDS Naturals, RunStatus

VARIABLES
    running,    \* a run is in progress
    outcome,    \* "RUNNING", or what the last run reported
    stopped,    \* the run was told to stop
    failed,     \* a node of the run failed
    runs        \* fresh runs so far

vars == <<running, outcome, stopped, failed, runs>>

Init ==
    /\ running = FALSE
    /\ outcome = "PENDING"
    /\ stopped = FALSE
    /\ failed = FALSE
    /\ runs = 0

Begin ==
    /\ ~running
    /\ running' = TRUE
    /\ outcome' = "RUNNING"
    /\ stopped' = FALSE
    /\ failed' = FALSE

Start == Begin /\ runs' = runs + 1

\* Only a suspended run can be taken up again.
Resume == outcome \in Suspended /\ Begin /\ runs' = runs

Stop ==
    /\ running
    /\ stopped' = TRUE
    /\ UNCHANGED <<running, outcome, failed, runs>>

Fail ==
    /\ running
    /\ failed' = TRUE
    /\ UNCHANGED <<running, outcome, stopped, runs>>

\* The outcomes that tell the truth.
Truthful(o) ==
    /\ o = "COMPLETED" => ~stopped /\ ~failed
    /\ o = "FAILED" => failed
    /\ o \in {"CANCELLED", "TIMEOUT"} => stopped
    /\ o \in Suspended \cup {"CANCELLED"} => ~failed

End ==
    /\ running
    /\ \E o \in Terminal \cup Suspended : Truthful(o) /\ outcome' = o
    /\ running' = FALSE
    /\ UNCHANGED <<stopped, failed, runs>>

Next == Start \/ Resume \/ Stop \/ Fail \/ End

Spec == Init /\ [][Next]_vars
=============================================================================
