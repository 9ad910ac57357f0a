------------------------------ MODULE RunStatus ------------------------------
(***************************************************************************)
(* The statuses of a workflow run (WorkflowStatus of workflow/base.py) and *)
(* the verdict WorkflowExecutor.execute_async reaches at its end.          *)
(***************************************************************************)

Status == {"PENDING", "RUNNING", "COMPLETED", "FAILED", "TIMEOUT",
           "CANCELLED", "WAITING_HUMAN", "PAUSED"}

\* The statuses a run can be resumed from.
Suspended == {"WAITING_HUMAN", "PAUSED"}

Terminal == {"COMPLETED", "FAILED", "TIMEOUT", "CANCELLED"}

\* Mutant of FinalStatus: a stop or a pause takes precedence over errors.
FinalStatusStopFirst(status, failed) ==
    CASE status \in Suspended \cup {"TIMEOUT", "CANCELLED"} -> status
      [] status \notin Suspended \cup {"TIMEOUT", "CANCELLED"} ->
            IF failed THEN "FAILED" ELSE "COMPLETED"

\* The status of a run whose loop is over: `status' is what the run and the
\* controls left in the state, `failed' says whether errors_list holds any.
FinalStatus(status, failed) ==
    CASE status = "TIMEOUT" -> "TIMEOUT"
      [] status # "TIMEOUT" /\ failed -> "FAILED"
      [] status \in Suspended \cup {"CANCELLED"} /\ ~failed -> status
      [] OTHER -> "COMPLETED"
=============================================================================
