-------------------------- MODULE MCWorkflowService --------------------------
\* Small instances of WorkflowService: the tasks are interchangeable, and
\* so are the requests (symmetry is used in the runs without liveness only).
EXTENDS WorkflowService, TLC

Symmetry == Permutations(Task) \cup Permutations(Request)
=============================================================================
