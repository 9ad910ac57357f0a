---------------------------- MODULE MCTaskManager ----------------------------
\* Small instances of TaskManager: one durable task, one that is not, a run
\* for each start and for each recovery.
EXTENDS TaskManager
=============================================================================
