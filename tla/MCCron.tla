-------------------------------- MODULE MCCron --------------------------------
\* Small instances of Cron, where runs are alike.
EXTENDS Cron, TLC

Symmetric == Permutations(Run)
===============================================================================
