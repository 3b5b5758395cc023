--------------------------- MODULE MCJobRecovery ---------------------------
\* A job whose record is read by the next session while its recovery task delivers it.
EXTENDS MCJobLifecycle, JobRecovery
=============================================================================
