----------------------------- MODULE MCRetryLoop -----------------------------
EXTENDS RetryLoop

\* A user call and a wakeup of one job.
CONSTANTS j1, u1, w1
=============================================================================
