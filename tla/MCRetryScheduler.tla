-------------------------- MODULE MCRetryScheduler --------------------------
EXTENDS RetryScheduler
CONSTANTS o1, o2, b1
=============================================================================
