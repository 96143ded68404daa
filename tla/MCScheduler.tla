----------------------------- MODULE MCScheduler -----------------------------
EXTENDS Scheduler

CONSTANTS c1, c2

===============================================================================
