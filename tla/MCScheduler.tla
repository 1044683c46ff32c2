----------------------------- MODULE MCScheduler -----------------------------
EXTENDS Scheduler
CONSTANT v
=============================================================================
