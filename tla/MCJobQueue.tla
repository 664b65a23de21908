---------------------------- MODULE MCJobQueue ----------------------------
\* Two jobs, two worker processes, a batch of up to two and a budget of two
\* deliveries: enough for a stale worker to settle a row another one holds.
EXTENDS JobQueue

CONSTANTS j1, j2, w1, w2

MCJobs    == {j1, j2}
MCWorkers == {w1, w2}

===========================================================================
