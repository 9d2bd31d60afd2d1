--------------------------- MODULE MCCheckQueue ---------------------------
\* An instance of the check queue for TLC: two workers and the master, and four
\* checks, so that a batch of two occurs.  No symmetry: it is unsound for the
\* liveness property of the run.
EXTENDS CheckQueue

CONSTANTS w1, w2, m, c1, c2, c3, c4

MCWorkers == {w1, w2}
MCChecks  == {c1, c2, c3, c4}
=============================================================================
