----------------------------- MODULE MCRunLock -----------------------------
\* RunLock with a handful of one-shot runs: the timer's, a manual one and
\* a test one.  Runs are interchangeable.
EXTENDS RunLock, TLC

Symmetry == Permutations(Runs)
=============================================================================
