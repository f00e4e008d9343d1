--------------------------- MODULE MCHistoryFile ---------------------------
\* HistoryFile with the timer's run, a manual one and the next timer's.
EXTENDS HistoryFile, TLC

Symmetry == Permutations(Runs)
=============================================================================
