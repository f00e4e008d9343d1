--------------------------- MODULE MCAutomigrate ---------------------------
\* Small instances of Automigrate.
EXTENDS Automigrate, TLC

\* Guests that no configuration tells apart are interchangeable, and so are
\* the nodes that are not in maintenance.
Symmetry == Permutations(Nodes \ MaintenanceNodes) \cup Permutations(Guests \ Protected)
=============================================================================
