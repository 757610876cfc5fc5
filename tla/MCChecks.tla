------------------------------ MODULE MCChecks ------------------------------
EXTENDS Checks, TLC

\* No operator chooses among the workers, and the run checks no liveness.
Symmetry == Permutations(Workers)
=============================================================================
