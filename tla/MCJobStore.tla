----------------------------- MODULE MCJobStore -----------------------------
EXTENDS JobStore, TLC

\* Job ids and requests only differ by name.
Symmetry == Permutations(Job) \cup Permutations(Request)
=============================================================================
