--------------------------- MODULE MCAnalysisJobs ---------------------------
EXTENDS AnalysisJobs, TLC

\* Job ids and requests only differ by name.
Symmetry == Permutations(Job) \cup Permutations(Request)
=============================================================================
