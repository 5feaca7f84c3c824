---------------------------- MODULE MCCeleryJobs ----------------------------
EXTENDS CeleryJobs, TLC

\* Tasks and threads only differ by name.
Symmetry == Permutations(Job) \cup Permutations(Reader)
=============================================================================
