---------------------------- MODULE MCResultStore ----------------------------
EXTENDS ResultStore, TLC

\* Sessions of one kind only differ by name.
Symmetry == Permutations(Memory) \cup Permutations(Celery)
=============================================================================
