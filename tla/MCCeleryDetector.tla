-------------------------- MODULE MCCeleryDetector --------------------------
EXTENDS CeleryDetector, TLC

\* Threads only differ by name.
Symmetry == Permutations(Caller)
=============================================================================
