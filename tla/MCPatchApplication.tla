------------------------- MODULE MCPatchApplication -------------------------
EXTENDS PatchApplication, TLC

CONSTANTS f1, f2, v1

MCVulnOf == [f \in Fix |-> v1]

Symmetry == Permutations(Fix)

=============================================================================
