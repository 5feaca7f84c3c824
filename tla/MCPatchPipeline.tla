--------------------------- MODULE MCPatchPipeline ---------------------------
EXTENDS RedBlue

=============================================================================
