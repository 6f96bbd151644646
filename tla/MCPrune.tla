------------------------------ MODULE MCPrune ------------------------------
EXTENDS Prune

=============================================================================
