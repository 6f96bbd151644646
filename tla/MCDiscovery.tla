---------------------------- MODULE MCDiscovery ----------------------------
EXTENDS Discovery

=============================================================================
