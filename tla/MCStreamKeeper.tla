--------------------------- MODULE MCStreamKeeper ---------------------------
EXTENDS StreamKeeper

=============================================================================
