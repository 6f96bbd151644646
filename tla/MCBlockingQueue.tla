--------------------------- MODULE MCBlockingQueue ---------------------------
EXTENDS BlockingQueue

\* The two drop policies, a queue that fills up and one that never does.
MCSizes == {0, 2}
MCPolicies == {"drop_oldest", "drop_newest"}
=============================================================================
