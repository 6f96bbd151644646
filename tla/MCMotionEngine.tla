-------------------------- MODULE MCMotionEngine ---------------------------
EXTENDS MotionEngine

=============================================================================
