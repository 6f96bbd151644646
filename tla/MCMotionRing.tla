--------------------------- MODULE MCMotionRing ----------------------------
EXTENDS MotionRing

=============================================================================
