---------------------------- MODULE MCMotionPlugin ----------------------------
EXTENDS MotionPlugin

=============================================================================
