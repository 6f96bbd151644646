----------------------------- MODULE MCPlayback -----------------------------
EXTENDS Playback

=============================================================================
