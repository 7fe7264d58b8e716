---------------------------- MODULE MCStreamPump ----------------------------
EXTENDS StreamPump
=============================================================================
