---------------------------- MODULE MCMicBuffer ----------------------------
EXTENDS MicBuffer
=============================================================================
