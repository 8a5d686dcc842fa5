------------------------------ MODULE MCOutbox ------------------------------
EXTENDS RealtimeOutbox
=============================================================================
