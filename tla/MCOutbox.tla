------------------------------ MODULE MCOutbox ------------------------------
EXTENDS OutboxRelay

CONSTANTS r1, r2
=============================================================================
