----------------------------- MODULE MCSession -----------------------------
EXTENDS SessionProperties

CONSTANTS t1, t2, r1, r2
=============================================================================
