------------------------- MODULE MCSessionManager -------------------------
\* Small instances of SessionManager for TLC.
EXTENDS SessionManager

CONSTANTS u1, u2, s1, s2, t1, t2
============================================================================
