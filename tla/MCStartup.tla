----------------------------- MODULE MCStartup -----------------------------
EXTENDS Startup

CONSTANTS s1, s2
=============================================================================
