----------------------------- MODULE MCLimiter -----------------------------
EXTENDS SteppedClock, TLC

Symmetric == Permutations(Senders)
=============================================================================
