----------------------------- MODULE MCWatchdog -----------------------------
EXTENDS Watchdog

CONSTANTS base, c1, c2
=============================================================================
