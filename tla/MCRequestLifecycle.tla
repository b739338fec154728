-------------------------- MODULE MCRequestLifecycle --------------------------
\* Instances of RequestLifecycle for TLC.
EXTENDS RequestLifecycle

CONSTANTS r1, r2
=============================================================================
