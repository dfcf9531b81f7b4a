---------------------------- MODULE MCPoolStartup ----------------------------
EXTENDS PoolStartup

CONSTANTS d1, d2
=============================================================================
