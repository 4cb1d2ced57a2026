---------------------------- MODULE MCServerStart ----------------------------
EXTENDS ServerStart
CONSTANTS c1, c2, c3, c4
=============================================================================
