------------------------------ MODULE MCCourt ------------------------------
EXTENDS Court
CONSTANTS j1, j2, desk1
=============================================================================
