------------------------------ MODULE MCHunt ------------------------------
EXTENDS Hunt
===========================================================================
