------------------------------ MODULE MCComms ------------------------------
EXTENDS Comms
CONSTANTS s1, s2, b1, b2, x1
=============================================================================
