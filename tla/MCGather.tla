------------------------------ MODULE MCGather ------------------------------
EXTENDS Gather
=============================================================================
