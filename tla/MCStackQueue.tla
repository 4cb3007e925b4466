---------------------------- MODULE MCStackQueue ----------------------------
\* Three children: the lists reach length three, drain and are used again.
EXTENDS StackQueue
=============================================================================
