--------------------------- MODULE MCBuggyBarrier ---------------------------
\* Three threads and rounds, as in the proper barrier.
EXTENDS BuggyBarrier
=============================================================================
