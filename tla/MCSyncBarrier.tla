--------------------------- MODULE MCSyncBarrier ---------------------------
\* Four threads and the three rounds of the code: one thread can run ahead
\* while another is still asleep, a third opens the next phase and a fourth
\* has yet to call; with three rounds a semaphore is used again.
EXTENDS SyncBarrier
=============================================================================
