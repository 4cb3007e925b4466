---------------------------- MODULE BuggyBarrier ----------------------------
(***************************************************************************)
(* Threading/pthread_barrier_sync_with_bug.cpp: the barrier with one       *)
(* semaphore, on which the last thread posts once for every thread, itself *)
(* included.  Kept in the repository to show the failure the proper        *)
(* barrier avoids.  The sleep(3) of thread 3 and the short loops of thread *)
(* 1 only make the bad schedule likely: here every schedule is possible.   *)
(*                                                                         *)
(* main creates and joins the threads as the proper program's does.        *)
(***************************************************************************)
EXTENDS Integers, FiniteSets

CONSTANTS N, Rounds

VARIABLES countReady, barSem, mutex, idx, pc, yolt,
          main,        \* "create", "join", "ended" or "crashed"
          next,        \* thread number main's loops have reached (their i + 1)
          failed       \* threads whose pthread_create returned an error

workVars == <<countReady, barSem, mutex, idx, pc, yolt>>
mainVars == <<main, next, failed>>
vars == <<workVars, mainVars>>

Threads == 1..N

Init == /\ countReady = 0
        /\ barSem = 0
        /\ mutex = 0
        /\ idx = [t \in Threads |-> 0]
        /\ pc = [t \in Threads |-> "none"]
        /\ yolt = [t \in Threads |-> 0]
        /\ main = "create"
        /\ next = 1
        /\ failed = {}

Step(t, from, to) == pc[t] = from /\ pc' = [pc EXCEPT ![t] = to]

\* Sync returns: the next turn of singleint's loop, or out of it.
Return(t, from) == /\ Step(t, from, IF yolt[t] + 1 < Rounds THEN "work" ELSE "exit")
                   /\ yolt' = [yolt EXCEPT ![t] = @ + 1]

Lock(t) == /\ Step(t, "work", "count")
           /\ mutex = 0
           /\ mutex' = t
           /\ UNCHANGED <<countReady, barSem, idx, yolt>>

\* countReady++ and the test, then either the wait ...
EnterEarly(t) == /\ Step(t, "count", "unlock")
                 /\ countReady + 1 < N
                 /\ countReady' = countReady + 1
                 /\ UNCHANGED <<barSem, mutex, idx, yolt>>

\* ... or the loop that posts totalThreads times; the counter is reset later.
EnterLast(t) == /\ Step(t, "count", "post")
                /\ countReady + 1 >= N
                /\ countReady' = countReady + 1
                /\ idx' = [idx EXCEPT ![t] = 0]
                /\ UNCHANGED <<barSem, mutex, yolt>>

Unlock(t) == /\ Step(t, "unlock", "wait")
             /\ mutex' = 0
             /\ UNCHANGED <<countReady, barSem, idx, yolt>>

SemWait(t) == /\ barSem > 0
              /\ barSem' = barSem - 1
              /\ Return(t, "wait")
              /\ UNCHANGED <<countReady, mutex, idx>>

Post(t) == /\ pc[t] = "post"
           /\ idx[t] < N
           /\ barSem' = barSem + 1
           /\ idx' = [idx EXCEPT ![t] = @ + 1]
           /\ UNCHANGED <<countReady, mutex, pc, yolt>>

Reset(t) == /\ Step(t, "post", "release")
            /\ idx[t] >= N
            /\ countReady' = 0
            /\ UNCHANGED <<barSem, mutex, idx, yolt>>

Release(t) == /\ mutex' = 0
              /\ Return(t, "release")
              /\ UNCHANGED <<countReady, barSem, idx>>

Worker(t) == /\ main # "crashed"
             /\ \/ Lock(t) \/ EnterEarly(t) \/ EnterLast(t) \/ Unlock(t)
                \/ SemWait(t) \/ Post(t) \/ Reset(t) \/ Release(t)
             /\ UNCHANGED mainVars

-----------------------------------------------------------------------------
\* main's loops: the next thread, or the next loop.
Advance(after) == IF next < N
                  THEN next' = next + 1 /\ UNCHANGED main
                  ELSE next' = 1 /\ main' = after

Create == /\ main = "create"
          /\ pc' = [pc EXCEPT ![next] = "work"]
          /\ Advance("join")
          /\ UNCHANGED <<countReady, barSem, mutex, idx, yolt, failed>>

\* Only reported: the barrier still expects N threads.
CreateFails == /\ main = "create"
               /\ failed' = failed \cup {next}
               /\ Advance("join")
               /\ UNCHANGED workVars

\* After the last join main destroys the mutex and closes the semaphore.
Join == /\ main = "join"
        /\ pc[next] = "exit"
        /\ Advance("ended")
        /\ UNCHANGED <<workVars, failed>>

\* The handle was never set: the join fails or kills the process.
JoinUnset == /\ main = "join"
             /\ next \in failed
             /\ \/ Advance("ended")
                \/ main' = "crashed" /\ UNCHANGED next
             /\ UNCHANGED <<workVars, failed>>

Next == \/ Create \/ CreateFails \/ Join \/ JoinUnset
        \/ \E t \in Threads : Worker(t)

Spec == Init /\ [][Next]_vars

\* Calls of Sync that thread t has made.
Arrived(t) == IF pc[t] \in {"unlock", "wait", "post", "release"}
              THEN yolt[t] + 1 ELSE yolt[t]

\* The message of line 52, "SYNCHRONIZED with ... being the last thread to
\* finish", says that when a thread gets through the barrier all threads have
\* come to it: no call of Sync returns before every thread has made as many.
NoEarlyLeave == \A t, u \in Threads : yolt[t] <= Arrived(u)
=============================================================================
