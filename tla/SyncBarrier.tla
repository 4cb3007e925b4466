---------------------------- MODULE SyncBarrier ----------------------------
(***************************************************************************)
(* Threading/pthread_barrier_sync_proper.cpp: the class Barrier, a reusable*)
(* barrier built from one mutex and two named semaphores that take turns,  *)
(* the worker function singleint that calls it three times, and main,      *)
(* which creates and joins the workers.                                    *)
(*                                                                         *)
(* pc[t] is where worker t is:                                             *)
(*   none      not created (pthread_create not called yet, or it failed)   *)
(*   work      in the Monte-Carlo loop, about to lock barMutex             *)
(*   count     holds the mutex, about to run countReady++                  *)
(*   unlock    counted, not the last one: about to unlock                  *)
(*   wait      in sem_wait                                                 *)
(*   post      the last one: in the sem_post loop                          *)
(*   flip      the last one: about to switch currentSem                    *)
(*   release   the last one: about to unlock and return                    *)
(*   exit      singleint has returned                                      *)
(***************************************************************************)
EXTENDS Integers, FiniteSets

CONSTANTS N,        \* totalThreads, the program's argument
          Rounds    \* the bound of singleint's yolt loop

ASSUME ConstantsAssumption == N \in Nat \ {0} /\ Rounds \in Nat \ {0}

VARIABLES countReady,  \* Barrier::countReady
          currentSem,  \* Barrier::currentSem
          slot,        \* Barrier::currentSemArray
          idx,         \* the local i of Wait's post loop (0: out of scope)
          sem,         \* values of the semaphores barSem[0] and barSem[1]
          mutex,       \* owner of barMutex, 0 when free
          pc,
          yolt,        \* the local yolt of singleint: calls of Wait that returned
          main,        \* main: "create", "join", "ended" or "crashed"
          next,        \* thread number main's loops have reached (their i + 1)
          failed       \* threads whose pthread_create returned an error

barVars  == <<countReady, currentSem, slot, idx, sem, mutex>>
mainVars == <<main, next, failed>>
vars == <<barVars, pc, yolt, mainVars>>

Threads == 1..N

\* The semaphores are unlinked before they are opened, so they start at 0
\* whatever an earlier run left behind.
Init == /\ countReady = 0
        /\ currentSem = 0
        /\ slot = [t \in Threads |-> 0]
        /\ idx = [t \in Threads |-> 0]
        /\ sem = [s \in 0..1 |-> 0]
        /\ mutex = 0
        /\ pc = [t \in Threads |-> "none"]
        /\ yolt = [t \in Threads |-> 0]
        /\ main = "create"
        /\ next = 1
        /\ failed = {}

Goto(t, label) == pc' = [pc EXCEPT ![t] = label]

-----------------------------------------------------------------------------
\* Wait and the loop of singleint around it.

Lock(t) == /\ pc[t] = "work"
           /\ mutex = 0
           /\ mutex' = t
           /\ Goto(t, "count")
           /\ UNCHANGED <<countReady, currentSem, slot, idx, sem, yolt>>

\* countReady++ finds other threads missing: remember which semaphore to use.
EnterEarly(t) == /\ pc[t] = "count"
                 /\ countReady + 1 < N
                 /\ countReady' = countReady + 1
                 /\ slot' = [slot EXCEPT ![t] = currentSem]
                 /\ Goto(t, "unlock")
                 /\ UNCHANGED <<currentSem, idx, sem, mutex, yolt>>

\* Mutant of EnterLast: the counter is not reset.
EnterLastNoReset(t) == /\ pc[t] = "count"
                       /\ countReady + 1 >= N
                       /\ idx' = [idx EXCEPT ![t] = 1]
                       /\ Goto(t, "post")
                       /\ UNCHANGED <<countReady, currentSem, slot, sem, mutex, yolt>>

\* Mutant of EnterLast: off by one, the phase ends one thread short.
EnterLastShort(t) == /\ pc[t] = "count"
                     /\ countReady + 1 >= N - 1
                     /\ countReady' = 0
                     /\ idx' = [idx EXCEPT ![t] = 1]
                     /\ Goto(t, "post")
                     /\ UNCHANGED <<currentSem, slot, sem, mutex, yolt>>

\* countReady++ completes the phase: start over for the next one.
EnterLast(t) == /\ pc[t] = "count"
                /\ countReady + 1 >= N
                /\ countReady' = 0
                /\ idx' = [idx EXCEPT ![t] = 1]
                /\ Goto(t, "post")
                /\ UNCHANGED <<currentSem, slot, sem, mutex, yolt>>

Unlock(t) == /\ pc[t] = "unlock"
             /\ mutex' = 0
             /\ Goto(t, "wait")
             /\ UNCHANGED <<countReady, currentSem, slot, idx, sem, yolt>>

\* Where a thread goes when Wait returns: the next turn of the loop, or out.
Return(t) == /\ yolt' = [yolt EXCEPT ![t] = @ + 1]
             /\ Goto(t, IF yolt[t] + 1 < Rounds THEN "work" ELSE "exit")

\* Mutant of SemWait: the field is read instead of the array.
SemWaitOnCurrent(t) == /\ pc[t] = "wait"
                       /\ sem[currentSem] > 0
                       /\ sem' = [sem EXCEPT ![currentSem] = @ - 1]
                       /\ Return(t)
                       /\ UNCHANGED <<countReady, currentSem, slot, idx, mutex>>

\* The array is read again here, after the mutex was given up.
SemWait(t) == /\ pc[t] = "wait"
              /\ sem[slot[t]] > 0
              /\ sem' = [sem EXCEPT ![slot[t]] = @ - 1]
              /\ Return(t)
              /\ UNCHANGED <<countReady, currentSem, slot, idx, mutex>>

\* Mutant of Post: the loop starts at 0 in effect, one token too many.
PostOneMore(t) == /\ pc[t] = "post"
                  /\ idx[t] <= N
                  /\ sem' = [sem EXCEPT ![currentSem] = @ + 1]
                  /\ idx' = [idx EXCEPT ![t] = @ + 1]
                  /\ UNCHANGED <<countReady, currentSem, slot, mutex, pc, yolt>>

Post(t) == /\ pc[t] = "post"
           /\ idx[t] < N
           /\ sem' = [sem EXCEPT ![currentSem] = @ + 1]
           /\ idx' = [idx EXCEPT ![t] = @ + 1]
           /\ UNCHANGED <<countReady, currentSem, slot, mutex, pc, yolt>>

PostsDone(t) == /\ pc[t] = "post"
                /\ idx[t] >= N
                /\ Goto(t, "flip")
                /\ UNCHANGED <<barVars, yolt>>

\* Mutant of Flip: one semaphore for all phases.
FlipForgotten(t) == /\ pc[t] = "flip"
                    /\ idx' = [idx EXCEPT ![t] = 0]
                    /\ Goto(t, "release")
                    /\ UNCHANGED <<countReady, currentSem, slot, sem, mutex, yolt>>

Flip(t) == /\ pc[t] = "flip"
           /\ currentSem' = (currentSem + 1) % 2
           /\ idx' = [idx EXCEPT ![t] = 0]
           /\ Goto(t, "release")
           /\ UNCHANGED <<countReady, slot, sem, mutex, yolt>>

Release(t) == /\ pc[t] = "release"
              /\ mutex' = 0
              /\ Return(t)
              /\ UNCHANGED <<countReady, currentSem, slot, idx, sem>>

Worker(t) == /\ main # "crashed"
             /\ \/ Lock(t) \/ EnterEarly(t) \/ EnterLast(t) \/ Unlock(t)
                \/ SemWait(t) \/ Post(t) \/ PostsDone(t) \/ Flip(t) \/ Release(t)
             /\ UNCHANGED mainVars

-----------------------------------------------------------------------------
\* main

\* The loops of main: the next thread, or the next loop.
Advance(after) == IF next < N
                  THEN next' = next + 1 /\ UNCHANGED main
                  ELSE next' = 1 /\ main' = after

Create == /\ main = "create"
          /\ Goto(next, "work")
          /\ Advance("join")
          /\ UNCHANGED <<barVars, yolt, failed>>

\* An error is printed and the loop goes on: the barrier still expects N.
CreateFails == /\ main = "create"
               /\ failed' = failed \cup {next}
               /\ Advance("join")
               /\ UNCHANGED <<barVars, pc, yolt>>

\* Mutant of Join: the thread is not waited for.
JoinDetached == /\ main = "join"
                /\ next \notin failed
                /\ Advance("ended")
                /\ UNCHANGED <<barVars, pc, yolt, failed>>

\* After the last join main destroys the mutex and closes the semaphores.
Join == /\ main = "join"
        /\ pc[next] = "exit"
        /\ Advance("ended")
        /\ UNCHANGED <<barVars, pc, yolt, failed>>

\* thread[i] was never written: pthread_join of an uninitialised handle may
\* return an error or kill the process.
JoinUnset == /\ main = "join"
             /\ next \in failed
             /\ \/ Advance("ended")
                \/ main' = "crashed" /\ UNCHANGED next
             /\ UNCHANGED <<barVars, pc, yolt, failed>>

Main == Create \/ CreateFails \/ Join \/ JoinUnset

Next == Main \/ \E t \in Threads : Worker(t)

\* The kernel runs every thread that can run.  No fairness is asked of the
\* mutex or the semaphores: who gets them is up to the scheduler.
Fairness == WF_vars(Main) /\ \A t \in Threads : WF_vars(Worker(t))

Spec == Init /\ [][Next]_vars

FairSpec == Spec /\ Fairness

-----------------------------------------------------------------------------
\* Where a thread is, as its caller sees it.

Inside(t) == pc[t] \in {"unlock", "wait", "post", "flip", "release"}

\* Calls of Wait thread t has made, those that returned included.
Arrived(t) == IF Inside(t) THEN yolt[t] + 1 ELSE yolt[t]

Holds(t) == pc[t] \in {"count", "unlock", "post", "flip", "release"}

\* The threads that will take, or are trying to take, a token of semaphore s.
Waiters(s) == {t \in Threads : pc[t] \in {"unlock", "wait"} /\ slot[t] = s}

Posting(t) == pc[t] \in {"post", "flip"}

AbstractArrived == [t \in Threads |-> Arrived(t)]

AB == INSTANCE AbstractBarrier WITH arrived <- AbstractArrived, left <- yolt

-----------------------------------------------------------------------------
\* Types and ranges of the barrier's fields, main's loop and the threads.
Labels == {"none", "work", "count", "unlock", "wait", "post", "flip", "release", "exit"}

TypeOK == /\ countReady \in 0..(N - 1)
          /\ currentSem \in 0..1
          /\ slot \in [Threads -> 0..1]
          /\ idx \in [Threads -> 0..N]
          /\ sem \in [0..1 -> Nat]
          /\ mutex \in 0..N
          /\ pc \in [Threads -> Labels]
          /\ yolt \in [Threads -> 0..Rounds]
          /\ main \in {"create", "join", "ended", "crashed"}
          /\ next \in Threads
          /\ failed \in SUBSET Threads

\* The mutex has one owner, and it is the thread between lock and unlock.
MutexInv == \A t \in Threads : Holds(t) <=> mutex = t

\* A thread is in Wait or about to call it only while calls are left, and a
\* thread that was never created has made none.
RoundsInv == \A t \in Threads :
               /\ pc[t] = "exit" => yolt[t] = Rounds
               /\ pc[t] # "exit" => yolt[t] < Rounds
               /\ pc[t] = "none" => yolt[t] = 0
               /\ pc[t] = "post" => idx[t] \in 1..N
               /\ pc[t] = "flip" => idx[t] = N

\* Outside of the post loop the current semaphore is empty and its waiters
\* are exactly the threads counted in countReady; in the loop, the tokens
\* already posted and those still to come are as many as its waiters.
TokensInv ==
  /\ (\A t \in Threads : ~Posting(t)) =>
        /\ sem[currentSem] = 0
        /\ Cardinality(Waiters(currentSem)) = countReady
        /\ Cardinality(Waiters(1 - currentSem)) = sem[1 - currentSem]
  /\ \A t \in Threads : Posting(t) =>
        /\ countReady = 0
        /\ Waiters(1 - currentSem) = {}
        /\ sem[1 - currentSem] = 0
        /\ Cardinality(Waiters(currentSem)) = sem[currentSem] + N - idx[t]

\* The phases the threads have completed, counting as complete the one whose
\* wake-up is under way, are the same for all of them.
Completed(t) ==
  IF \/ pc[t] \in {"post", "flip", "release"}
     \/ t \in Waiters(1 - currentSem)
     \/ t \in Waiters(currentSem) /\ \E u \in Threads : Posting(u)
  THEN yolt[t] + 1
  ELSE yolt[t]

PhaseInv == \A t, u \in Threads : Completed(t) = Completed(u)

\* A thread whose creation failed, or that main has not come to, never runs.
FailedInv == /\ \A t \in failed : pc[t] = "none"
             /\ main = "create" => \A t \in next..N : pc[t] = "none" /\ t \notin failed

\* The conjuncts that together are preserved by every step.
IInv == TypeOK /\ MutexInv /\ RoundsInv /\ TokensInv /\ PhaseInv /\ FailedInv

-----------------------------------------------------------------------------
\* No call of Wait returns before every thread has made as many calls: a
\* thread that runs ahead cannot take the token of one that is still asleep.
NoEarlyLeave == \A t, u \in Threads : yolt[t] <= Arrived(u)

\* Every step of the mutex/semaphore protocol is a step of the abstract
\* barrier, or leaves it unchanged.
ImplementsBarrier == AB!Spec

\* If one pthread_create fails the barrier stays shut for good: main neither
\* lowers totalThreads nor gives up, so no call of Wait ever returns.
ShortHandedStaysShut == failed # {} => \A t \in Threads : yolt[t] = 0

\* When main has destroyed the mutex and closed the semaphores nobody uses
\* them, no token is left over and the counter is back at its start.
CleanShutdown == main = "ended" =>
                   /\ \A t \in Threads : pc[t] \in {"none", "exit"}
                   /\ mutex = 0
                   /\ sem[0] = 0 /\ sem[1] = 0 /\ countReady = 0

\* With all threads created, every thread gets through all its phases and
\* main reaches its end: no wake-up is lost or taken by the wrong thread.
Completion == <>(failed # {} \/ main = "ended")
=============================================================================
