-------------------------- MODULE AbstractBarrier --------------------------
(***************************************************************************)
(* What a reusable thread barrier promises to its callers, without mutex,  *)
(* semaphores or counters.  A thread arrives (it has called the barrier's  *)
(* operation) and later leaves (the call has returned).  The two barrier   *)
(* programs of Threading/ are measured against this module.                *)
(***************************************************************************)
EXTENDS Integers

CONSTANTS Threads,   \* the threads the barrier was built for
          Rounds     \* how often each of them uses it

VARIABLES arrived,   \* arrived[t]: calls thread t has made
          left       \* left[t]: calls of thread t that have returned

vars == <<arrived, left>>

Init == /\ arrived = [t \in Threads |-> 0]
        /\ left = [t \in Threads |-> 0]

Arrive(t) == /\ arrived[t] = left[t]
             /\ arrived[t] < Rounds
             /\ arrived' = [arrived EXCEPT ![t] = @ + 1]
             /\ UNCHANGED left

\* A call returns once every thread has made as many calls as the caller.
Leave(t) == /\ left[t] < arrived[t]
            /\ \A u \in Threads : arrived[t] <= arrived[u]
            /\ left' = [left EXCEPT ![t] = arrived[t]]
            /\ UNCHANGED arrived

Next == \E t \in Threads : Arrive(t) \/ Leave(t)

Spec == Init /\ [][Next]_vars
=============================================================================
