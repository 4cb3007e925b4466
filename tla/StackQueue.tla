----------------------------- MODULE StackQueue -----------------------------
(***************************************************************************)
(* Threading/pthread_stack_queue.cpp: N children each push one result on a *)
(* shared stack and into a shared queue, the parent pops N results from    *)
(* each of the two.  Both are linked lists guarded by a mutex, with a      *)
(* named semaphore that counts the elements.                               *)
(*                                                                         *)
(* A result is named by the child that computed it, and the list node that *)
(* carries it by the same number; 0 is NULL.  The nodes are never freed,   *)
(* so a node keeps its contents after it was unlinked.                     *)
(***************************************************************************)
EXTENDS Integers, Sequences, SequencesExt

CONSTANT N                \* threadCounter, the program's first argument

ASSUME NAssumption == N \in Nat \ {0}

Children == 1..N
Parent == N + 1           \* the parent as the owner of a mutex
Null == 0

VARIABLES top, depth, snext, stackSem, stackMutex,          \* class Stack
          first, last, length, qnext, queueSem, queueMutex, \* class Queue
          threadMutex,
          pc,             \* pc[c]: where child c is in singleint
          main,           \* where the parent is
          i,              \* the number its current loop has reached (its i + 1)
          stackGG,        \* the results it added to stackGG, in order
          queueGG         \* the results it added to queueGG, in order

stack == <<top, depth, snext, stackSem, stackMutex>>
queue == <<first, last, length, qnext, queueSem, queueMutex>>
parentVars == <<main, i, stackGG, queueGG>>
outside == <<threadMutex, pc, i>>      \* what no Pop changes
vars == <<stack, queue, threadMutex, pc, parentVars>>

Init == /\ top = Null /\ depth = 0 /\ stackSem = 0 /\ stackMutex = 0
        /\ snext = [c \in Children |-> Null]
        /\ first = Null /\ last = Null /\ length = 0 /\ queueSem = 0 /\ queueMutex = 0
        /\ qnext = [c \in Children |-> Null]
        /\ threadMutex = 0
        /\ pc = [c \in Children |-> "none"]
        /\ main = "create" /\ i = 1
        /\ stackGG = <<>> /\ queueGG = <<>>

Step(c, from, to) == pc[c] = from /\ pc' = [pc EXCEPT ![c] = to]

-----------------------------------------------------------------------------
\* Stack::Push

\* Mutant of StackLock: the mutex is not taken.
StackLockForgotten(c) == /\ Step(c, "stackLock", "stackLink")
                         /\ UNCHANGED <<stack, queue, threadMutex>>

StackLock(c) == /\ Step(c, "stackLock", "stackLink")
                /\ stackMutex = 0
                /\ stackMutex' = c
                /\ UNCHANGED <<top, depth, snext, stackSem, queue, threadMutex>>

\* temp->next = top
StackLink(c) == /\ Step(c, "stackLink", "stackTop")
                /\ snext' = [snext EXCEPT ![c] = top]
                /\ UNCHANGED <<top, depth, stackSem, stackMutex, queue, threadMutex>>

\* top = temp; depth++
StackTop(c) == /\ Step(c, "stackTop", "stackPost")
               /\ top' = c
               /\ depth' = depth + 1
               /\ UNCHANGED <<snext, stackSem, stackMutex, queue, threadMutex>>

\* Mutant of StackPost: the semaphore is posted twice for one element.
StackPostTwice(c) == /\ Step(c, "stackPost", "stackUnlock")
                     /\ stackSem' = stackSem + 2
                     /\ UNCHANGED <<top, depth, snext, stackMutex, queue, threadMutex>>

StackPost(c) == /\ Step(c, "stackPost", "stackUnlock")
                /\ stackSem' = stackSem + 1
                /\ UNCHANGED <<top, depth, snext, stackMutex, queue, threadMutex>>

StackUnlock(c) == /\ Step(c, "stackUnlock", "queueLock")
                  /\ stackMutex' = 0
                  /\ UNCHANGED <<top, depth, snext, stackSem, queue, threadMutex>>

StackPush(c) == \/ StackLock(c) \/ StackLink(c) \/ StackTop(c)
                \/ StackPost(c) \/ StackUnlock(c)

-----------------------------------------------------------------------------
\* Queue::Push

QueueLock(c) == /\ Step(c, "queueLock", "queueCount")
                /\ queueMutex = 0
                /\ queueMutex' = c
                /\ UNCHANGED <<first, last, length, qnext, queueSem, stack, threadMutex>>

\* temp->next = NULL; length++
QueueCount(c) == /\ Step(c, "queueCount", "queueLink")
                 /\ qnext' = [qnext EXCEPT ![c] = Null]
                 /\ length' = length + 1
                 /\ UNCHANGED <<first, last, queueSem, queueMutex, stack, threadMutex>>

\* Mutant of QueueLink: emptiness is judged by the pointer last, which a drained
\* queue leaves behind, in place of the length.
QueueLinkStaleLast(c) ==
  /\ Step(c, "queueLink", "queuePost")
  /\ IF last = Null
     THEN first' = c /\ UNCHANGED qnext
     ELSE qnext' = [qnext EXCEPT ![last] = c] /\ UNCHANGED first
  /\ last' = c
  /\ UNCHANGED <<length, queueSem, queueMutex, stack, threadMutex>>

\* Only the element counted as the first one is linked from first: last may
\* still point to a node that was popped.
QueueLink(c) == /\ Step(c, "queueLink", "queuePost")
                /\ IF length = 1
                   THEN first' = c /\ UNCHANGED qnext
                   ELSE qnext' = [qnext EXCEPT ![last] = c] /\ UNCHANGED first
                /\ last' = c
                /\ UNCHANGED <<length, queueSem, queueMutex, stack, threadMutex>>

QueuePost(c) == /\ Step(c, "queuePost", "queueUnlock")
                /\ queueSem' = queueSem + 1
                /\ UNCHANGED <<first, last, length, qnext, queueMutex, stack, threadMutex>>

QueueUnlock(c) == /\ Step(c, "queueUnlock", "threadUnlock")
                  /\ queueMutex' = 0
                  /\ UNCHANGED <<first, last, length, qnext, queueSem, stack, threadMutex>>

QueuePush(c) == \/ QueueLock(c) \/ QueueCount(c) \/ QueueLink(c)
                \/ QueuePost(c) \/ QueueUnlock(c)

-----------------------------------------------------------------------------
\* singleint, after its Monte-Carlo loop: both pushes under threadMutex.

\* Mutant of ThreadLock: the outer mutex is not taken.
ThreadLockForgotten(c) == /\ Step(c, "work", "stackLock")
                          /\ UNCHANGED <<threadMutex, stack, queue>>

ThreadLock(c) == /\ Step(c, "work", "stackLock")
                 /\ threadMutex = 0
                 /\ threadMutex' = c
                 /\ UNCHANGED <<stack, queue>>

ThreadUnlock(c) == /\ Step(c, "threadUnlock", "exit")
                   /\ threadMutex' = 0
                   /\ UNCHANGED <<stack, queue>>

Child(c) == /\ ThreadLock(c) \/ StackPush(c) \/ QueuePush(c) \/ ThreadUnlock(c)
            /\ UNCHANGED parentVars

-----------------------------------------------------------------------------
\* main

MainStep(from, to) == main = from /\ main' = to

\* The loops of main: the next number, or what comes after the loop.
Loop(from, again, after) ==
  /\ main = from
  /\ IF i < N THEN i' = i + 1 /\ main' = again ELSE i' = 1 /\ main' = after

Create == /\ pc' = [pc EXCEPT ![i] = "work"]
          /\ Loop("create", "create", "stackWait")
          /\ UNCHANGED <<stack, queue, threadMutex, stackGG, queueGG>>

\* perror, and the parent goes on expecting N results.
CreateFails == /\ pc' = [pc EXCEPT ![i] = "failed"]
               /\ Loop("create", "create", "stackWait")
               /\ UNCHANGED <<stack, queue, threadMutex, stackGG, queueGG>>

\* Mutant of StackWait: sem_wait returns without a token.
StackWaitSpurious == /\ MainStep("stackWait", "stackPopLock")
                     /\ UNCHANGED <<stack, queue, outside, stackGG, queueGG>>

\* Stack::Pop
StackWait == /\ MainStep("stackWait", "stackPopLock")
             /\ stackSem > 0
             /\ stackSem' = stackSem - 1
             /\ UNCHANGED <<top, depth, snext, stackMutex, queue, outside, stackGG, queueGG>>

StackPopLock == /\ MainStep("stackPopLock", "stackTake")
                /\ stackMutex = 0
                /\ stackMutex' = Parent
                /\ UNCHANGED <<top, depth, snext, stackSem, queue, outside, stackGG, queueGG>>

\* With depth = 0 the int function ends without a return and without unlocking:
\* what the program does next is undefined.
StackTake == /\ main = "stackTake"
             /\ IF depth > 0
                THEN /\ stackGG' = Append(stackGG, top)
                     /\ top' = snext[top]
                     /\ depth' = depth - 1
                     /\ main' = "stackPopUnlock"
                ELSE main' = "undefined" /\ UNCHANGED <<top, depth, stackGG>>
             /\ UNCHANGED <<snext, stackSem, stackMutex, queue, outside, queueGG>>

\* Mutant of StackPopUnlock: Pop returns with the mutex held.
StackPopKeepsLock == /\ MainStep("stackPopUnlock", "queueWait")
                     /\ UNCHANGED <<stack, queue, outside, stackGG, queueGG>>

StackPopUnlock == /\ MainStep("stackPopUnlock", "queueWait")
                  /\ stackMutex' = 0
                  /\ UNCHANGED <<top, depth, snext, stackSem, queue, outside, stackGG, queueGG>>

StackPop == StackWait \/ StackPopLock \/ StackTake \/ StackPopUnlock

\* Queue::Pop
QueueWait == /\ MainStep("queueWait", "queuePopLock")
             /\ queueSem > 0
             /\ queueSem' = queueSem - 1
             /\ UNCHANGED <<first, last, length, qnext, queueMutex, stack, outside,
                            stackGG, queueGG>>

QueuePopLock == /\ MainStep("queuePopLock", "queueTake")
                /\ queueMutex = 0
                /\ queueMutex' = Parent
                /\ UNCHANGED <<first, last, length, qnext, queueSem, stack, outside,
                               stackGG, queueGG>>

QueueTake == /\ main = "queueTake"
             /\ IF length > 0
                THEN /\ queueGG' = Append(queueGG, first)
                     /\ first' = qnext[first]
                     /\ length' = length - 1
                     /\ main' = "queuePopUnlock"
                ELSE main' = "undefined" /\ UNCHANGED <<first, length, queueGG>>
             /\ UNCHANGED <<last, qnext, queueSem, queueMutex, stack, outside, stackGG>>

QueuePopUnlock == /\ Loop("queuePopUnlock", "stackWait", "join")
                  /\ queueMutex' = 0
                  /\ UNCHANGED <<first, last, length, qnext, queueSem, stack, threadMutex, pc,
                                 stackGG, queueGG>>

QueuePop == QueueWait \/ QueuePopLock \/ QueueTake \/ QueuePopUnlock

\* Mutant of Join: the thread is not waited for.
JoinDetached == /\ Loop("join", "join", "ended")
                /\ UNCHANGED <<stack, queue, threadMutex, pc, stackGG, queueGG>>

\* After the last join main destroys the mutexes and closes the semaphores.
Join == /\ pc[i] = "exit"
        /\ Loop("join", "join", "ended")
        /\ UNCHANGED <<stack, queue, threadMutex, pc, stackGG, queueGG>>

Main == Create \/ CreateFails \/ StackPop \/ QueuePop \/ Join

Next == Main \/ \E c \in Children : Child(c)

Fairness == WF_vars(Main) /\ \A c \in Children : WF_vars(Child(c))

Spec == Init /\ [][Next]_vars

FairSpec == Spec /\ Fairness

-----------------------------------------------------------------------------
\* The lists as sequences.

\* The n nodes reached from start along nxt.
Chain(start, nxt, n) ==
  LET node[k \in 1..n] == IF k = 1 THEN start
                          ELSE IF node[k - 1] = Null THEN Null ELSE nxt[node[k - 1]]
  IN [k \in 1..n |-> node[k]]

StackItems == Reverse(Chain(top, snext, depth))

\* An element is in the queue once it is linked, one step after it is counted.
Inserted == IF \E c \in Children : pc[c] = "queueLink" THEN length - 1 ELSE length

QueueItems == Chain(first, qnext, Inserted)

AStack == INSTANCE AbstractChannel
            WITH Senders <- Children, Lifo <- TRUE, items <- StackItems, got <- stackGG

AQueue == INSTANCE AbstractChannel
            WITH Senders <- Children, Lifo <- FALSE, items <- QueueItems, got <- queueGG

-----------------------------------------------------------------------------
Paired == {"stackLock", "stackLink", "stackTop", "stackPost", "stackUnlock", "queueLock",
           "queueCount", "queueLink", "queuePost", "queueUnlock", "threadUnlock"}
Labels == {"none", "failed", "work", "exit"} \cup Paired
MainLabels == {"create", "stackWait", "stackPopLock", "stackTake", "stackPopUnlock",
               "queueWait", "queuePopLock", "queueTake", "queuePopUnlock",
               "join", "ended", "undefined"}

\* Types and ranges of the two lists, the locks and the loops.
TypeOK ==
  /\ top \in 0..N /\ depth \in 0..N /\ snext \in [Children -> 0..N]
  /\ first \in 0..N /\ last \in 0..N /\ length \in 0..N /\ qnext \in [Children -> 0..N]
  /\ stackSem \in 0..N /\ queueSem \in 0..N
  /\ stackMutex \in 0..Parent /\ queueMutex \in 0..Parent /\ threadMutex \in 0..N
  /\ pc \in [Children -> Labels] /\ main \in MainLabels
  /\ i \in Children
  /\ stackGG \in BoundedSeq(Children, N) /\ queueGG \in BoundedSeq(Children, N)

\* A semaphore counts its list: elements, less those pushed but not yet posted
\* and less the one the parent has a token for but has not yet taken.  So the
\* parent never reaches the empty branch of Pop, whose behaviour is undefined.
SemaphoresCount ==
  /\ main # "undefined"
  /\ depth = stackSem + Cardinality({c \in Children : pc[c] = "stackPost"})
                      + (IF main \in {"stackPopLock", "stackTake"} THEN 1 ELSE 0)
  /\ length = queueSem + Cardinality({c \in Children : pc[c] \in {"queueLink", "queuePost"}})
                       + (IF main \in {"queuePopLock", "queueTake"} THEN 1 ELSE 0)

\* The mutexes around Push and Pop make the list a stack of results: each one
\* put once, the youngest taken first, none lost.
ImplementsStack == AStack!Spec

\* The same for the queue, oldest first.  A queue that was drained and is used
\* again does not lose the element to the stale pointer last.
ImplementsQueue == AQueue!Spec

\* Results seen so far on either way.
StackSeen == ToSet(StackItems) \cup ToSet(stackGG)
QueueSeen == ToSet(QueueItems) \cup ToSet(queueGG)

\* threadMutex ties the two pushes of a child together: outside of it the stack
\* and the queue have seen the same results, and at most one child is between
\* its pushes.
PushesPaired ==
  /\ QueueSeen \subseteq StackSeen
  /\ Cardinality(StackSeen \ QueueSeen) <= 1
  /\ threadMutex = 0 => StackSeen = QueueSeen

\* pthread_join never sees a handle that pthread_create did not write: the
\* parent only gets to the joins with a result from all N children, and both
\* totals are then over the same N results.  When the mutexes are destroyed and
\* the semaphores closed, nobody holds or uses them and both lists are empty.
OrderlyEnd ==
  /\ main \in {"join", "ended"} => /\ \A c \in Children : pc[c] # "failed"
                                   /\ ToSet(stackGG) = Children /\ Len(stackGG) = N
                                   /\ ToSet(queueGG) = Children /\ Len(queueGG) = N
  /\ main = "ended" => /\ \A c \in Children : pc[c] = "exit"
                       /\ stackMutex = 0 /\ queueMutex = 0 /\ threadMutex = 0
                       /\ stackSem = 0 /\ queueSem = 0 /\ depth = 0 /\ length = 0

-----------------------------------------------------------------------------
\* The inductive invariant.

InStack == {"stackLink", "stackTop", "stackPost", "stackUnlock"}
InQueue == {"queueCount", "queueLink", "queuePost", "queueUnlock"}
OnQueue == {"queuePost", "queueUnlock", "threadUnlock", "exit"}
OnStack == {"stackPost", "stackUnlock", "queueLock", "queueCount", "queueLink"} \cup OnQueue

\* Each mutex belongs to whoever is in the code it guards.
LocksInv ==
  /\ \A c \in Children : /\ threadMutex = c <=> pc[c] \in Paired
                         /\ stackMutex = c <=> pc[c] \in InStack
                         /\ queueMutex = c <=> pc[c] \in InQueue
  /\ stackMutex = Parent <=> main \in {"stackTake", "stackPopUnlock"}
  /\ queueMutex = Parent <=> main \in {"queueTake", "queuePopUnlock"}

\* The n nodes from start along nxt are s.
Linked(s, n, start, nxt) == /\ n > 0 => start = s[1]
                            /\ \A k \in 1..n : k < n => nxt[s[k]] = s[k + 1]

At(labels) == {c \in Children : pc[c] \in labels}

\* The n nodes of s and the results in got are the children of S, each once.
Shared(s, n, got, S) ==
  /\ \A j, k \in 1..n : s[j] = s[k] => j = k
  /\ \A j, k \in 1..Len(got) : got[j] = got[k] => j = k
  /\ \A j \in 1..n, k \in 1..Len(got) : s[j] # got[k]
  /\ \A c \in Children : c \in S <=> \/ \E j \in 1..n : s[j] = c
                                     \/ \E k \in 1..Len(got) : got[k] = c

StackInv == /\ \E s \in [1..depth -> Children] : /\ Linked(s, depth, top, snext)
                                                 /\ Shared(s, depth, stackGG, At(OnStack))
            /\ \A c \in Children : pc[c] = "stackTop" => snext[c] = top

QueueInv == \E s \in [1..Inserted -> Children] : /\ Linked(s, Inserted, first, qnext)
                                                 /\ Inserted > 0 => last = s[Inserted]
                                                 /\ Shared(s, Inserted, queueGG, At(OnQueue))

One(condition) == IF condition THEN 1 ELSE 0

\* What the semaphores count.  At most one child at a time is between its pushes.
CountsInv ==
  /\ depth = stackSem + One(\E c \in Children : pc[c] = "stackPost")
                      + One(main \in {"stackPopLock", "stackTake"})
  /\ length = queueSem + One(\E c \in Children : pc[c] \in {"queueLink", "queuePost"})
                       + One(main \in {"queuePopLock", "queueTake"})

\* How far the parent has come in its loops.
ParentInv ==
  /\ main # "undefined"
  /\ main = "create" => \A c \in Children : pc[c] = "none" <=> c >= i
  /\ main # "create" => \A c \in Children : pc[c] # "none"
  /\ Len(stackGG) = CASE main = "create" -> 0
                      [] main \in {"stackWait", "stackPopLock", "stackTake"} -> i - 1
                      [] main \in {"join", "ended"} -> N
                      [] OTHER -> i
  /\ Len(queueGG) = CASE main = "create" -> 0
                      [] main = "queuePopUnlock" -> i
                      [] main \in {"join", "ended"} -> N
                      [] OTHER -> i - 1
  /\ main = "join" => \A c \in Children : c < i => pc[c] = "exit"
  /\ main = "ended" => \A c \in Children : pc[c] = "exit"

IInv == TypeOK /\ LocksInv /\ StackInv /\ QueueInv /\ CountsInv /\ ParentInv

\* If all threads are created the parent gets all the results and ends.
Completion == <>(main = "ended" \/ \E c \in Children : pc[c] = "failed")
=============================================================================
