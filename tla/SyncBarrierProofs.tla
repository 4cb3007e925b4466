------------------------- MODULE SyncBarrierProofs -------------------------
(***************************************************************************)
(* The barrier of pthread_barrier_sync_proper.cpp is correct for every     *)
(* number of threads and rounds: the inductive invariant IInv, the safety  *)
(* properties that follow from it, and the refinement of AbstractBarrier.  *)
(***************************************************************************)
EXTENDS SyncBarrier, FiniteSetTheorems, TLAPS

\* The part of IInv that needs no counting.
Control == TypeOK /\ MutexInv /\ RoundsInv /\ FailedInv

LEMMA ControlInit == Init => Control
BY ConstantsAssumption
   DEF Init, Control, TypeOK, MutexInv, RoundsInv, FailedInv, Labels, Threads, Holds

\* One step of a worker keeps the types, the mutex and the loop bounds.
LEMMA ControlWorker ==
  ASSUME Control, NEW t \in Threads, Worker(t)
  PROVE  Control'
<1> USE ConstantsAssumption DEF Control, Threads, Goto, mainVars
<1>0. UNCHANGED mainVars
  BY DEF Worker
<1>1. CASE Lock(t)
  <2>1. TypeOK'
    BY <1>0, <1>1 DEF Lock, TypeOK, RoundsInv, Labels
  <2>2. MutexInv'
    BY <1>0, <1>1 DEF Lock, TypeOK, MutexInv, Holds
  <2>3. RoundsInv'
    BY <1>0, <1>1 DEF Lock, TypeOK, RoundsInv
  <2>4. FailedInv'
    BY <1>0, <1>1 DEF Lock, TypeOK, FailedInv
  <2> QED
    BY <2>1, <2>2, <2>3, <2>4
<1>2. CASE EnterEarly(t)
  <2>1. TypeOK'
    BY <1>0, <1>2 DEF EnterEarly, TypeOK, RoundsInv, Labels
  <2>2. MutexInv'
    BY <1>0, <1>2 DEF EnterEarly, TypeOK, MutexInv, Holds
  <2>3. RoundsInv'
    BY <1>0, <1>2 DEF EnterEarly, TypeOK, RoundsInv
  <2>4. FailedInv'
    BY <1>0, <1>2 DEF EnterEarly, TypeOK, FailedInv
  <2> QED
    BY <2>1, <2>2, <2>3, <2>4
<1>3. CASE EnterLast(t)
  <2>1. TypeOK'
    BY <1>0, <1>3, SMTT(30) DEF EnterLast, TypeOK, RoundsInv, Labels
  <2>2. MutexInv'
    BY <1>0, <1>3 DEF EnterLast, TypeOK, MutexInv, Holds
  <2>3. RoundsInv'
    BY <1>0, <1>3 DEF EnterLast, TypeOK, RoundsInv
  <2>4. FailedInv'
    BY <1>0, <1>3 DEF EnterLast, TypeOK, FailedInv
  <2> QED
    BY <2>1, <2>2, <2>3, <2>4
<1>4. CASE Unlock(t)
  <2>1. TypeOK'
    BY <1>0, <1>4 DEF Unlock, TypeOK, RoundsInv, Labels
  <2>2. MutexInv'
    BY <1>0, <1>4 DEF Unlock, TypeOK, MutexInv, Holds
  <2>3. RoundsInv'
    BY <1>0, <1>4 DEF Unlock, TypeOK, RoundsInv
  <2>4. FailedInv'
    BY <1>0, <1>4 DEF Unlock, TypeOK, FailedInv
  <2> QED
    BY <2>1, <2>2, <2>3, <2>4
<1>5. CASE SemWait(t)
  <2>1. TypeOK'
    <3>0. yolt[t] < Rounds
      BY <1>5 DEF SemWait, RoundsInv
    <3>1. yolt[t] + 1 \in 0..Rounds
      BY <3>0 DEF TypeOK
    <3>2. sem[slot[t]] - 1 \in Nat
      BY <1>5 DEF SemWait, TypeOK
    <3> QED
      BY <1>0, <1>5, <3>1, <3>2 DEF SemWait, TypeOK, Labels, Return
  <2>2. MutexInv'
    BY <1>0, <1>5 DEF SemWait, TypeOK, MutexInv, Holds, Return
  <2>3. RoundsInv'
    BY <1>0, <1>5 DEF SemWait, TypeOK, RoundsInv, Return
  <2>4. FailedInv'
    BY <1>0, <1>5 DEF SemWait, TypeOK, FailedInv, Return
  <2> QED
    BY <2>1, <2>2, <2>3, <2>4
<1>6. CASE Post(t)
  <2>1. TypeOK'
    <3>1. idx[t] + 1 \in 0..N
      BY <1>6, SMTT(30) DEF Post, TypeOK
    <3>2. sem[currentSem] + 1 \in Nat
      BY DEF TypeOK
    <3> QED
      BY <1>0, <1>6, <3>1, <3>2 DEF Post, TypeOK
  <2>2. MutexInv'
    BY <1>0, <1>6 DEF Post, TypeOK, MutexInv, Holds
  <2>3. RoundsInv'
    <3>1. /\ pc' = pc /\ yolt' = yolt
          /\ idx'[t] = idx[t] + 1
          /\ \A u \in Threads \ {t} : idx'[u] = idx[u]
      BY <1>6 DEF Post, TypeOK
    <3>2. pc[t] = "post" /\ idx[t] + 1 \in 1..N
      BY <1>6, SMTT(30) DEF Post, TypeOK
    <3> QED
      BY <3>1, <3>2 DEF RoundsInv
  <2>4. FailedInv'
    BY <1>0, <1>6 DEF Post, TypeOK, FailedInv
  <2> QED
    BY <2>1, <2>2, <2>3, <2>4
<1>7. CASE PostsDone(t)
  <2>1. TypeOK'
    BY <1>0, <1>7 DEF PostsDone, TypeOK, RoundsInv, Labels, barVars
  <2>2. MutexInv'
    BY <1>0, <1>7 DEF PostsDone, TypeOK, MutexInv, Holds, barVars
  <2>3. RoundsInv'
    BY <1>0, <1>7 DEF PostsDone, TypeOK, RoundsInv, barVars
  <2>4. FailedInv'
    BY <1>0, <1>7 DEF PostsDone, TypeOK, FailedInv, barVars
  <2> QED
    BY <2>1, <2>2, <2>3, <2>4
<1>8. CASE Flip(t)
  <2>1. TypeOK'
    BY <1>0, <1>8 DEF Flip, TypeOK, RoundsInv, Labels
  <2>2. MutexInv'
    BY <1>0, <1>8 DEF Flip, TypeOK, MutexInv, Holds
  <2>3. RoundsInv'
    BY <1>0, <1>8 DEF Flip, TypeOK, RoundsInv
  <2>4. FailedInv'
    BY <1>0, <1>8 DEF Flip, TypeOK, FailedInv
  <2> QED
    BY <2>1, <2>2, <2>3, <2>4
<1>9. CASE Release(t)
  <2>1. TypeOK'
    <3>0. yolt[t] < Rounds
      BY <1>9 DEF Release, RoundsInv
    <3>1. yolt[t] + 1 \in 0..Rounds
      BY <3>0 DEF TypeOK
    <3> QED
      BY <1>0, <1>9, <3>1 DEF Release, TypeOK, Labels, Return
  <2>2. MutexInv'
    BY <1>0, <1>9 DEF Release, TypeOK, MutexInv, Holds, Return
  <2>3. RoundsInv'
    BY <1>0, <1>9 DEF Release, TypeOK, RoundsInv, Return
  <2>4. FailedInv'
    BY <1>0, <1>9 DEF Release, TypeOK, FailedInv, Return
  <2> QED
    BY <2>1, <2>2, <2>3, <2>4
<1> QED
  BY <1>1, <1>2, <1>3, <1>4, <1>5, <1>6, <1>7, <1>8, <1>9 DEF Worker

\* A step of main creates a thread that was not there, or touches no thread.
LEMMA ControlMain ==
  ASSUME Control, Main
  PROVE  Control'
<1> USE ConstantsAssumption DEF Control, Threads, Goto, Advance
<1>1. CASE Create
  <2>0. next \notin failed
    BY <1>1 DEF Create, FailedInv, TypeOK
  <2>1. TypeOK'
    BY <1>1, SMTT(30) DEF Create, TypeOK, Labels, barVars
  <2>2. MutexInv'
    BY <1>1 DEF Create, TypeOK, MutexInv, Holds, FailedInv, barVars
  <2>3. RoundsInv'
    BY <1>1 DEF Create, TypeOK, RoundsInv, FailedInv, barVars
  <2>4. FailedInv'
    BY <1>1, <2>0, SMTT(30) DEF Create, TypeOK, FailedInv, barVars
  <2> QED
    BY <2>1, <2>2, <2>3, <2>4
<1>2. CASE CreateFails
  <2>1. TypeOK'
    BY <1>2 DEF CreateFails, TypeOK, Labels, barVars
  <2>2. MutexInv'
    BY <1>2 DEF CreateFails, TypeOK, MutexInv, Holds, FailedInv, barVars
  <2>3. RoundsInv'
    BY <1>2 DEF CreateFails, TypeOK, RoundsInv, FailedInv, barVars
  <2>4. FailedInv'
    BY <1>2 DEF CreateFails, TypeOK, FailedInv, barVars
  <2> QED
    BY <2>1, <2>2, <2>3, <2>4
<1>3. CASE Join
  <2>1. TypeOK'
    <3>1. next' \in Threads /\ main' \in {"create", "join", "ended", "crashed"}
      BY <1>3 DEF Join, TypeOK
    <3> QED
      BY <1>3, <3>1 DEF Join, TypeOK, barVars
  <2>2. MutexInv'
    BY <1>3 DEF Join, TypeOK, MutexInv, Holds, FailedInv, barVars
  <2>3. RoundsInv'
    BY <1>3 DEF Join, TypeOK, RoundsInv, FailedInv, barVars
  <2>4. FailedInv'
    BY <1>3 DEF Join, TypeOK, FailedInv, barVars
  <2> QED
    BY <2>1, <2>2, <2>3, <2>4
<1>4. CASE JoinUnset
  <2>1. TypeOK'
    <3>1. next' \in Threads /\ main' \in {"create", "join", "ended", "crashed"}
      BY <1>4 DEF JoinUnset, TypeOK
    <3> QED
      BY <1>4, <3>1 DEF JoinUnset, TypeOK, barVars
  <2>2. MutexInv'
    BY <1>4 DEF JoinUnset, TypeOK, MutexInv, Holds, FailedInv, barVars
  <2>3. RoundsInv'
    BY <1>4 DEF JoinUnset, TypeOK, RoundsInv, FailedInv, barVars
  <2>4. FailedInv'
    BY <1>4 DEF JoinUnset, TypeOK, FailedInv, barVars
  <2> QED
    BY <2>1, <2>2, <2>3, <2>4
<1> QED
  BY <1>1, <1>2, <1>3, <1>4 DEF Main

-----------------------------------------------------------------------------
\* Counting the waiters of a semaphore.

LEMMA WaitersFinite ==
  ASSUME NEW s
  PROVE  /\ IsFiniteSet(Threads) /\ Cardinality(Threads) = N
         /\ IsFiniteSet(Waiters(s))
         /\ Cardinality(Waiters(s)) \in Nat
<1>1. IsFiniteSet(Threads) /\ Cardinality(Threads) = N
  BY FS_Interval, ConstantsAssumption DEF Threads
<1>2. Waiters(s) \in SUBSET Threads
  BY DEF Waiters
<1>3. IsFiniteSet(Waiters(s))
  BY <1>1, <1>2, FS_Subset
<1> QED
  BY <1>1, <1>3, FS_CardinalityType

\* Steps that leave the counter, the tokens and the waiters alone keep TokensInv.
LEMMA TokensFrame ==
  ASSUME TokensInv, UNCHANGED <<countReady, currentSem, sem>>,
         currentSem \in 0..1,
         \A s \in 0..1 : Waiters(s)' = Waiters(s),
         \A u \in Threads : Posting(u)' <=> Posting(u),
         \A u \in Threads : Posting(u) => idx'[u] = idx[u]
  PROVE  TokensInv'
<1>1. /\ Waiters(currentSem)' = Waiters(currentSem)
      /\ Waiters(1 - currentSem)' = Waiters(1 - currentSem)
  <2>1. 1 - currentSem \in 0..1
    OBVIOUS
  <2> QED
    BY <2>1
<1> QED
  BY <1>1 DEF TokensInv

\* Only the owner of the mutex can be in the post loop.
LEMMA OnePoster ==
  ASSUME Control, NEW t \in Threads, Holds(t) \/ mutex = 0,
         NEW u \in Threads, Posting(u)
  PROVE  u = t /\ mutex # 0
BY DEF Control, MutexInv, Holds, Posting, TypeOK, Threads

LEMMA TokensLock ==
  ASSUME IInv, NEW t \in Threads, Lock(t)
  PROVE  TokensInv' /\ \A u \in Threads : Completed(u)' = Completed(u)
<1> USE DEF IInv, TypeOK
<1>1. pc[t] = "work" /\ pc' = [pc EXCEPT ![t] = "count"]
  BY DEF Lock, Goto
<1>2. UNCHANGED <<countReady, currentSem, slot, idx, sem, yolt>>
  BY DEF Lock
<1>3. \A s \in 0..1 : Waiters(s)' = Waiters(s)
  BY <1>1, <1>2 DEF Waiters
<1>4. \A u \in Threads : Posting(u)' <=> Posting(u)
  BY <1>1 DEF Posting
<1>5. TokensInv'
  BY <1>2, <1>3, <1>4, TokensFrame
<1>6. \A u \in Threads : Completed(u)' = Completed(u)
  BY <1>1, <1>2, <1>3, <1>4 DEF Completed
<1> QED
  BY <1>5, <1>6

LEMMA TokensEnterEarly ==
  ASSUME IInv, NEW t \in Threads, EnterEarly(t)
  PROVE  TokensInv' /\ \A u \in Threads : Completed(u)' = Completed(u)
<1> USE DEF IInv, TypeOK
<1>1. /\ pc[t] = "count" /\ pc' = [pc EXCEPT ![t] = "unlock"]
      /\ slot' = [slot EXCEPT ![t] = currentSem]
      /\ countReady' = countReady + 1
      /\ UNCHANGED <<currentSem, idx, sem, mutex, yolt>>
  BY DEF EnterEarly, Goto
<1>2. \A u \in Threads : ~Posting(u)
  BY <1>1, OnePoster DEF Control, Holds, Posting
<1>3. \A u \in Threads : ~Posting(u)'
  BY <1>1, <1>2 DEF Posting
<1>4. t \notin Waiters(currentSem) /\ t \notin Waiters(1 - currentSem)
  BY <1>1 DEF Waiters
<1>5. Waiters(currentSem)' = Waiters(currentSem) \cup {t}
  BY <1>1 DEF Waiters
<1>6. Waiters(1 - currentSem)' = Waiters(1 - currentSem)
  BY <1>1 DEF Waiters
<1>7. Cardinality(Waiters(currentSem)') = Cardinality(Waiters(currentSem)) + 1
  BY <1>4, <1>5, WaitersFinite, FS_AddElement
<1>8. TokensInv'
  BY <1>1, <1>2, <1>3, <1>6, <1>7 DEF TokensInv
<1>9. \A u \in Threads : Completed(u)' = Completed(u)
  BY <1>1, <1>2, <1>3, <1>5, <1>6 DEF Completed
<1> QED
  BY <1>8, <1>9

\* The last thread finds all the others waiting on the current semaphore, and
\* nobody left on the other one: all have completed one more phase.
LEMMA TokensEnterLast ==
  ASSUME IInv, NEW t \in Threads, EnterLast(t)
  PROVE  TokensInv' /\ \A u \in Threads : Completed(u)' = Completed(u) + 1
<1> USE DEF IInv, TypeOK
<1>1. /\ pc[t] = "count" /\ pc' = [pc EXCEPT ![t] = "post"]
      /\ countReady + 1 >= N /\ countReady' = 0
      /\ idx' = [idx EXCEPT ![t] = 1]
      /\ UNCHANGED <<currentSem, slot, sem, mutex, yolt>>
  BY DEF EnterLast, Goto
<1>2. \A u \in Threads : ~Posting(u)
  BY <1>1, OnePoster DEF Control, Holds, Posting
<1>3. /\ sem[currentSem] = 0
      /\ Cardinality(Waiters(currentSem)) = N - 1
      /\ Cardinality(Waiters(1 - currentSem)) = sem[1 - currentSem]
  BY <1>1, <1>2, ConstantsAssumption DEF TokensInv
<1>4. Waiters(currentSem) = Threads \ {t}
  <2>1. /\ IsFiniteSet(Threads \ {t})
        /\ Cardinality(Threads \ {t}) = N - 1
    BY WaitersFinite, FS_RemoveElement
  <2>2. Waiters(currentSem) \in SUBSET (Threads \ {t})
    BY <1>1 DEF Waiters
  <2> QED
    BY <2>1, <2>2, <1>3, FS_Subset
<1>5. Waiters(1 - currentSem) = {}
  BY <1>4, <1>1 DEF Waiters
<1>6. sem[1 - currentSem] = 0
  BY <1>3, <1>5, FS_EmptySet
<1>7. /\ Waiters(currentSem)' = Waiters(currentSem)
      /\ Waiters(1 - currentSem)' = Waiters(1 - currentSem)
  BY <1>1 DEF Waiters
<1>8. \A u \in Threads : Posting(u)' <=> u = t
  BY <1>1, <1>2 DEF Posting
<1>9. TokensInv'
  BY <1>1, <1>3, <1>5, <1>6, <1>7, <1>8, ConstantsAssumption DEF TokensInv
<1>10. \A u \in Threads : pc[u] \notin {"post", "flip", "release"}
  BY <1>1 DEF MutexInv, Holds
<1>11. \A u \in Threads : Completed(u) = yolt[u]
  BY <1>2, <1>5, <1>10 DEF Completed
<1>12. \A u \in Threads : Completed(u)' = yolt[u] + 1
  BY <1>1, <1>4, <1>7, <1>8 DEF Completed
<1> QED
  BY <1>9, <1>11, <1>12

LEMMA TokensUnlock ==
  ASSUME IInv, NEW t \in Threads, Unlock(t)
  PROVE  TokensInv' /\ \A u \in Threads : Completed(u)' = Completed(u)
<1> USE DEF IInv, TypeOK
<1>1. pc[t] = "unlock" /\ pc' = [pc EXCEPT ![t] = "wait"]
  BY DEF Unlock, Goto
<1>2. UNCHANGED <<countReady, currentSem, slot, idx, sem, yolt>>
  BY DEF Unlock
<1>3. \A s \in 0..1 : Waiters(s)' = Waiters(s)
  BY <1>1, <1>2 DEF Waiters
<1>4. \A u \in Threads : Posting(u)' <=> Posting(u)
  BY <1>1 DEF Posting
<1>5. TokensInv'
  BY <1>2, <1>3, <1>4, TokensFrame
<1>6. \A u \in Threads : Completed(u)' = Completed(u)
  BY <1>1, <1>2, <1>3, <1>4 DEF Completed
<1> QED
  BY <1>5, <1>6

\* A token of the current semaphore can only be there while its waiters are
\* being woken, so whoever takes one has completed the phase.
LEMMA TokensSemWait ==
  ASSUME IInv, NEW t \in Threads, SemWait(t)
  PROVE  TokensInv' /\ \A u \in Threads : Completed(u)' = Completed(u)
<1> USE DEF IInv, TypeOK
<1>0. PICK s : s = slot[t]
  OBVIOUS
<1>1. /\ pc[t] = "wait" /\ s \in 0..1 /\ sem[s] > 0
      /\ \E l \in {"work", "exit"} : pc' = [pc EXCEPT ![t] = l]
      /\ sem' = [sem EXCEPT ![s] = @ - 1]
      /\ yolt' = [yolt EXCEPT ![t] = @ + 1]
      /\ UNCHANGED <<countReady, currentSem, slot, idx, mutex>>
  BY <1>0 DEF SemWait, Return, Goto
<1>2. t \in Waiters(s) /\ t \notin Waiters(1 - s)
  BY <1>0, <1>1 DEF Waiters
<1>3. /\ Waiters(s)' = Waiters(s) \ {t}
      /\ Waiters(1 - s)' = Waiters(1 - s)
  BY <1>0, <1>1 DEF Waiters
<1>4. Cardinality(Waiters(s)') = Cardinality(Waiters(s)) - 1
  <2>1. IsFiniteSet(Waiters(s))
    BY WaitersFinite
  <2>2. Cardinality(Waiters(s) \ {t}) = Cardinality(Waiters(s)) - 1
    BY <1>2, <2>1, FS_RemoveElement
  <2> QED
    BY <1>3, <2>2
<1>5. \A u \in Threads : Posting(u)' <=> Posting(u)
  BY <1>1 DEF Posting
<1>6. CASE s = currentSem
  <2>1. PICK p \in Threads : Posting(p)
    BY <1>1, <1>6 DEF TokensInv
  <2>2. TokensInv'
    <3>1. /\ Cardinality(Waiters(currentSem)') = Cardinality(Waiters(currentSem)) - 1
          /\ Waiters(1 - currentSem)' = Waiters(1 - currentSem)
          /\ sem'[currentSem] = sem[currentSem] - 1
          /\ sem'[1 - currentSem] = sem[1 - currentSem]
      BY <1>1, <1>3, <1>4, <1>6
    <3>2. \A u \in Threads : Posting(u) =>
             /\ countReady = 0 /\ Waiters(1 - currentSem) = {} /\ sem[1 - currentSem] = 0
             /\ Cardinality(Waiters(currentSem)) = sem[currentSem] + N - idx[u]
      BY DEF TokensInv
    <3>3. \A u \in Threads : Posting(u)' =>
             /\ countReady' = 0 /\ Waiters(1 - currentSem)' = {} /\ sem'[1 - currentSem] = 0
             /\ Cardinality(Waiters(currentSem)') = sem'[currentSem] + N - idx'[u]
      BY <1>1, <1>5, <3>1, <3>2, ConstantsAssumption
    <3> QED
      BY <1>1, <1>5, <2>1, <3>3 DEF TokensInv
  <2>3. Completed(t) = yolt[t] + 1 /\ Completed(t)' = yolt'[t]
    BY <1>1, <1>2, <1>6, <2>1 DEF Completed, Waiters
  <2>4. \A u \in Threads \ {t} : Completed(u)' = Completed(u)
    BY <1>1, <1>3, <1>5, <1>6 DEF Completed
  <2> QED
    BY <1>1, <2>2, <2>3, <2>4
<1>7. CASE s = 1 - currentSem
  <2>1. \A u \in Threads : ~Posting(u)
    BY <1>1, <1>7 DEF TokensInv
  <2>2. TokensInv'
    <3>1. /\ Cardinality(Waiters(1 - currentSem)') = Cardinality(Waiters(1 - currentSem)) - 1
          /\ Waiters(currentSem)' = Waiters(currentSem)
          /\ sem'[currentSem] = sem[currentSem]
          /\ sem'[1 - currentSem] = sem[1 - currentSem] - 1
      <4>1. Waiters(1 - currentSem)' = Waiters(s)' /\ Waiters(currentSem)' = Waiters(1 - s)'
        BY <1>1, <1>7 DEF Waiters
      <4>2. Waiters(1 - currentSem) = Waiters(s) /\ Waiters(currentSem) = Waiters(1 - s)
        BY <1>1, <1>7 DEF Waiters
      <4>3. Cardinality(Waiters(1 - currentSem)') = Cardinality(Waiters(1 - currentSem)) - 1
        BY <1>4, <4>1, <4>2
      <4>4. Waiters(currentSem)' = Waiters(currentSem)
        BY <1>3, <4>1, <4>2
      <4>5. sem'[currentSem] = sem[currentSem] /\ sem'[1 - currentSem] = sem[1 - currentSem] - 1
        BY <1>1, <1>7
      <4> QED
        BY <4>3, <4>4, <4>5
    <3>2. /\ sem[currentSem] = 0
          /\ Cardinality(Waiters(currentSem)) = countReady
          /\ Cardinality(Waiters(1 - currentSem)) = sem[1 - currentSem]
      BY <2>1 DEF TokensInv
    <3> QED
      BY <1>1, <1>5, <2>1, <3>1, <3>2 DEF TokensInv
  <2>3. Completed(t) = yolt[t] + 1 /\ Completed(t)' = yolt'[t]
    BY <1>1, <1>2, <1>7 DEF Completed, Waiters
  <2>4. \A u \in Threads \ {t} : Completed(u)' = Completed(u)
    BY <1>1, <1>3, <1>5, <1>7 DEF Completed
  <2> QED
    BY <1>1, <2>2, <2>3, <2>4
<1> QED
  BY <1>1, <1>6, <1>7

LEMMA TokensPost ==
  ASSUME IInv, NEW t \in Threads, Post(t)
  PROVE  TokensInv' /\ \A u \in Threads : Completed(u)' = Completed(u)
<1> USE DEF IInv, TypeOK
<1>1. /\ pc[t] = "post" /\ Posting(t)
      /\ sem' = [sem EXCEPT ![currentSem] = @ + 1]
      /\ idx' = [idx EXCEPT ![t] = @ + 1]
      /\ UNCHANGED <<countReady, currentSem, slot, mutex, pc, yolt>>
  BY DEF Post, Posting
<1>2. \A u \in Threads : Posting(u) => u = t
  BY <1>1, OnePoster DEF Control, Holds
<1>3. /\ Waiters(currentSem)' = Waiters(currentSem)
      /\ Waiters(1 - currentSem)' = Waiters(1 - currentSem)
      /\ \A u \in Threads : Posting(u)' <=> Posting(u)
  BY <1>1 DEF Waiters, Posting
<1>4. TokensInv'
  <2>1. /\ sem'[currentSem] = sem[currentSem] + 1
        /\ sem'[1 - currentSem] = sem[1 - currentSem]
        /\ idx'[t] = idx[t] + 1 /\ idx[t] \in Nat
    BY <1>1
  <2>2. /\ countReady = 0 /\ Waiters(1 - currentSem) = {} /\ sem[1 - currentSem] = 0
        /\ Cardinality(Waiters(currentSem)) = sem[currentSem] + N - idx[t]
    BY <1>1 DEF TokensInv
  <2> QED
    BY <1>1, <1>2, <1>3, <2>1, <2>2, ConstantsAssumption DEF TokensInv
<1>5. \A u \in Threads : Completed(u)' = Completed(u)
  BY <1>1, <1>3 DEF Completed
<1> QED
  BY <1>4, <1>5

LEMMA TokensPostsDone ==
  ASSUME IInv, NEW t \in Threads, PostsDone(t)
  PROVE  TokensInv' /\ \A u \in Threads : Completed(u)' = Completed(u)
<1> USE DEF IInv, TypeOK
<1>1. pc[t] = "post" /\ pc' = [pc EXCEPT ![t] = "flip"]
  BY DEF PostsDone, Goto
<1>2. UNCHANGED <<countReady, currentSem, slot, idx, sem, yolt>>
  BY DEF PostsDone, barVars
<1>3. \A s \in 0..1 : Waiters(s)' = Waiters(s)
  BY <1>1, <1>2 DEF Waiters
<1>4. \A u \in Threads : Posting(u)' <=> Posting(u)
  BY <1>1 DEF Posting
<1>5. TokensInv'
  BY <1>2, <1>3, <1>4, TokensFrame
<1>6. \A u \in Threads : Completed(u)' = Completed(u)
  BY <1>1, <1>2, <1>3, <1>4 DEF Completed
<1> QED
  BY <1>5, <1>6

\* When the semaphores change roles, the woken threads are the waiters of what
\* is now the other one, with a token for each of them.
LEMMA TokensFlip ==
  ASSUME IInv, NEW t \in Threads, Flip(t)
  PROVE  TokensInv' /\ \A u \in Threads : Completed(u)' = Completed(u)
<1> USE DEF IInv, TypeOK
<1>1. /\ pc[t] = "flip" /\ Posting(t)
      /\ currentSem' = 1 - currentSem
      /\ pc' = [pc EXCEPT ![t] = "release"]
      /\ idx[t] = N
      /\ UNCHANGED <<countReady, slot, sem, mutex, yolt>>
  BY DEF Flip, Goto, Posting, RoundsInv
<1>2. \A u \in Threads : Posting(u) => u = t
  BY <1>1, OnePoster DEF Control, Holds
<1>3. \A u \in Threads : ~Posting(u)'
  BY <1>1, <1>2 DEF Posting
<1>4. /\ Waiters(currentSem)' = Waiters(1 - currentSem)
      /\ Waiters(1 - currentSem)' = Waiters(currentSem)
  BY <1>1 DEF Waiters
<1>5. /\ countReady = 0 /\ sem[1 - currentSem] = 0
      /\ Waiters(1 - currentSem) = {}
      /\ Cardinality(Waiters(currentSem)) = sem[currentSem]
  BY <1>1, ConstantsAssumption DEF TokensInv
<1>6. TokensInv'
  <2>1. sem'[currentSem'] = 0
    BY <1>1, <1>5
  <2>2. Cardinality(Waiters(currentSem)') = countReady'
    BY <1>1, <1>4, <1>5, FS_EmptySet
  <2>3. Cardinality(Waiters(1 - currentSem)') = sem'[1 - currentSem']
    BY <1>1, <1>4, <1>5
  <2> QED
    BY <1>3, <2>1, <2>2, <2>3 DEF TokensInv
<1>7. \A u \in Threads : Completed(u)' = Completed(u)
  BY <1>1, <1>2, <1>3, <1>4, <1>5 DEF Completed
<1> QED
  BY <1>6, <1>7

LEMMA TokensRelease ==
  ASSUME IInv, NEW t \in Threads, Release(t)
  PROVE  TokensInv' /\ \A u \in Threads : Completed(u)' = Completed(u)
<1> USE DEF IInv, TypeOK
<1>1. /\ pc[t] = "release"
      /\ \E l \in {"work", "exit"} : pc' = [pc EXCEPT ![t] = l]
      /\ yolt' = [yolt EXCEPT ![t] = @ + 1]
      /\ UNCHANGED <<countReady, currentSem, slot, idx, sem>>
  BY DEF Release, Return, Goto
<1>2. \A s \in 0..1 : Waiters(s)' = Waiters(s)
  BY <1>1 DEF Waiters
<1>3. \A u \in Threads : Posting(u)' <=> Posting(u)
  BY <1>1 DEF Posting
<1>4. TokensInv'
  BY <1>1, <1>2, <1>3, TokensFrame
<1>5. Completed(t)' = Completed(t)
  BY <1>1 DEF Completed, Waiters
<1>6. \A u \in Threads \ {t} : Completed(u)' = Completed(u)
  BY <1>1, <1>2, <1>3 DEF Completed
<1> QED
  BY <1>4, <1>5, <1>6

LEMMA TokensMain ==
  ASSUME IInv, Main
  PROVE  TokensInv' /\ \A u \in Threads : Completed(u)' = Completed(u)
<1> USE DEF IInv, TypeOK
<1>1. UNCHANGED <<countReady, currentSem, slot, idx, sem, yolt>>
  BY DEF Main, Create, CreateFails, Join, JoinUnset, barVars
<1>2. \/ pc' = pc
      \/ pc[next] = "none" /\ next \in Threads /\ pc' = [pc EXCEPT ![next] = "work"]
  BY ConstantsAssumption DEF Main, Create, CreateFails, Join, JoinUnset, Goto, FailedInv, Threads
<1>3. \A s \in 0..1 : Waiters(s)' = Waiters(s)
  BY <1>1, <1>2 DEF Waiters
<1>4. \A u \in Threads : Posting(u)' <=> Posting(u)
  BY <1>1, <1>2 DEF Posting
<1>5. TokensInv'
  BY <1>1, <1>3, <1>4, TokensFrame
<1>6. \A u \in Threads : Completed(u)' = Completed(u)
  BY <1>1, <1>2, <1>3, <1>4 DEF Completed
<1> QED
  BY <1>5, <1>6

-----------------------------------------------------------------------------
\* The theorems.

LEMMA InductiveInit == Init => IInv
<1> SUFFICES ASSUME Init PROVE IInv
  OBVIOUS
<1>1. Control
  BY ControlInit
<1>2. \A s : Waiters(s) = {}
  BY DEF Init, Waiters, Threads
<1>3. TokensInv
  <2>1. Waiters(currentSem) = {} /\ Waiters(1 - currentSem) = {}
    BY <1>2
  <2>2. sem[currentSem] = 0 /\ sem[1 - currentSem] = 0 /\ countReady = 0
    BY DEF Init
  <2>3. \A t \in Threads : ~Posting(t)
    BY DEF Init, Posting, Threads
  <2> QED
    BY <2>1, <2>2, <2>3, FS_EmptySet DEF TokensInv
<1>4. PhaseInv
  BY <1>2 DEF Init, PhaseInv, Completed, Threads
<1> QED
  BY <1>1, <1>3, <1>4 DEF IInv, Control

LEMMA InductiveStep == IInv /\ [Next]_vars => IInv'
<1> SUFFICES ASSUME IInv, [Next]_vars PROVE IInv'
  OBVIOUS
<1>1. ASSUME NEW t \in Threads, Worker(t)
      PROVE  TokensInv' /\ PhaseInv'
  <2>1. \A u \in Threads : Completed(u) \in Int
    BY DEF IInv, TypeOK, Completed
  <2>2. /\ TokensInv'
        /\ \/ \A u \in Threads : Completed(u)' = Completed(u)
           \/ \A u \in Threads : Completed(u)' = Completed(u) + 1
    BY <1>1, TokensLock, TokensEnterEarly, TokensEnterLast, TokensUnlock, TokensSemWait,
       TokensPost, TokensPostsDone, TokensFlip, TokensRelease DEF Worker
  <2>3. PhaseInv'
    BY <2>1, <2>2 DEF IInv, PhaseInv, Threads
  <2> QED
    BY <2>2, <2>3
<1>2. ASSUME Main
      PROVE  TokensInv' /\ PhaseInv'
  <2>1. TokensInv' /\ \A u \in Threads : Completed(u)' = Completed(u)
    BY <1>2, TokensMain
  <2> QED
    BY <2>1 DEF IInv, PhaseInv, Threads
<1>3. ASSUME Next
      PROVE  IInv'
  <2>1. Control'
    BY <1>3, ControlWorker, ControlMain DEF Next, IInv, Control
  <2>2. TokensInv' /\ PhaseInv'
    BY <1>1, <1>2, <1>3 DEF Next
  <2> QED
    BY <2>1, <2>2 DEF Control, IInv
<1>4. CASE UNCHANGED vars
  <2> USE <1>4 DEF vars, barVars, mainVars, IInv
  <2>1. /\ \A s : Waiters(s)' = Waiters(s)
        /\ \A u \in Threads : Posting(u)' <=> Posting(u)
    BY DEF Waiters, Posting
  <2>2. \A u \in Threads : Completed(u)' = Completed(u)
    BY <2>1 DEF Completed
  <2>3. TokensInv' /\ PhaseInv'
    BY <2>1, <2>2, TokensFrame DEF TypeOK, PhaseInv
  <2>4. TypeOK' /\ MutexInv' /\ RoundsInv' /\ FailedInv'
    BY DEF TypeOK, MutexInv, RoundsInv, FailedInv, Holds
  <2> QED
    BY <2>3, <2>4
<1> QED
  BY <1>3, <1>4

\* The inductive invariant holds for every number of threads and rounds: types,
\* ownership of barMutex, the count of tokens and waiters, and the common phase.
THEOREM BarrierInvariant == Spec => []IInv
<1> QED
  BY InductiveInit, InductiveStep, PTL DEF Spec

\* Every variable keeps its type, whatever the number of threads and rounds.
THEOREM BarrierTypes == Spec => []TypeOK
<1>1. IInv => TypeOK
  BY DEF IInv
<1> QED
  BY <1>1, BarrierInvariant, PTL

\* What the caller of Wait relies on: a call that has returned in any thread
\* has been made by every other thread.
LEMMA PhasesAgree == IInv => NoEarlyLeave
<1> SUFFICES ASSUME IInv, NEW t \in Threads, NEW u \in Threads
             PROVE  yolt[t] <= Arrived(u)
  BY DEF NoEarlyLeave
<1> USE DEF IInv, TypeOK
<1>1. yolt[t] <= Completed(t)
  BY DEF Completed
<1>2. Completed(u) <= Arrived(u)
  BY DEF Completed, Arrived, Inside, Waiters
<1>3. /\ Completed(t) = Completed(u) /\ Completed(t) \in Int
      /\ Arrived(u) \in Int /\ yolt[t] \in Int
  BY DEF PhaseInv, Completed, Arrived
<1> QED
  BY <1>1, <1>2, <1>3

\* No call of Wait returns before all threads have made it (Wait, lines 35-59).
THEOREM BarrierSafe == Spec => []NoEarlyLeave
<1> QED
  BY BarrierInvariant, PhasesAgree, PTL

\* One failed pthread_create keeps every other thread in the barrier for good.
THEOREM ShortHanded == Spec => []ShortHandedStaysShut
<1>1. IInv => ShortHandedStaysShut
  <2> SUFFICES ASSUME IInv, NEW f \in failed, NEW t \in Threads
               PROVE  yolt[t] = 0
    BY DEF ShortHandedStaysShut
  <2>1. f \in Threads /\ pc[f] = "none" /\ yolt[f] = 0
    BY DEF IInv, TypeOK, FailedInv, RoundsInv
  <2>2. Arrived(f) = 0
    BY <2>1 DEF Arrived, Inside
  <2>3. yolt[t] <= 0 /\ yolt[t] \in Nat
    BY <2>1, <2>2, PhasesAgree DEF NoEarlyLeave, IInv, TypeOK
  <2> QED
    BY <2>3
<1> QED
  BY <1>1, BarrierInvariant, PTL

-----------------------------------------------------------------------------
\* The end of main: every thread it created was joined.

\* main has joined, or knows as failed, every thread its join loop has passed;
\* no thread is created any more.
JoinInv == /\ main = "join" => \A t \in 1..(next - 1) : pc[t] \in {"none", "exit"}
           /\ main = "ended" => \A t \in Threads : pc[t] \in {"none", "exit"}

LEMMA JoinStep ==
  ASSUME IInv, JoinInv, [Next]_vars
  PROVE  JoinInv'
<1> USE ConstantsAssumption DEF IInv, TypeOK, Threads
<1>1. ASSUME NEW t \in Threads, Worker(t)
      PROVE  JoinInv'
  <2>1. UNCHANGED <<main, next>>
    BY <1>1 DEF Worker, mainVars
  <2>2. pc[t] \notin {"none", "exit"}
    BY <1>1 DEF Worker, Lock, EnterEarly, EnterLast, Unlock, SemWait, Post, PostsDone, Flip,
                Release
  <2>3. \A u \in Threads : u # t => pc'[u] = pc[u]
    BY <1>1 DEF Worker, Lock, EnterEarly, EnterLast, Unlock, SemWait, Post, PostsDone, Flip,
                Release, Return, Goto
  <2>4. \A u \in Threads : pc[u] \in {"none", "exit"} => pc'[u] = pc[u]
    BY <2>2, <2>3
  <2>5. 1..(next - 1) \subseteq Threads
    OBVIOUS
  <2>6. /\ main = "join" => \A u \in 1..(next - 1) : pc'[u] \in {"none", "exit"}
        /\ main = "ended" => \A u \in Threads : pc'[u] \in {"none", "exit"}
    BY <2>4, <2>5 DEF JoinInv
  <2> QED
    BY <2>1, <2>6 DEF JoinInv
<1>2. CASE Create \/ CreateFails
  <2>1. main = "create" /\ main' \in {"create", "join"} /\ (main' = "join" => next' = 1)
    BY <1>2 DEF Create, CreateFails, Advance
  <2> QED
    BY <2>1 DEF JoinInv
<1>3. CASE Join \/ JoinUnset
  <2>1. main = "join" /\ UNCHANGED pc /\ pc[next] \in {"none", "exit"}
    BY <1>3 DEF Join, JoinUnset, FailedInv
  <2>2. \A t \in 1..next : pc[t] \in {"none", "exit"}
    BY <2>1 DEF JoinInv
  <2>3. \/ main' = "join" /\ next' = next + 1
        \/ main' = "ended" /\ next = N
        \/ main' = "crashed"
    BY <1>3, <2>1 DEF Join, JoinUnset, Advance
  <2> QED
    BY <2>1, <2>2, <2>3 DEF JoinInv
<1>4. CASE UNCHANGED vars
  BY <1>4 DEF vars, mainVars, JoinInv
<1> QED
  BY <1>1, <1>2, <1>3, <1>4 DEF Next, Main

\* With every thread outside of Wait the counts of IInv leave nothing over.
LEMMA IdleAtEnd == IInv /\ JoinInv => CleanShutdown
<1> SUFFICES ASSUME IInv, JoinInv, main = "ended" PROVE CleanShutdown
  BY DEF CleanShutdown
<1> USE DEF IInv, TypeOK
<1>1. \A t \in Threads : pc[t] \in {"none", "exit"}
  BY DEF JoinInv
<1>2. mutex = 0
  BY <1>1 DEF MutexInv, Holds, Threads
<1>3. /\ \A t \in Threads : ~Posting(t)
      /\ \A s : Waiters(s) = {}
  BY <1>1 DEF Posting, Waiters
<1>4. Cardinality({}) = 0
  BY FS_EmptySet
<1>5. sem[currentSem] = 0 /\ sem[1 - currentSem] = 0 /\ countReady = 0
  BY <1>3, <1>4 DEF TokensInv
<1> QED
  BY <1>1, <1>2, <1>5 DEF CleanShutdown

\* When main destroys the mutex and closes the semaphores (lines 149-155) no
\* thread uses them any more, and no token and no count is left over.
THEOREM BarrierShutdown == Spec => []CleanShutdown
<1>1. Init => JoinInv
  BY DEF Init, JoinInv
<1>2. IInv /\ JoinInv /\ [Next]_vars => JoinInv'
  BY JoinStep
<1> QED
  BY <1>1, <1>2, BarrierInvariant, IdleAtEnd, PTL DEF Spec

-----------------------------------------------------------------------------
\* Refinement: what every step means for the callers of Wait.

\* A step that moves no thread in or out of Wait is a stutter.
LEMMA Quiet ==
  ASSUME UNCHANGED yolt, \A u \in Threads : Inside(u)' <=> Inside(u)
  PROVE  UNCHANGED AB!vars
BY DEF AB!vars, AbstractArrived, Arrived

\* countReady++ is the arrival.
LEMMA EnterArrives ==
  ASSUME IInv, NEW t \in Threads, EnterEarly(t) \/ EnterLast(t)
  PROVE  AB!Arrive(t)
<1> USE DEF IInv, TypeOK
<1>1. /\ pc[t] = "count" /\ UNCHANGED yolt
      /\ \E l \in {"unlock", "post"} : pc' = [pc EXCEPT ![t] = l]
  BY DEF EnterEarly, EnterLast, Goto
<1>2. yolt[t] < Rounds
  BY <1>1 DEF RoundsInv
<1>3. AbstractArrived[t] = yolt[t]
  BY <1>1 DEF AbstractArrived, Arrived, Inside
<1>4. AbstractArrived' = [AbstractArrived EXCEPT ![t] = @ + 1]
  BY <1>1 DEF AbstractArrived, Arrived, Inside
<1> QED
  BY <1>1, <1>2, <1>3, <1>4 DEF AB!Arrive

\* A return is a departure, allowed because every thread has arrived.
LEMMA ReturnLeaves ==
  ASSUME IInv, NEW t \in Threads, SemWait(t) \/ Release(t)
  PROVE  AB!Leave(t)
<1> USE DEF IInv, TypeOK
<1>1. /\ pc[t] \in {"wait", "release"}
      /\ \E l \in {"work", "exit"} : pc' = [pc EXCEPT ![t] = l]
      /\ yolt' = [yolt EXCEPT ![t] = @ + 1]
  BY DEF SemWait, Release, Return, Goto
<1>2. Completed(t) = yolt[t] + 1
  <2>1. CASE Release(t)
    BY <2>1 DEF Release, Completed
  <2>2. CASE SemWait(t)
    <3>1. t \in Waiters(slot[t]) /\ sem[slot[t]] > 0 /\ slot[t] \in {currentSem, 1 - currentSem}
      BY <2>2 DEF SemWait, Waiters
    <3>2. slot[t] = currentSem => \E u \in Threads : Posting(u)
      BY <3>1 DEF TokensInv
    <3> QED
      BY <3>1, <3>2 DEF Completed
  <2> QED
    BY <2>1, <2>2
<1>3. \A u \in Threads : Completed(u) = yolt[t] + 1 /\ Completed(u) <= Arrived(u)
  BY <1>2 DEF PhaseInv, Completed, Arrived, Inside, Waiters
<1>4. AbstractArrived[t] = yolt[t] + 1
  BY <1>1 DEF AbstractArrived, Arrived, Inside
<1>5. AbstractArrived' = AbstractArrived
  BY <1>1 DEF AbstractArrived, Arrived, Inside
<1>6. \A u \in Threads : AbstractArrived[t] <= AbstractArrived[u]
  BY <1>3, <1>4 DEF AbstractArrived
<1> QED
  BY <1>1, <1>4, <1>5, <1>6 DEF AB!Leave

\* The barrier of the program implements the abstract barrier.
THEOREM BarrierRefinement == Spec => ImplementsBarrier
<1>1. Init => AB!Init
  BY DEF Init, AB!Init, AbstractArrived, Arrived, Inside, Threads
<1>2. IInv /\ [Next]_vars => [AB!Next]_(AB!vars)
  <2> SUFFICES ASSUME IInv, [Next]_vars PROVE [AB!Next]_(AB!vars)
    OBVIOUS
  <2> USE DEF IInv, TypeOK
  <2>1. ASSUME NEW t \in Threads, Lock(t) \/ Unlock(t) \/ Post(t) \/ PostsDone(t) \/ Flip(t)
        PROVE  UNCHANGED AB!vars
    <3>1. UNCHANGED yolt
      BY <2>1 DEF Lock, Unlock, Post, PostsDone, Flip
    <3>2. \A u \in Threads : Inside(u)' <=> Inside(u)
      BY <2>1 DEF Lock, Unlock, Post, PostsDone, Flip, Goto, Inside
    <3> QED
      BY <3>1, <3>2, Quiet
  <2>2. ASSUME NEW t \in Threads, Worker(t)
        PROVE  [AB!Next]_(AB!vars)
    BY <2>1, <2>2, EnterArrives, ReturnLeaves DEF Worker, AB!Next
  <2>3. ASSUME Main
        PROVE  UNCHANGED AB!vars
    <3>1. UNCHANGED yolt
      BY <2>3 DEF Main, Create, CreateFails, Join, JoinUnset
    <3>2. \/ pc' = pc
          \/ pc[next] = "none" /\ pc' = [pc EXCEPT ![next] = "work"]
      BY <2>3, ConstantsAssumption
         DEF Main, Create, CreateFails, Join, JoinUnset, Goto, FailedInv, Threads
    <3>3. \A u \in Threads : Inside(u)' <=> Inside(u)
      BY <3>2 DEF Inside
    <3> QED
      BY <3>1, <3>3, Quiet
  <2>4. CASE UNCHANGED vars
    <3>1. UNCHANGED yolt /\ UNCHANGED pc
      BY <2>4 DEF vars
    <3>2. \A u \in Threads : Inside(u)' <=> Inside(u)
      BY <3>1 DEF Inside
    <3> QED
      BY <3>1, <3>2, Quiet
  <2> QED
    BY <2>2, <2>3, <2>4 DEF Next
<1> QED
  BY <1>1, <1>2, BarrierInvariant, PTL DEF Spec, ImplementsBarrier, AB!Spec
=============================================================================
