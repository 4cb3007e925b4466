-------------------------- MODULE StackQueueProofs --------------------------
(***************************************************************************)
(* The stack and the queue of pthread_stack_queue.cpp are right for every  *)
(* number of children: the inductive invariant IInv, the safety properties *)
(* that follow from it, and the refinement of AbstractChannel, once as a   *)
(* stack and once as a queue.                                              *)
(***************************************************************************)
EXTENDS StackQueue, FiniteSetTheorems, SequenceTheorems, WellFoundedInduction, TLAPS

-----------------------------------------------------------------------------
\* Lists.

\* Every nonempty set of numbers has a least one: induction over positions.
LEMMA Least ==
  ASSUME NEW T, T \subseteq Nat, T # {}
  PROVE  \E m \in T : \A k \in T : ~ (k < m)
<1>1. PICK m \in T : \A k \in T : ~ (<<k, m>> \in OpToRel(<, Nat))
  BY NatLessThanWellFounded, WFMin
<1>2. ASSUME NEW k \in T PROVE ~ (k < m)
  <2>1. k \in Nat /\ m \in Nat OBVIOUS
  <2>. QED BY <1>1, <2>1, Zenon DEF OpToRel
<1>. QED BY <1>2

\* Chain follows the pointers: it finds the list that Linked describes, and no
\* other, since two walks from one start cannot differ for a first time.
LEMMA ChainIs ==
  ASSUME NEW n \in Nat, NEW s \in [1..n -> Children], NEW start, NEW nxt, Linked(s, n, start, nxt)
  PROVE  Chain(start, nxt, n) = s
<1>. DEFINE Step1(f, k) == IF k = 1 THEN start
                           ELSE IF f[k - 1] = Null THEN Null ELSE nxt[f[k - 1]]
            Eqn(f) == f = [k \in 1..n |-> IF k = 1 THEN start
                                          ELSE IF f[k - 1] = Null THEN Null ELSE nxt[f[k - 1]]]
            node == CHOOSE f : Eqn(f)
<1>1. \A k \in 1..n : s[k] = Step1(s, k)
  <2>. SUFFICES ASSUME NEW k \in 1..n PROVE s[k] = Step1(s, k) OBVIOUS
  <2>1. CASE k = 1 BY <2>1 DEF Linked
  <2>2. CASE k # 1
    <3>1. k - 1 \in 1..n /\ k - 1 < n /\ (k - 1) + 1 = k BY <2>2
    <3>2. s[k - 1] # Null BY <3>1 DEF Children, Null
    <3>3. nxt[s[k - 1]] = s[k] BY <3>1 DEF Linked
    <3>. QED BY <2>2, <3>2, <3>3
  <2>. QED BY <2>1, <2>2
<1>2. Eqn(s) BY <1>1
<1>3. Eqn(node) BY <1>2, Zenon
<1>4. ASSUME NEW f, Eqn(f) PROVE f = s
  <2>1. \A k \in 1..n : f[k] = Step1(f, k) BY <1>4, Zenon
  <2>2. \A k \in 1..n : f[k] = s[k]
    <3>. DEFINE Bad == {k \in 1..n : f[k] # s[k]}
    <3>. SUFFICES ASSUME Bad # {} PROVE FALSE OBVIOUS
    <3>1. Bad \subseteq Nat OBVIOUS
    <3>2. PICK m \in Bad : \A k \in Bad : ~ (k < m) BY <3>1, Least, Zenon
    <3>3. m # 1 BY <1>1, <2>1
    <3>4. m - 1 \in 1..n /\ m - 1 < m BY <3>3
    <3>5. f[m - 1] = s[m - 1] BY <3>2, <3>4
    <3>. QED BY <1>1, <2>1, <3>3, <3>5
  <2>3. f = [k \in 1..n |-> f[k]] BY <1>4, Zenon
  <2>. QED BY <2>2, <2>3
<1>5. node = s BY <1>3, <1>4
<1>6. Chain(start, nxt, n) = [k \in 1..n |-> node[k]] BY Zenon DEF Chain
<1>. QED BY <1>5, <1>6

\* A list with a new first element: what Stack::Push makes.
LEMMA PushedFront ==
  ASSUME NEW n \in Nat, NEW s \in [1..n -> Children], NEW got \in Seq(Children), NEW S,
         Shared(s, n, got, S), NEW c \in Children, c \notin S,
         NEW s2, s2 = [k \in 1 .. n + 1 |-> IF k = 1 THEN c ELSE s[k - 1]]
  PROVE  /\ s2 \in [1 .. n + 1 -> Children]
         /\ Shared(s2, n + 1, got, S \cup {c})
<1>. DEFINE m == Len(got)
<1>0. \A k \in 1 .. n + 1 : k = 1 \/ k - 1 \in 1..n OBVIOUS
<1>1. s2 \in [1 .. n + 1 -> Children] BY <1>0
<1>2. /\ s2[1] = c
      /\ \A k \in 1..n : k + 1 \in 1 .. n + 1 /\ s2[k + 1] = s[k]
      /\ \A k \in 1 .. n + 1 : k # 1 => s2[k] = s[k - 1]
  BY <1>0
<1>3. /\ \A j, k \in 1..n : s[j] = s[k] => j = k
      /\ \A j, k \in 1..m : got[j] = got[k] => j = k
      /\ \A j \in 1..n, k \in 1..m : s[j] # got[k]
      /\ \A d \in Children : d \in S <=> \/ \E j \in 1..n : s[j] = d
                                         \/ \E k \in 1..m : got[k] = d
  BY Zenon DEF Shared
<1>4. (\A j \in 1..n : s[j] # c) /\ (\A k \in 1..m : got[k] # c) BY <1>3, Zenon
<1>5. ASSUME NEW j \in 1 .. n + 1, NEW k \in 1 .. n + 1, s2[j] = s2[k] PROVE j = k
  <2>1. CASE j = 1 /\ k # 1 BY <1>0, <1>2, <1>4, <1>5, <2>1
  <2>2. CASE j # 1 /\ k = 1 BY <1>0, <1>2, <1>4, <1>5, <2>2
  <2>3. CASE j # 1 /\ k # 1
    <3>1. j - 1 = k - 1 BY <1>0, <1>2, <1>3, <1>5, <2>3
    <3>. QED BY <3>1
  <2>. QED BY <2>1, <2>2, <2>3
<1>6. \A j \in 1 .. n + 1, k \in 1..m : s2[j] # got[k] BY <1>0, <1>2, <1>3, <1>4
<1>7. ASSUME NEW d \in Children
      PROVE  d \in S \cup {c} <=> \/ \E j \in 1 .. n + 1 : s2[j] = d
                                  \/ \E k \in 1..m : got[k] = d
  <2>0. 1 \in 1 .. n + 1 OBVIOUS
  <2>1. (\E j \in 1 .. n + 1 : s2[j] = d) <=> d = c \/ \E j \in 1..n : s[j] = d
    <3>1. ASSUME NEW j \in 1 .. n + 1, s2[j] = d PROVE d = c \/ \E k \in 1..n : s[k] = d
      BY <1>0, <1>2, <3>1
    <3>2. d = c => s2[1] = d BY <1>2
    <3>3. ASSUME NEW j \in 1..n, s[j] = d PROVE \E k \in 1 .. n + 1 : s2[k] = d
      BY <1>2, <3>3
    <3>. QED BY <2>0, <3>1, <3>2, <3>3, Zenon
  <2>. QED BY <1>3, <2>1, Zenon
<1>8. Shared(s2, n + 1, got, S \cup {c}) BY <1>3, <1>5, <1>6, <1>7, Zenon DEF Shared
<1>. QED BY <1>1, <1>8, Zenon

LEMMA LinkedFront ==
  ASSUME NEW n \in Nat, NEW s \in [1..n -> Children], NEW start, NEW nxt,
         Linked(s, n, start, nxt), NEW c \in Children, nxt[c] = start,
         NEW s2, s2 = [k \in 1 .. n + 1 |-> IF k = 1 THEN c ELSE s[k - 1]]
  PROVE  Linked(s2, n + 1, c, nxt)
<1>1. /\ s2[1] = c
      /\ \A k \in 1..n : k + 1 \in 1 .. n + 1 /\ s2[k + 1] = s[k]
      /\ \A k \in 1 .. n + 1 : k # 1 => s2[k] = s[k - 1]
  OBVIOUS
<1>2. ASSUME NEW k \in 1 .. n + 1, k < n + 1 PROVE nxt[s2[k]] = s2[k + 1]
  <2>1. k \in 1..n BY <1>2
  <2>2. s2[k + 1] = s[k] BY <1>1, <2>1
  <2>3. CASE k = 1 BY <1>1, <2>1, <2>2, <2>3 DEF Linked
  <2>4. CASE k # 1
    <3>1. k - 1 \in 1..n /\ k - 1 < n /\ (k - 1) + 1 = k BY <2>1, <2>4
    <3>2. nxt[s[k - 1]] = s[k] BY <3>1 DEF Linked
    <3>. QED BY <1>1, <2>2, <2>4, <3>2
  <2>. QED BY <2>3, <2>4
<1>. QED BY <1>1, <1>2, Zenon DEF Linked

\* A list with a new last element: what Queue::Push makes.
LEMMA PushedBack ==
  ASSUME NEW n \in Nat, NEW s \in [1..n -> Children], NEW got \in Seq(Children), NEW S,
         Shared(s, n, got, S), NEW c \in Children, c \notin S,
         NEW s2, s2 = [k \in 1 .. n + 1 |-> IF k = n + 1 THEN c ELSE s[k]]
  PROVE  /\ s2 \in [1 .. n + 1 -> Children]
         /\ Shared(s2, n + 1, got, S \cup {c})
<1>. DEFINE m == Len(got)
<1>0. \A k \in 1 .. n + 1 : k = n + 1 \/ k \in 1..n OBVIOUS
<1>1. s2 \in [1 .. n + 1 -> Children] BY <1>0
<1>2. /\ s2[n + 1] = c /\ n + 1 \in 1 .. n + 1
      /\ \A k \in 1..n : k \in 1 .. n + 1 /\ s2[k] = s[k] /\ k # n + 1
  BY <1>0
<1>3. /\ \A j, k \in 1..n : s[j] = s[k] => j = k
      /\ \A j, k \in 1..m : got[j] = got[k] => j = k
      /\ \A j \in 1..n, k \in 1..m : s[j] # got[k]
      /\ \A d \in Children : d \in S <=> \/ \E j \in 1..n : s[j] = d
                                         \/ \E k \in 1..m : got[k] = d
  BY Zenon DEF Shared
<1>4. (\A j \in 1..n : s[j] # c) /\ (\A k \in 1..m : got[k] # c) BY <1>3, Zenon
<1>5. \A j, k \in 1 .. n + 1 : s2[j] = s2[k] => j = k BY <1>0, <1>2, <1>3, <1>4, Zenon
<1>6. \A j \in 1 .. n + 1, k \in 1..m : s2[j] # got[k] BY <1>0, <1>2, <1>3, <1>4, Zenon
<1>7. ASSUME NEW d \in Children
      PROVE  d \in S \cup {c} <=> \/ \E j \in 1 .. n + 1 : s2[j] = d
                                  \/ \E k \in 1..m : got[k] = d
  <2>1. (\E j \in 1 .. n + 1 : s2[j] = d) <=> d = c \/ \E j \in 1..n : s[j] = d
    BY <1>0, <1>2, Zenon
  <2>. QED BY <1>3, <2>1, Zenon
<1>8. Shared(s2, n + 1, got, S \cup {c}) BY <1>3, <1>5, <1>6, <1>7, Zenon DEF Shared
<1>. QED BY <1>1, <1>8, Zenon

LEMMA LinkedBack ==
  ASSUME NEW n \in Nat, NEW s \in [1..n -> Children], \A j, k \in 1..n : s[j] = s[k] => j = k,
         NEW start, NEW nxt \in [Children -> 0..N], Linked(s, n, start, nxt), NEW c \in Children,
         NEW s2, s2 = [k \in 1 .. n + 1 |-> IF k = n + 1 THEN c ELSE s[k]]
  PROVE  n > 0 => Linked(s2, n + 1, start, [nxt EXCEPT ![s[n]] = c])
<1>1. /\ s2[n + 1] = c /\ n + 1 \in 1 .. n + 1
      /\ \A k \in 1..n : k \in 1 .. n + 1 /\ s2[k] = s[k] /\ k # n + 1
  OBVIOUS
<1>2. ASSUME n > 0 PROVE Linked(s2, n + 1, start, [nxt EXCEPT ![s[n]] = c])
  <2>. DEFINE nxt2 == [nxt EXCEPT ![s[n]] = c]
  <2>0. 1 \in 1..n /\ n \in 1..n BY <1>2
  <2>1. start = s2[1] BY <1>1, <1>2, <2>0 DEF Linked
  <2>2. ASSUME NEW k \in 1 .. n + 1, k < n + 1 PROVE nxt2[s2[k]] = s2[k + 1]
    <3>1. k \in 1..n /\ s2[k] = s[k] BY <1>1, <2>2
    <3>2. CASE k = n BY <1>1, <3>1, <3>2
    <3>3. CASE k # n
      <4>1. k < n /\ k + 1 \in 1..n BY <3>1, <3>3
      <4>2. nxt[s[k]] = s[k + 1] BY <3>1, <4>1 DEF Linked
      <4>3. s[k] # s[n] BY <2>0, <3>1, <3>3
      <4>4. nxt2[s[k]] = nxt[s[k]] BY <3>1, <4>3
      <4>. QED BY <1>1, <3>1, <4>1, <4>2, <4>4
    <3>. QED BY <3>2, <3>3
  <2>. QED BY <2>1, <2>2, Zenon DEF Linked
<1>. QED BY <1>2

\* A list without its first element, which was taken: what both Pops make.
LEMMA PoppedFront ==
  ASSUME NEW n \in Nat, n > 0, NEW s \in [1..n -> Children], NEW got \in Seq(Children), NEW S,
         Shared(s, n, got, S), NEW s2, s2 = [k \in 1 .. n - 1 |-> s[k + 1]]
  PROVE  /\ s2 \in [1 .. n - 1 -> Children]
         /\ Append(got, s[1]) \in Seq(Children)
         /\ Shared(s2, n - 1, Append(got, s[1]), S)
<1>. DEFINE m == Len(got)
            got2 == Append(got, s[1])
<1>0. /\ \A k \in 1 .. n - 1 : k + 1 \in 1..n /\ k + 1 # 1
      /\ \A k \in 1..n : k = 1 \/ (k - 1 \in 1 .. n - 1 /\ (k - 1) + 1 = k)
      /\ 1 \in 1..n
  OBVIOUS
<1>1. s2 \in [1 .. n - 1 -> Children] BY <1>0
<1>2. /\ \A k \in 1 .. n - 1 : s2[k] = s[k + 1]
      /\ \A k \in 1..n : k # 1 => s2[k - 1] = s[k]
  BY <1>0
<1>3. /\ \A j, k \in 1..n : s[j] = s[k] => j = k
      /\ \A j, k \in 1..m : got[j] = got[k] => j = k
      /\ \A j \in 1..n, k \in 1..m : s[j] # got[k]
      /\ \A d \in Children : d \in S <=> \/ \E j \in 1..n : s[j] = d
                                         \/ \E k \in 1..m : got[k] = d
  BY Zenon DEF Shared
<1>4. /\ got2 \in Seq(Children) /\ m \in Nat /\ Len(got2) = m + 1
      /\ got2[m + 1] = s[1]
      /\ \A k \in 1..m : got2[k] = got[k] /\ k \in 1 .. Len(got2) /\ k # m + 1
      /\ \A k \in 1 .. Len(got2) : k = m + 1 \/ k \in 1..m
      /\ m + 1 \in 1 .. Len(got2)
  BY <1>0
<1>5. \A j, k \in 1 .. n - 1 : s2[j] = s2[k] => j = k
  <2>. SUFFICES ASSUME NEW j \in 1 .. n - 1, NEW k \in 1 .. n - 1, s2[j] = s2[k] PROVE j = k
    OBVIOUS
  <2>1. j + 1 = k + 1 BY <1>0, <1>2, <1>3
  <2>. QED BY <2>1
<1>6. \A j, k \in 1 .. Len(got2) : got2[j] = got2[k] => j = k
  <2>. SUFFICES ASSUME NEW j \in 1 .. Len(got2), NEW k \in 1 .. Len(got2), got2[j] = got2[k]
                PROVE  j = k
    OBVIOUS
  <2>1. CASE j \in 1..m /\ k \in 1..m
    <3>1. got[j] = got[k] BY <1>4, <2>1
    <3>. QED BY <1>3, <2>1, <3>1, Zenon
  <2>2. CASE j \in 1..m /\ k = m + 1
    <3>1. got[j] = s[1] BY <1>4, <2>2
    <3>. QED BY <1>0, <1>3, <2>2, <3>1, Zenon
  <2>3. CASE j = m + 1 /\ k \in 1..m
    <3>1. got[k] = s[1] BY <1>4, <2>3
    <3>. QED BY <1>0, <1>3, <2>3, <3>1, Zenon
  <2>. QED BY <1>4, <2>1, <2>2, <2>3, Zenon
<1>7. \A j \in 1 .. n - 1, k \in 1 .. Len(got2) : s2[j] # got2[k]
  <2>. SUFFICES ASSUME NEW j \in 1 .. n - 1, NEW k \in 1 .. Len(got2) PROVE s2[j] # got2[k]
    OBVIOUS
  <2>1. s2[j] = s[j + 1] /\ j + 1 \in 1..n /\ j + 1 # 1 BY <1>0, <1>2
  <2>2. s[j + 1] # s[1] BY <1>0, <1>3, <2>1, Zenon
  <2>3. CASE k \in 1..m
    <3>1. got2[k] = got[k] BY <1>4, <2>3, Zenon
    <3>2. s[j + 1] # got[k] BY <1>3, <2>1, <2>3
    <3>. QED BY <2>1, <3>1, <3>2, Zenon
  <2>4. CASE k = m + 1 BY <1>4, <2>1, <2>2, <2>4, Zenon
  <2>. QED BY <1>4, <2>3, <2>4, Zenon
<1>8. ASSUME NEW d \in Children
      PROVE  d \in S <=> \/ \E j \in 1 .. n - 1 : s2[j] = d
                         \/ \E k \in 1 .. Len(got2) : got2[k] = d
  <2>1. (\E j \in 1..n : s[j] = d) <=> s[1] = d \/ \E j \in 1 .. n - 1 : s2[j] = d
    <3>1. ASSUME NEW j \in 1..n, s[j] = d PROVE s[1] = d \/ \E k \in 1 .. n - 1 : s2[k] = d
      BY <1>0, <1>2, <3>1
    <3>2. ASSUME NEW j \in 1 .. n - 1, s2[j] = d PROVE \E k \in 1..n : s[k] = d
      BY <1>0, <1>2, <3>2
    <3>. QED BY <1>0, <3>1, <3>2, Zenon
  <2>2. (\E k \in 1 .. Len(got2) : got2[k] = d) <=> s[1] = d \/ \E k \in 1..m : got[k] = d
    BY <1>4, Zenon
  <2>. QED BY <1>3, <2>1, <2>2, Zenon
<1>9. Shared(s2, n - 1, got2, S) BY <1>5, <1>6, <1>7, <1>8, Zenon DEF Shared
<1>. QED BY <1>1, <1>4, <1>9, Zenon

LEMMA LinkedPopped ==
  ASSUME NEW n \in Nat, n > 0, NEW s \in [1..n -> Children],
         NEW s2, s2 = [k \in 1 .. n - 1 |-> s[k + 1]],
         NEW start, NEW nxt, Linked(s, n, start, nxt)
  PROVE  Linked(s2, n - 1, nxt[start], nxt)
<1>1. \A k \in 1 .. n - 1 : s2[k] = s[k + 1] OBVIOUS
<1>2. start = s[1] BY DEF Linked
<1>3. ASSUME n - 1 > 0 PROVE nxt[start] = s2[1]
  <2>1. 1 \in 1..n /\ 1 < n /\ 1 \in 1 .. n - 1 BY <1>3
  <2>2. nxt[s[1]] = s[1 + 1] BY <2>1 DEF Linked
  <2>. QED BY <1>1, <1>2, <2>1, <2>2
<1>4. ASSUME NEW k \in 1 .. n - 1, k < n - 1 PROVE nxt[s2[k]] = s2[k + 1]
  <2>1. k + 1 \in 1..n /\ k + 1 < n /\ k + 1 \in 1 .. n - 1 BY <1>4
  <2>2. nxt[s[k + 1]] = s[(k + 1) + 1] BY <2>1 DEF Linked
  <2>. QED BY <1>1, <2>1, <2>2
<1>. QED BY <1>3, <1>4, Zenon DEF Linked

\* No list is longer than there are children.
LEMMA ShortLists ==
  ASSUME NEW n \in Nat, NEW S \in SUBSET Children, NEW s \in [1..n -> S],
         \A j, k \in 1..n : s[j] = s[k] => j = k
  PROVE  /\ n <= N /\ (S # Children => n < N)
         /\ n = N => \A c \in Children : \E j \in 1..n : s[j] = c
<1>1. IsFiniteSet(Children) /\ Cardinality(Children) = N
  BY NAssumption, FS_Interval DEF Children
<1>2. IsFiniteSet(S) /\ Cardinality(S) <= N /\ (Cardinality(S) = N => S = Children)
  BY <1>1, FS_Subset
<1>3. Cardinality(S) \in Nat BY <1>2, FS_CardinalityType
<1>4. Cardinality(1..n) = n BY FS_Interval
<1>5. s \in Injection(1..n, S) BY DEF Injection, IsInjective
<1>6. n <= Cardinality(S) /\ (n = Cardinality(S) => s \in Surjection(1..n, S))
  BY <1>2, <1>4, <1>5, FS_Injection
<1>7. n < N \/ (n = N /\ Cardinality(S) = N /\ S = Children)
  BY NAssumption, <1>2, <1>3, <1>6
<1>8. ASSUME n = N, NEW c \in Children PROVE \E j \in 1..n : s[j] = c
  BY <1>6, <1>7, <1>8, NAssumption DEF Surjection
<1>. QED BY <1>2, <1>7, <1>8, NAssumption

-----------------------------------------------------------------------------
\* The invariant without the upper bounds, which follow from the rest of it.

Types == /\ top \in 0..N /\ depth \in Nat /\ snext \in [Children -> 0..N]
         /\ first \in 0..N /\ last \in 0..N /\ length \in Nat /\ qnext \in [Children -> 0..N]
         /\ stackSem \in Nat /\ queueSem \in Nat
         /\ stackMutex \in 0..Parent /\ queueMutex \in 0..Parent /\ threadMutex \in 0..N
         /\ pc \in [Children -> Labels] /\ main \in MainLabels /\ i \in Children
         /\ stackGG \in Seq(Children) /\ queueGG \in Seq(Children)

Core == Types /\ LocksInv /\ StackInv /\ QueueInv /\ CountsInv /\ ParentInv

LEMMA Owners == /\ 0 \notin Children /\ Parent \notin Children /\ Parent # 0
                /\ Children \subseteq 0..N /\ Children \subseteq 0..Parent
                /\ 0 \in 0..N /\ 0 \in 0..Parent /\ Parent \in 0..Parent
                /\ 1 \in Children /\ N \in Children /\ Children \subseteq Nat
BY NAssumption DEF Children, Parent

\* A child's step, as the functions it updates pointwise.
LEMMA Stepped ==
  ASSUME NEW c \in Children, NEW from, NEW to, pc \in [Children -> Labels], Step(c, from, to)
  PROVE  /\ pc[c] = from /\ pc'[c] = to
         /\ \A d \in Children : d # c => pc'[d] = pc[d]
         /\ to \in Labels => pc' \in [Children -> Labels]
BY DEF Step

\* At most one child is between its pushes.
LEMMA Exclusive ==
  ASSUME LocksInv, NEW c \in Children, NEW d \in Children, pc[c] \in Paired, pc[d] \in Paired
  PROVE  c = d
BY DEF LocksInv

LEMMA LocksChild ==
  ASSUME Types, LocksInv, NEW c \in Children, Child(c)
  PROVE  LocksInv'
<1>. USE DEF LocksInv, Types, Step, Paired, InStack, InQueue, stack, queue
<1>0. UNCHANGED main /\ 0 \notin Children /\ Parent \notin Children /\ Parent # 0
  BY Owners DEF Child, parentVars
<1>1. CASE ThreadLock(c) BY <1>0, <1>1 DEF ThreadLock
<1>2. CASE StackLock(c) BY <1>0, <1>2 DEF StackLock
<1>3. CASE StackLink(c) BY <1>0, <1>3 DEF StackLink
<1>4. CASE StackTop(c) BY <1>0, <1>4 DEF StackTop
<1>5. CASE StackPost(c) BY <1>0, <1>5 DEF StackPost
<1>6. CASE StackUnlock(c) BY <1>0, <1>6 DEF StackUnlock
<1>7. CASE QueueLock(c) BY <1>0, <1>7 DEF QueueLock
<1>8. CASE QueueCount(c) BY <1>0, <1>8 DEF QueueCount
<1>9. CASE QueueLink(c) BY <1>0, <1>9 DEF QueueLink
<1>10. CASE QueuePost(c) BY <1>0, <1>10 DEF QueuePost
<1>11. CASE QueueUnlock(c) BY <1>0, <1>11 DEF QueueUnlock
<1>12. CASE ThreadUnlock(c) BY <1>0, <1>12 DEF ThreadUnlock
<1>. QED BY <1>1, <1>2, <1>3, <1>4, <1>5, <1>6, <1>7, <1>8, <1>9, <1>10, <1>11, <1>12
            DEF Child, StackPush, QueuePush

\* Who has a token finds an element: Pop's empty branch is never taken.
LEMMA TakeFinds ==
  ASSUME Types, CountsInv
  PROVE  (main = "stackTake" => depth > 0) /\ (main = "queueTake" => length > 0)
BY DEF Types, CountsInv, One

LEMMA LocksMain ==
  ASSUME Types, LocksInv, CountsInv, ParentInv, Main
  PROVE  LocksInv'
<1>. USE DEF LocksInv, Types, MainStep, stack, queue, outside
<1>0. i \in Children /\ 0 \notin Children /\ Parent \notin Children /\ Parent # 0 BY Owners
<1>1. ASSUME NEW to \in {"work", "failed"}, pc' = [pc EXCEPT ![i] = to], main = "create",
             main' \in {"create", "stackWait"}, UNCHANGED <<stack, queue, threadMutex>>
      PROVE  LocksInv'
  <2>1. pc[i] = "none" BY <1>0, <1>1 DEF ParentInv, Children
  <2>. QED BY <1>0, <1>1, <2>1 DEF Paired, InStack, InQueue
<1>2. CASE Create BY <1>1, <1>2 DEF Create, Loop
<1>3. CASE CreateFails BY <1>1, <1>3 DEF CreateFails, Loop
<1>4. CASE StackWait BY <1>0, <1>4 DEF StackWait
<1>5. CASE StackPopLock BY <1>0, <1>5 DEF StackPopLock
<1>6. CASE StackTake BY <1>0, <1>6, TakeFinds DEF StackTake
<1>7. CASE StackPopUnlock BY <1>0, <1>7 DEF StackPopUnlock
<1>8. CASE QueueWait BY <1>0, <1>8 DEF QueueWait
<1>9. CASE QueuePopLock BY <1>0, <1>9 DEF QueuePopLock
<1>10. CASE QueueTake BY <1>0, <1>10, TakeFinds DEF QueueTake
<1>11. CASE QueuePopUnlock BY <1>0, <1>11 DEF QueuePopUnlock, Loop
<1>12. CASE Join BY <1>0, <1>12 DEF Join, Loop
<1>. QED BY <1>2, <1>3, <1>4, <1>5, <1>6, <1>7, <1>8, <1>9, <1>10, <1>11, <1>12
            DEF Main, StackPop, QueuePop

-----------------------------------------------------------------------------
\* The lists.

\* The invariants of the next state, from a list in it.
LEMMA NextStack ==
  ASSUME NEW n, n = depth', NEW start, start = top', NEW nxt, nxt = snext', NEW got, got = stackGG',
         NEW S, \A c \in Children : c \in S <=> pc'[c] \in OnStack,
         NEW s \in [1..n -> Children], Linked(s, n, start, nxt), Shared(s, n, got, S),
         \A c \in Children : pc'[c] = "stackTop" => nxt[c] = start
  PROVE  StackInv'
<1>1. \A c \in Children : c \in At(OnStack)' <=> c \in S BY DEF At
<1>2. Shared(s, n, got, At(OnStack)') BY <1>1, Zenon DEF Shared
<1>. QED BY <1>2, Zenon DEF StackInv

LEMMA StackUntouched ==
  ASSUME StackInv, UNCHANGED <<depth, top, snext, stackGG>>,
         \A c \in Children : pc'[c] \in OnStack <=> pc[c] \in OnStack,
         \A c \in Children : pc'[c] = "stackTop" => pc[c] = "stackTop"
  PROVE  StackInv'
<1>1. PICK s \in [1..depth -> Children] : /\ Linked(s, depth, top, snext)
                                          /\ Shared(s, depth, stackGG, At(OnStack))
  BY DEF StackInv
<1>2. \A c \in Children : c \in At(OnStack) <=> pc'[c] \in OnStack BY DEF At
<1>3. \A c \in Children : pc'[c] = "stackTop" => snext[c] = top BY DEF StackInv
<1>. QED BY <1>1, <1>2, <1>3, NextStack

LEMMA NextQueue ==
  ASSUME NEW n, n = Inserted', NEW start, start = first', NEW end, end = last',
         NEW nxt, nxt = qnext', NEW got, got = queueGG',
         NEW S, \A c \in Children : c \in S <=> pc'[c] \in OnQueue,
         NEW s \in [1..n -> Children], Linked(s, n, start, nxt), Shared(s, n, got, S),
         n > 0 => end = s[n]
  PROVE  QueueInv'
<1>1. \A c \in Children : c \in At(OnQueue)' <=> c \in S BY DEF At
<1>2. Shared(s, n, got, At(OnQueue)') BY <1>1, Zenon DEF Shared
<1>. QED BY <1>2, Zenon DEF QueueInv

LEMMA QueueUntouched ==
  ASSUME QueueInv, UNCHANGED <<first, last, qnext, queueGG>>, Inserted' = Inserted,
         \A c \in Children : pc'[c] \in OnQueue <=> pc[c] \in OnQueue
  PROVE  QueueInv'
<1>1. PICK s \in [1..Inserted -> Children] : /\ Linked(s, Inserted, first, qnext)
                                             /\ Inserted > 0 => last = s[Inserted]
                                             /\ Shared(s, Inserted, queueGG, At(OnQueue))
  BY DEF QueueInv
<1>2. \A c \in Children : c \in At(OnQueue) <=> pc'[c] \in OnQueue BY DEF At
<1>. QED BY <1>1, <1>2, NextQueue

\* How many elements are linked, when the one counted and not linked is known.
LEMMA InsertedIs ==
  /\ (\E c \in Children : pc[c] = "queueLink") => Inserted = length - 1
  /\ (\A c \in Children : pc[c] # "queueLink") => Inserted = length
BY DEF Inserted

LEMMA LinkedCount ==
  ASSUME Types, CountsInv
  PROVE  Inserted \in Nat
BY DEF Types, CountsInv, Inserted, One

\* StackLink and StackTop: the new node is no element yet, and then the first.
LEMMA StackLinks ==
  ASSUME Types, LocksInv, StackInv, NEW c \in Children, StackLink(c), stackGG' = stackGG
  PROVE  StackInv'
<1>1. /\ pc[c] = "stackLink" /\ pc'[c] = "stackTop"
      /\ \A d \in Children : d # c => pc'[d] = pc[d]
  BY Stepped DEF Types, StackLink
<1>2. \A d \in Children : d \in At(OnStack) <=> pc'[d] \in OnStack
  BY <1>1 DEF At, OnStack, OnQueue
<1>3. /\ snext'[c] = top
      /\ \A d \in Children : d # c => snext'[d] = snext[d]
  BY DEF Types, StackLink
<1>4. PICK s \in [1..depth -> Children] : /\ Linked(s, depth, top, snext)
                                          /\ Shared(s, depth, stackGG, At(OnStack))
  BY DEF StackInv
<1>5. \A k \in 1..depth : s[k] # c
  <2>1. c \notin At(OnStack) BY <1>1 DEF At, OnStack, OnQueue
  <2>. QED BY <1>4, <2>1 DEF Shared
<1>6. Linked(s, depth, top, snext') BY <1>3, <1>4, <1>5 DEF Linked
<1>7. \A d \in Children : pc'[d] = "stackTop" => snext'[d] = top
  <2>1. \A d \in Children : d # c => pc[d] # "stackTop"
    BY <1>1, Exclusive DEF Paired
  <2>. QED BY <1>1, <1>3, <2>1
<1>8. depth' = depth /\ top' = top BY DEF StackLink
<1>. QED BY <1>2, <1>4, <1>6, <1>7, <1>8, NextStack

LEMMA StackTops ==
  ASSUME Types, LocksInv, StackInv, NEW c \in Children, StackTop(c), stackGG' = stackGG
  PROVE  StackInv'
<1>1. /\ pc[c] = "stackTop" /\ pc'[c] = "stackPost"
      /\ \A d \in Children : d # c => pc'[d] = pc[d]
  BY Stepped DEF Types, StackTop
<1>2. \A d \in Children : d \in At(OnStack) \cup {c} <=> pc'[d] \in OnStack
  BY <1>1 DEF At, OnStack, OnQueue
<1>3. PICK s \in [1..depth -> Children] : /\ Linked(s, depth, top, snext)
                                          /\ Shared(s, depth, stackGG, At(OnStack))
  BY DEF StackInv
<1>4. c \notin At(OnStack) BY <1>1 DEF At, OnStack, OnQueue
<1>5. snext[c] = top BY <1>1 DEF StackInv
<1>6. depth \in Nat /\ stackGG \in Seq(Children) BY DEF Types
<1>7. PICK s2 : s2 = [k \in 1 .. depth + 1 |-> IF k = 1 THEN c ELSE s[k - 1]] OBVIOUS
<1>8. /\ s2 \in [1 .. depth + 1 -> Children]
      /\ Shared(s2, depth + 1, stackGG, At(OnStack) \cup {c})
      /\ Linked(s2, depth + 1, c, snext)
  <2>1. Linked(s2, depth + 1, c, snext) BY <1>3, <1>5, <1>6, <1>7, LinkedFront
  <2>2. /\ s2 \in [1 .. depth + 1 -> Children]
        /\ Shared(s2, depth + 1, stackGG, At(OnStack) \cup {c})
    BY <1>3, <1>4, <1>6, <1>7, PushedFront, SMTT(30)
  <2>. QED BY <2>1, <2>2
<1>9. \A d \in Children : pc'[d] # "stackTop" BY <1>1, Exclusive DEF Paired
<1>10. depth' = depth + 1 /\ top' = c /\ snext' = snext BY DEF StackTop
<1>. QED BY <1>2, <1>8, <1>9, <1>10, NextStack

\* StackTake takes the first node.
LEMMA StackTakes ==
  ASSUME Types, LocksInv, StackInv, CountsInv, StackTake
  PROVE  /\ StackInv' /\ top' \in 0..N /\ depth' \in Nat /\ stackGG' \in Seq(Children)
         /\ Len(stackGG') = Len(stackGG) + 1
<1>1. depth \in Nat /\ depth > 0 /\ stackGG \in Seq(Children) /\ snext \in [Children -> 0..N]
  BY TakeFinds DEF Types, StackTake
<1>2. /\ stackGG' = Append(stackGG, top) /\ top' = snext[top] /\ depth' = depth - 1
      /\ snext' = snext /\ pc' = pc
  BY <1>1 DEF StackTake, outside
<1>3. PICK s \in [1..depth -> Children] : /\ Linked(s, depth, top, snext)
                                          /\ Shared(s, depth, stackGG, At(OnStack))
  BY DEF StackInv
<1>4. s[1] = top /\ s[1] \in Children BY <1>1, <1>3 DEF Linked
<1>5. PICK s2 : s2 = [k \in 1 .. depth - 1 |-> s[k + 1]] OBVIOUS
<1>6. /\ s2 \in [1 .. depth - 1 -> Children]
      /\ Append(stackGG, top) \in Seq(Children)
      /\ Shared(s2, depth - 1, Append(stackGG, top), At(OnStack))
      /\ Linked(s2, depth - 1, snext[top], snext)
  BY <1>1, <1>3, <1>4, <1>5, PoppedFront, LinkedPopped
<1>7. \A d \in Children : d \in At(OnStack) <=> pc'[d] \in OnStack BY <1>2 DEF At
<1>8. \A d \in Children : pc'[d] # "stackTop"
  <2>1. stackMutex = Parent BY DEF StackTake, LocksInv
  <2>. QED BY <1>2, <2>1, Owners DEF LocksInv, InStack
<1>9. StackInv' BY <1>2, <1>6, <1>7, <1>8, NextStack
<1>. QED BY <1>1, <1>2, <1>4, <1>6, <1>9

\* QueueCount and QueueLink: the new node is counted, and then the last.
LEMMA QueueCounts ==
  ASSUME Types, LocksInv, CountsInv, QueueInv, NEW c \in Children, QueueCount(c), queueGG' = queueGG
  PROVE  QueueInv'
<1>1. /\ pc[c] = "queueCount" /\ pc'[c] = "queueLink"
      /\ \A d \in Children : d # c => pc'[d] = pc[d]
  BY Stepped DEF Types, QueueCount
<1>2. Inserted' = Inserted
  <2>1. \A d \in Children : pc[d] # "queueLink" BY <1>1, Exclusive DEF Paired
  <2>2. Inserted = length BY <2>1, InsertedIs
  <2>3. Inserted' = length' - 1 BY <1>1 DEF Inserted
  <2>4. length' = length + 1 /\ length \in Nat BY DEF QueueCount, Types
  <2>. QED BY <2>2, <2>3, <2>4
<1>3. \A d \in Children : d \in At(OnQueue) <=> pc'[d] \in OnQueue
  BY <1>1 DEF At, OnQueue
<1>4. PICK s \in [1..Inserted -> Children] : /\ Linked(s, Inserted, first, qnext)
                                             /\ Inserted > 0 => last = s[Inserted]
                                             /\ Shared(s, Inserted, queueGG, At(OnQueue))
  BY DEF QueueInv
<1>5. \A k \in 1..Inserted : s[k] # c
  <2>1. c \notin At(OnQueue) BY <1>1 DEF At, OnQueue
  <2>. QED BY <1>4, <2>1 DEF Shared
<1>6. \A d \in Children : d # c => qnext'[d] = qnext[d] BY DEF Types, QueueCount
<1>7. Linked(s, Inserted, first, qnext') BY <1>4, <1>5, <1>6 DEF Linked
<1>8. first' = first /\ last' = last BY DEF QueueCount
<1>. QED BY <1>2, <1>3, <1>4, <1>7, <1>8, NextQueue

LEMMA QueueLinked ==
  ASSUME Types, LocksInv, CountsInv, NEW c \in Children, QueueLink(c),
         NEW s \in [1..Inserted -> Children], Linked(s, Inserted, first, qnext),
         Inserted > 0 => last = s[Inserted], \A j, k \in 1..Inserted : s[j] = s[k] => j = k,
         NEW s2, s2 = [k \in 1 .. Inserted + 1 |-> IF k = Inserted + 1 THEN c ELSE s[k]]
  PROVE  Linked(s2, Inserted + 1, first', qnext')
<1>1. Inserted \in Nat /\ Inserted = length - 1 /\ qnext \in [Children -> 0..N]
  BY LinkedCount, InsertedIs DEF Types, QueueLink, Step
<1>2. CASE length = 1
  <2>1. first' = c /\ Inserted = 0 BY <1>1, <1>2 DEF QueueLink
  <2>2. s2 = [k \in 1 .. 0 + 1 |-> IF k = 0 + 1 THEN c ELSE s[k]] BY <2>1
  <2>3. s2[1] = c /\ Inserted + 1 = 1 BY <2>1, <2>2
  <2>4. \A k \in 1..1 : ~ (k < 1) OBVIOUS
  <2>. QED BY <2>1, <2>3, <2>4 DEF Linked
<1>3. CASE length # 1
  <2>0. length \in Nat BY DEF Types
  <2>1. first' = first /\ Inserted > 0 /\ qnext' = [qnext EXCEPT ![last] = c]
    BY <1>1, <1>3, <2>0 DEF QueueLink
  <2>2. last = s[Inserted] BY <2>1
  <2>. QED BY <1>1, <2>1, <2>2, LinkedBack
<1>. QED BY <1>2, <1>3

LEMMA QueueLinks ==
  ASSUME Types, LocksInv, CountsInv, QueueInv, NEW c \in Children, QueueLink(c), queueGG' = queueGG
  PROVE  QueueInv' /\ Inserted' = Inserted + 1
<1>1. /\ pc[c] = "queueLink" /\ pc'[c] = "queuePost"
      /\ \A d \in Children : d # c => pc'[d] = pc[d]
  BY Stepped DEF Types, QueueLink
<1>2. Inserted' = Inserted + 1 /\ Inserted \in Nat
  <2>1. \A d \in Children : pc'[d] # "queueLink" BY <1>1, Exclusive DEF Paired
  <2>2. Inserted = length - 1 BY <1>1, InsertedIs
  <2>3. Inserted' = length' BY <2>1 DEF Inserted
  <2>4. length' = length /\ length \in Nat BY DEF QueueLink, Types
  <2>. QED BY <2>2, <2>3, <2>4, LinkedCount
<1>3. \A d \in Children : d \in At(OnQueue) \cup {c} <=> pc'[d] \in OnQueue
  BY <1>1 DEF At, OnQueue
<1>4. PICK s \in [1..Inserted -> Children] : /\ Linked(s, Inserted, first, qnext)
                                             /\ Inserted > 0 => last = s[Inserted]
                                             /\ Shared(s, Inserted, queueGG, At(OnQueue))
  BY DEF QueueInv
<1>5. c \notin At(OnQueue) BY <1>1 DEF At, OnQueue
<1>6. queueGG \in Seq(Children) BY DEF Types
<1>7. PICK s2 : s2 = [k \in 1 .. Inserted + 1 |-> IF k = Inserted + 1 THEN c ELSE s[k]] OBVIOUS
<1>8. /\ s2 \in [1 .. Inserted + 1 -> Children]
      /\ Shared(s2, Inserted + 1, queueGG, At(OnQueue) \cup {c})
  <2>1. Inserted \in Nat BY <1>2
  <2>2. Shared(s, Inserted, queueGG, At(OnQueue)) BY <1>4
  <2>3. queueGG \in Seq(Children) BY <1>6
  <2>. QED BY <1>5, <1>7, <2>1, <2>2, <2>3, PushedBack
<1>9. s2[Inserted + 1] = c /\ last' = c BY <1>2, <1>7 DEF QueueLink
<1>10. Linked(s2, Inserted + 1, first', qnext') BY <1>4, <1>7, QueueLinked DEF Shared
<1>. QED BY <1>2, <1>3, <1>8, <1>9, <1>10, NextQueue

\* QueueTake takes the first node; no child is pushing meanwhile.
LEMMA QueueTakes ==
  ASSUME Types, LocksInv, QueueInv, CountsInv, QueueTake
  PROVE  /\ QueueInv' /\ first' \in 0..N /\ length' \in Nat /\ queueGG' \in Seq(Children)
         /\ Len(queueGG') = Len(queueGG) + 1
         /\ Inserted = length /\ Inserted' = length'
<1>1. /\ length \in Nat /\ length > 0 /\ queueGG \in Seq(Children)
      /\ qnext \in [Children -> 0..N]
  BY TakeFinds DEF Types, QueueTake
<1>2. /\ queueGG' = Append(queueGG, first) /\ first' = qnext[first] /\ length' = length - 1
      /\ qnext' = qnext /\ last' = last /\ pc' = pc
  BY <1>1 DEF QueueTake, outside
<1>3. \A d \in Children : pc[d] # "queueLink" /\ pc'[d] # "queueLink"
  <2>1. queueMutex = Parent BY DEF QueueTake, LocksInv
  <2>. QED BY <1>2, <2>1, Owners DEF LocksInv, InQueue
<1>4. Inserted = length /\ Inserted' = length' BY <1>3 DEF Inserted
<1>5. PICK s \in [1..length -> Children] : /\ Linked(s, length, first, qnext)
                                           /\ length > 0 => last = s[length]
                                           /\ Shared(s, length, queueGG, At(OnQueue))
  BY <1>4 DEF QueueInv
<1>6. s[1] = first /\ s[1] \in Children BY <1>1, <1>5 DEF Linked
<1>7. PICK s2 : s2 = [k \in 1 .. length - 1 |-> s[k + 1]] OBVIOUS
<1>8. /\ s2 \in [1 .. length - 1 -> Children]
      /\ Append(queueGG, first) \in Seq(Children)
      /\ Shared(s2, length - 1, Append(queueGG, first), At(OnQueue))
      /\ Linked(s2, length - 1, qnext[first], qnext)
  BY <1>1, <1>5, <1>6, <1>7, PoppedFront, LinkedPopped
<1>9. length - 1 > 0 => last = s2[length - 1] BY <1>1, <1>5, <1>7
<1>10. \A d \in Children : d \in At(OnQueue) <=> pc'[d] \in OnQueue BY <1>2 DEF At
<1>11. QueueInv' BY <1>2, <1>4, <1>8, <1>9, <1>10, NextQueue
<1>. QED BY <1>1, <1>2, <1>4, <1>6, <1>11

\* Every other step leaves a list as it is.
LEMMA StackChild ==
  ASSUME Types, LocksInv, StackInv, NEW c \in Children, Child(c)
  PROVE  StackInv'
<1>0. stackGG' = stackGG BY DEF Child, parentVars
<1>1. ASSUME NEW from \in Labels, NEW to \in Labels, Step(c, from, to),
             UNCHANGED <<depth, top, snext>>,
             from \in OnStack <=> to \in OnStack, to # "stackTop"
      PROVE  StackInv'
  <2>1. \A d \in Children : pc'[d] \in OnStack <=> pc[d] \in OnStack
    BY <1>1, Stepped, ZenonT(30) DEF Types
  <2>2. \A d \in Children : pc'[d] = "stackTop" => pc[d] = "stackTop"
    BY <1>1, Stepped DEF Types
  <2>. QED BY <1>0, <1>1, <2>1, <2>2, StackUntouched
<1>. USE DEF Labels, Paired, OnStack, OnQueue, stack
<1>2. CASE ThreadLock(c) BY <1>1, <1>2 DEF ThreadLock
<1>3. CASE StackLock(c) BY <1>1, <1>3 DEF StackLock
<1>4. CASE StackLink(c) BY <1>0, <1>4, StackLinks
<1>5. CASE StackTop(c) BY <1>0, <1>5, StackTops
<1>6. CASE StackPost(c) BY <1>1, <1>6 DEF StackPost
<1>7. CASE StackUnlock(c) BY <1>1, <1>7 DEF StackUnlock
<1>8. CASE QueueLock(c) BY <1>1, <1>8 DEF QueueLock
<1>9. CASE QueueCount(c) BY <1>1, <1>9 DEF QueueCount
<1>10. CASE QueueLink(c) BY <1>1, <1>10 DEF QueueLink
<1>11. CASE QueuePost(c) BY <1>1, <1>11 DEF QueuePost
<1>12. CASE QueueUnlock(c) BY <1>1, <1>12 DEF QueueUnlock
<1>13. CASE ThreadUnlock(c) BY <1>1, <1>13 DEF ThreadUnlock
<1>. QED BY <1>2, <1>3, <1>4, <1>5, <1>6, <1>7, <1>8, <1>9, <1>10, <1>11, <1>12, <1>13
            DEF Child, StackPush, QueuePush

LEMMA QueueChild ==
  ASSUME Types, LocksInv, CountsInv, QueueInv, NEW c \in Children, Child(c)
  PROVE  QueueInv'
<1>0. queueGG' = queueGG BY DEF Child, parentVars
<1>1. ASSUME NEW from \in Labels, NEW to \in Labels, Step(c, from, to),
             UNCHANGED <<first, last, length, qnext>>,
             from \in OnQueue <=> to \in OnQueue, from # "queueLink", to # "queueLink"
      PROVE  QueueInv'
  <2>1. \A d \in Children : pc'[d] \in OnQueue <=> pc[d] \in OnQueue
    BY <1>1, Stepped, ZenonT(30) DEF Types
  <2>2. \A d \in Children : pc'[d] = "queueLink" <=> pc[d] = "queueLink"
    BY <1>1, Stepped DEF Types
  <2>3. Inserted' = Inserted BY <1>1, <2>2 DEF Inserted
  <2>. QED BY <1>0, <1>1, <2>1, <2>3, QueueUntouched
<1>. USE DEF Labels, Paired, OnQueue, queue
<1>2. CASE ThreadLock(c) BY <1>1, <1>2 DEF ThreadLock
<1>3. CASE StackLock(c) BY <1>1, <1>3 DEF StackLock
<1>4. CASE StackLink(c) BY <1>1, <1>4 DEF StackLink
<1>5. CASE StackTop(c) BY <1>1, <1>5 DEF StackTop
<1>6. CASE StackPost(c) BY <1>1, <1>6 DEF StackPost
<1>7. CASE StackUnlock(c) BY <1>1, <1>7 DEF StackUnlock
<1>8. CASE QueueLock(c) BY <1>1, <1>8 DEF QueueLock
<1>9. CASE QueueCount(c) BY <1>0, <1>9, QueueCounts
<1>10. CASE QueueLink(c) BY <1>0, <1>10, QueueLinks
<1>11. CASE QueuePost(c) BY <1>1, <1>11 DEF QueuePost
<1>12. CASE QueueUnlock(c) BY <1>1, <1>12 DEF QueueUnlock
<1>13. CASE ThreadUnlock(c) BY <1>1, <1>13 DEF ThreadUnlock
<1>. QED BY <1>2, <1>3, <1>4, <1>5, <1>6, <1>7, <1>8, <1>9, <1>10, <1>11, <1>12, <1>13
            DEF Child, StackPush, QueuePush

\* What a step of main does to the children: it creates one, or nothing.
LEMMA MainSteps ==
  ASSUME Types, ParentInv, Main
  PROVE  /\ \/ pc' = pc
            \/ /\ main = "create" /\ pc[i] = "none"
               /\ \E to \in {"work", "failed"} : pc' = [pc EXCEPT ![i] = to]
         /\ \A d \in Children : pc'[d] = pc[d] \/ (pc[d] = "none" /\ pc'[d] \in {"work", "failed"})
         /\ pc' \in [Children -> Labels]
<1>1. main = "create" => pc[i] = "none" BY Owners DEF Types, ParentInv
<1>. USE DEF MainStep, outside
<1>2. CASE Create BY <1>1, <1>2 DEF Create, Loop, Types, Labels
<1>3. CASE CreateFails BY <1>1, <1>3 DEF CreateFails, Loop, Types, Labels
<1>4. CASE StackPop
  BY <1>4 DEF StackPop, StackWait, StackPopLock, StackTake, StackPopUnlock, Types
<1>5. CASE QueuePop
  BY <1>5 DEF QueuePop, QueueWait, QueuePopLock, QueueTake, QueuePopUnlock, Types
<1>6. CASE Join BY <1>6 DEF Join, Types
<1>. QED BY <1>2, <1>3, <1>4, <1>5, <1>6 DEF Main

LEMMA ListsMain ==
  ASSUME Types, LocksInv, StackInv, QueueInv, CountsInv, ParentInv, Main
  PROVE  StackInv' /\ QueueInv'
<1>0. /\ \A d \in Children : pc'[d] \in OnStack <=> pc[d] \in OnStack
      /\ \A d \in Children : pc'[d] = "stackTop" <=> pc[d] = "stackTop"
      /\ \A d \in Children : pc'[d] \in OnQueue <=> pc[d] \in OnQueue
      /\ \A d \in Children : pc'[d] = "queueLink" <=> pc[d] = "queueLink"
  BY MainSteps DEF OnStack, OnQueue
<1>1. UNCHANGED <<depth, top, snext, stackGG>> => StackInv' BY <1>0, StackUntouched
<1>2. UNCHANGED <<first, last, length, qnext, queueGG>> => QueueInv'
  <2>1. length' = length => Inserted' = Inserted BY <1>0 DEF Inserted
  <2>. QED BY <1>0, <2>1, QueueUntouched
<1>. USE DEF stack, queue
<1>3. CASE Create BY <1>1, <1>2, <1>3 DEF Create
<1>4. CASE CreateFails BY <1>1, <1>2, <1>4 DEF CreateFails
<1>5. CASE StackTake
  <2>1. UNCHANGED <<first, last, length, qnext, queueGG>> BY <1>5 DEF StackTake
  <2>. QED BY <1>2, <1>5, <2>1, StackTakes
<1>6. CASE StackWait \/ StackPopLock \/ StackPopUnlock
  BY <1>1, <1>2, <1>6 DEF StackWait, StackPopLock, StackPopUnlock
<1>7. CASE QueueTake
  <2>1. UNCHANGED <<depth, top, snext, stackGG>> BY <1>7 DEF QueueTake
  <2>. QED BY <1>1, <1>7, <2>1, QueueTakes
<1>8. CASE QueueWait \/ QueuePopLock \/ QueuePopUnlock
  BY <1>1, <1>2, <1>8 DEF QueueWait, QueuePopLock, QueuePopUnlock
<1>9. CASE Join BY <1>1, <1>2, <1>9 DEF Join
<1>. QED BY <1>3, <1>4, <1>5, <1>6, <1>7, <1>8, <1>9 DEF Main, StackPop, QueuePop

-----------------------------------------------------------------------------
\* Types, counts and the parent's progress.

LEMMA TypesChild ==
  ASSUME Types, NEW c \in Children, Child(c)
  PROVE  Types'
<1>. USE DEF Types, Step, Labels, Paired, stack, queue
<1>0. /\ UNCHANGED <<main, i, stackGG, queueGG>>
      /\ 0 \in 0..N /\ 0 \in 0..Parent /\ Children \subseteq 0..N /\ Children \subseteq 0..Parent
  BY Owners DEF Child, parentVars
<1>1. CASE ThreadLock(c) BY <1>0, <1>1 DEF ThreadLock
<1>2. CASE StackLock(c) BY <1>0, <1>2 DEF StackLock
<1>3. CASE StackLink(c) BY <1>0, <1>3 DEF StackLink
<1>4. CASE StackTop(c) BY <1>0, <1>4 DEF StackTop
<1>5. CASE StackPost(c) BY <1>0, <1>5 DEF StackPost
<1>6. CASE StackUnlock(c) BY <1>0, <1>6 DEF StackUnlock
<1>7. CASE QueueLock(c) BY <1>0, <1>7 DEF QueueLock
<1>8. CASE QueueCount(c) BY <1>0, <1>8 DEF QueueCount, Null
<1>9. CASE QueueLink(c) BY <1>0, <1>9 DEF QueueLink
<1>10. CASE QueuePost(c) BY <1>0, <1>10 DEF QueuePost
<1>11. CASE QueueUnlock(c) BY <1>0, <1>11 DEF QueueUnlock
<1>12. CASE ThreadUnlock(c) BY <1>0, <1>12 DEF ThreadUnlock
<1>. QED BY <1>1, <1>2, <1>3, <1>4, <1>5, <1>6, <1>7, <1>8, <1>9, <1>10, <1>11, <1>12
            DEF Child, StackPush, QueuePush

LEMMA TypesMain ==
  ASSUME Types, LocksInv, StackInv, QueueInv, CountsInv, ParentInv, Main
  PROVE  Types'
<1>0. /\ pc' \in [Children -> Labels]
      /\ 0 \in 0..N /\ 0 \in 0..Parent /\ Parent \in 0..Parent
      /\ i < N => i + 1 \in Children
      /\ 1 \in Children
  BY MainSteps, Owners, NAssumption, SMTT(30) DEF Types, Children
<1>. USE DEF Types, MainLabels, MainStep, stack, queue, outside
<1>1. CASE Create BY <1>0, <1>1 DEF Create, Loop
<1>2. CASE CreateFails BY <1>0, <1>2 DEF CreateFails, Loop
<1>3. CASE StackWait BY <1>0, <1>3 DEF StackWait
<1>4. CASE StackPopLock BY <1>0, <1>4 DEF StackPopLock
<1>5. CASE StackTake
  <2>1. top' \in 0..N /\ depth' \in Nat /\ stackGG' \in Seq(Children) BY <1>5, StackTakes
  <2>. QED BY <1>0, <1>5, <2>1 DEF StackTake
<1>6. CASE StackPopUnlock BY <1>0, <1>6 DEF StackPopUnlock
<1>7. CASE QueueWait BY <1>0, <1>7 DEF QueueWait
<1>8. CASE QueuePopLock BY <1>0, <1>8 DEF QueuePopLock
<1>9. CASE QueueTake
  <2>1. first' \in 0..N /\ length' \in Nat /\ queueGG' \in Seq(Children) BY <1>9, QueueTakes
  <2>. QED BY <1>0, <1>9, <2>1 DEF QueueTake
<1>10. CASE QueuePopUnlock BY <1>0, <1>10 DEF QueuePopUnlock, Loop
<1>11. CASE Join BY <1>0, <1>11 DEF Join, Loop
<1>. QED BY <1>1, <1>2, <1>3, <1>4, <1>5, <1>6, <1>7, <1>8, <1>9, <1>10, <1>11
            DEF Main, StackPop, QueuePop

\* While one child moves between its pushes, it is the only one to look for there.
LEMMA Moves ==
  ASSUME NEW c \in Children, \A d \in Children : d # c => pc'[d] = pc[d] /\ pc[d] \notin Paired
  PROVE  /\ (\E d \in Children : pc[d] = "stackPost") <=> pc[c] = "stackPost"
         /\ (\E d \in Children : pc'[d] = "stackPost") <=> pc'[c] = "stackPost"
         /\ (\E d \in Children : pc[d] \in {"queueLink", "queuePost"})
              <=> pc[c] \in {"queueLink", "queuePost"}
         /\ (\E d \in Children : pc'[d] \in {"queueLink", "queuePost"})
              <=> pc'[c] \in {"queueLink", "queuePost"}
<1>1. \A d \in Children : d # c => /\ pc[d] # "stackPost" /\ pc'[d] # "stackPost"
                                   /\ pc[d] \notin {"queueLink", "queuePost"}
                                   /\ pc'[d] \notin {"queueLink", "queuePost"}
  BY DEF Paired
<1>. QED BY <1>1

LEMMA CountsChild ==
  ASSUME Types, LocksInv, CountsInv, NEW c \in Children, Child(c)
  PROVE  CountsInv'
<1>0. main' = main BY DEF Child, parentVars
<1>1. /\ pc[c] \in Paired \/ threadMutex = 0
      /\ \A d \in Children : d # c => pc'[d] = pc[d]
  BY DEF Types, Child, StackPush, QueuePush, Step, Paired, ThreadLock, StackLock, StackLink,
         StackTop, StackPost, StackUnlock, QueueLock, QueueCount, QueueLink, QueuePost,
         QueueUnlock, ThreadUnlock
<1>2. \A d \in Children : d # c => pc'[d] = pc[d] /\ pc[d] \notin Paired
  BY <1>1, Exclusive, Owners DEF LocksInv
<1>3. PICK m, r : /\ m = One(main \in {"stackPopLock", "stackTake"}) /\ m \in {0, 1}
                  /\ r = One(main \in {"queuePopLock", "queueTake"}) /\ r \in {0, 1}
  BY DEF One
<1>4. /\ depth = stackSem + One(pc[c] = "stackPost") + m
      /\ length = queueSem + One(pc[c] \in {"queueLink", "queuePost"}) + r
  BY <1>2, <1>3, Moves, Zenon DEF CountsInv, One
<1>5. ASSUME depth' = stackSem' + One(pc'[c] = "stackPost") + m,
             length' = queueSem' + One(pc'[c] \in {"queueLink", "queuePost"}) + r
      PROVE  CountsInv'
  BY <1>0, <1>2, <1>3, <1>5, Moves, Zenon DEF CountsInv, One
<1>. USE DEF Types, Step, One, stack, queue
<1>6. CASE ThreadLock(c) BY <1>3, <1>4, <1>5, <1>6 DEF ThreadLock
<1>7. CASE StackLock(c) BY <1>3, <1>4, <1>5, <1>7 DEF StackLock
<1>8. CASE StackLink(c) BY <1>3, <1>4, <1>5, <1>8 DEF StackLink
<1>9. CASE StackTop(c) BY <1>3, <1>4, <1>5, <1>9 DEF StackTop
<1>10. CASE StackPost(c) BY <1>3, <1>4, <1>5, <1>10 DEF StackPost
<1>11. CASE StackUnlock(c) BY <1>3, <1>4, <1>5, <1>11 DEF StackUnlock
<1>12. CASE QueueLock(c) BY <1>3, <1>4, <1>5, <1>12 DEF QueueLock
<1>13. CASE QueueCount(c) BY <1>3, <1>4, <1>5, <1>13 DEF QueueCount
<1>14. CASE QueueLink(c) BY <1>3, <1>4, <1>5, <1>14 DEF QueueLink
<1>15. CASE QueuePost(c) BY <1>3, <1>4, <1>5, <1>15 DEF QueuePost
<1>16. CASE QueueUnlock(c) BY <1>3, <1>4, <1>5, <1>16 DEF QueueUnlock
<1>17. CASE ThreadUnlock(c) BY <1>3, <1>4, <1>5, <1>17 DEF ThreadUnlock
<1>. QED BY <1>6, <1>7, <1>8, <1>9, <1>10, <1>11, <1>12, <1>13, <1>14, <1>15, <1>16, <1>17
            DEF Child, StackPush, QueuePush

LEMMA CountsMain ==
  ASSUME Types, CountsInv, ParentInv, Main
  PROVE  CountsInv'
<1>1. /\ (\E d \in Children : pc'[d] = "stackPost") <=> \E d \in Children : pc[d] = "stackPost"
      /\ (\E d \in Children : pc'[d] \in {"queueLink", "queuePost"})
           <=> \E d \in Children : pc[d] \in {"queueLink", "queuePost"}
  BY MainSteps
<1>2. depth \in Nat /\ length \in Nat /\ stackSem \in Nat /\ queueSem \in Nat BY DEF Types
<1>3. PICK s, q : /\ s = One(\E d \in Children : pc[d] = "stackPost")
                  /\ q = One(\E d \in Children : pc[d] \in {"queueLink", "queuePost"})
                  /\ s \in {0, 1} /\ q \in {0, 1}
  BY DEF One
<1>4. ASSUME depth' = stackSem' + s + One(main' \in {"stackPopLock", "stackTake"}),
             length' = queueSem' + q + One(main' \in {"queuePopLock", "queueTake"})
      PROVE  CountsInv'
  BY <1>1, <1>3, <1>4, Zenon DEF CountsInv, One
<1>5. /\ depth = stackSem + s + One(main \in {"stackPopLock", "stackTake"})
      /\ length = queueSem + q + One(main \in {"queuePopLock", "queueTake"})
  BY <1>3, Zenon DEF CountsInv
<1>6. (main = "stackTake" => depth > 0) /\ (main = "queueTake" => length > 0) BY TakeFinds
<1>. USE DEF One, MainStep, Loop, stack, queue
<1>7. CASE Create BY <1>2, <1>3, <1>4, <1>5, <1>7 DEF Create
<1>8. CASE CreateFails BY <1>2, <1>3, <1>4, <1>5, <1>8 DEF CreateFails
<1>9. CASE StackWait BY <1>2, <1>3, <1>4, <1>5, <1>9 DEF StackWait
<1>10. CASE StackPopLock BY <1>2, <1>3, <1>4, <1>5, <1>10 DEF StackPopLock
<1>11. CASE StackTake BY <1>2, <1>3, <1>4, <1>5, <1>6, <1>11 DEF StackTake
<1>12. CASE StackPopUnlock BY <1>2, <1>3, <1>4, <1>5, <1>12 DEF StackPopUnlock
<1>13. CASE QueueWait BY <1>2, <1>3, <1>4, <1>5, <1>13 DEF QueueWait
<1>14. CASE QueuePopLock BY <1>2, <1>3, <1>4, <1>5, <1>14 DEF QueuePopLock
<1>15. CASE QueueTake BY <1>2, <1>3, <1>4, <1>5, <1>6, <1>15 DEF QueueTake
<1>16. CASE QueuePopUnlock BY <1>2, <1>3, <1>4, <1>5, <1>16 DEF QueuePopUnlock
<1>17. CASE Join BY <1>2, <1>3, <1>4, <1>5, <1>17 DEF Join
<1>. QED BY <1>7, <1>8, <1>9, <1>10, <1>11, <1>12, <1>13, <1>14, <1>15, <1>16, <1>17
            DEF Main, StackPop, QueuePop

LEMMA ParentChild ==
  ASSUME Types, ParentInv, NEW c \in Children, Child(c)
  PROVE  ParentInv'
<1>1. UNCHANGED <<main, i, stackGG, queueGG>> BY DEF Child, parentVars
<1>2. /\ \A d \in Children : pc'[d] = "none" <=> pc[d] = "none"
      /\ \A d \in Children : pc[d] = "exit" => pc'[d] = "exit"
  BY DEF Types, Child, StackPush, QueuePush, Step, ThreadLock, StackLock, StackLink,
         StackTop, StackPost, StackUnlock, QueueLock, QueueCount, QueueLink, QueuePost,
         QueueUnlock, ThreadUnlock
<1>. QED BY <1>1, <1>2 DEF ParentInv

LEMMA ParentMain ==
  ASSUME Types, LocksInv, StackInv, QueueInv, CountsInv, ParentInv, Main
  PROVE  ParentInv'
<1>0. i \in 1..N /\ N \in Nat /\ N > 0 /\ (\A c \in Children : c \in 1..N)
  BY NAssumption DEF Types, Children
<1>1. Len(stackGG) \in Nat /\ Len(queueGG) \in Nat BY DEF Types
<1>2. \A d \in Children : /\ pc[d] = "exit" => pc'[d] = "exit"
                          /\ pc[d] # "none" => pc'[d] # "none"
  BY MainSteps
<1>. USE DEF ParentInv, MainStep, Loop, outside
<1>3. ASSUME NEW to \in {"work", "failed"}, pc' = [pc EXCEPT ![i] = to],
             Loop("create", "create", "stackWait"), UNCHANGED <<stackGG, queueGG>>
      PROVE  ParentInv'
  <2>1. \A c \in Children : c # i => pc'[c] = pc[c] BY <1>3 DEF Types
  <2>2. pc'[i] # "none" BY <1>3 DEF Types
  <2>3. CASE i < N BY <1>0, <1>3, <2>1, <2>2, <2>3
  <2>4. CASE i = N BY <1>0, <1>3, <2>1, <2>2, <2>4
  <2>. QED BY <1>0, <2>3, <2>4
<1>4. CASE Create BY <1>3, <1>4 DEF Create
<1>5. CASE CreateFails BY <1>3, <1>5 DEF CreateFails
<1>6. CASE StackWait BY <1>0, <1>1, <1>2, <1>6 DEF StackWait
<1>7. CASE StackPopLock BY <1>0, <1>1, <1>2, <1>7 DEF StackPopLock
<1>8. CASE StackTake
  <2>1. Len(stackGG') = Len(stackGG) + 1 BY <1>8, StackTakes
  <2>. QED BY <1>0, <1>1, <1>2, <1>8, <2>1, TakeFinds DEF StackTake
<1>9. CASE StackPopUnlock BY <1>0, <1>1, <1>2, <1>9 DEF StackPopUnlock
<1>10. CASE QueueWait BY <1>0, <1>1, <1>2, <1>10 DEF QueueWait
<1>11. CASE QueuePopLock BY <1>0, <1>1, <1>2, <1>11 DEF QueuePopLock
<1>12. CASE QueueTake
  <2>1. Len(queueGG') = Len(queueGG) + 1 BY <1>12, QueueTakes
  <2>. QED BY <1>0, <1>1, <1>2, <1>12, <2>1, TakeFinds DEF QueueTake
<1>13. CASE QueuePopUnlock BY <1>0, <1>1, <1>2, <1>13 DEF QueuePopUnlock
<1>14. CASE Join
  <2>1. \A c \in Children : pc'[c] = pc[c] BY <1>14 DEF Join
  <2>2. \A c \in Children : c <= i => pc'[c] = "exit" BY <1>0, <1>14, <2>1 DEF Join
  <2>3. CASE i < N BY <1>0, <1>1, <1>2, <1>14, <2>2, <2>3 DEF Join
  <2>4. CASE i = N BY <1>0, <1>1, <1>2, <1>14, <2>2, <2>4 DEF Join
  <2>. QED BY <1>0, <2>3, <2>4
<1>. QED BY <1>4, <1>5, <1>6, <1>7, <1>8, <1>9, <1>10, <1>11, <1>12, <1>13, <1>14
            DEF Main, StackPop, QueuePop

-----------------------------------------------------------------------------
\* The invariant.

\* No list is longer than there are children, for no child is in it twice.
LEMMA Bounds ==
  ASSUME Core
  PROVE  TypeOK
<1>1. PICK s \in [1..depth -> Children] : /\ Linked(s, depth, top, snext)
                                          /\ Shared(s, depth, stackGG, At(OnStack))
  BY DEF Core, StackInv
<1>2. depth \in 0..N
  <2>1. \A j, k \in 1..depth : s[j] = s[k] => j = k BY <1>1 DEF Shared
  <2>2. depth \in Nat BY DEF Core, Types
  <2>3. depth <= N BY <2>1, <2>2, ShortLists
  <2>. QED BY <2>2, <2>3, NAssumption
<1>3. PICK q \in [1..Inserted -> Children] : /\ Linked(q, Inserted, first, qnext)
                                             /\ Inserted > 0 => last = q[Inserted]
                                             /\ Shared(q, Inserted, queueGG, At(OnQueue))
  BY DEF Core, QueueInv
<1>4. Inserted \in Nat BY LinkedCount DEF Core
<1>5. /\ \A j, k \in 1..Inserted : q[j] = q[k] => j = k
      /\ \A j \in 1..Inserted : q[j] \in At(OnQueue)
  BY <1>3 DEF Shared
<1>6. q \in [1..Inserted -> At(OnQueue)] BY <1>5
<1>7. Inserted <= N /\ (At(OnQueue) # Children => Inserted < N)
  BY <1>4, <1>5, <1>6, ShortLists DEF At
<1>8. length \in 0..N
  <2>1. length \in Nat BY DEF Core, Types
  <2>2. CASE \E c \in Children : pc[c] = "queueLink"
    <3>1. Inserted = length - 1 BY <2>2, InsertedIs
    <3>2. At(OnQueue) # Children BY <2>2 DEF At, OnQueue
    <3>. QED BY <1>4, <1>7, <2>1, <3>1, <3>2, NAssumption
  <2>3. CASE \A c \in Children : pc[c] # "queueLink"
    <3>1. Inserted = length BY <2>3, InsertedIs
    <3>. QED BY <1>7, <2>1, <3>1, NAssumption
  <2>. QED BY <2>2, <2>3
<1>9. stackSem \in 0..N /\ queueSem \in 0..N
  BY <1>2, <1>8, NAssumption DEF Core, Types, CountsInv, One
<1>10. /\ Len(stackGG) \in 0..N /\ Len(queueGG) \in 0..N
       /\ stackGG \in Seq(Children) /\ queueGG \in Seq(Children)
  <2>1. /\ Len(stackGG) \in {0, i - 1, i, N} /\ Len(queueGG) \in {0, i - 1, i, N}
    BY DEF Core, ParentInv
  <2>2. i \in 1..N BY DEF Core, Types, Children
  <2>. QED BY <2>1, <2>2, NAssumption DEF Core, Types
<1>11. stackGG \in BoundedSeq(Children, N) /\ queueGG \in BoundedSeq(Children, N)
  <2>1. ASSUME NEW g \in Seq(Children), Len(g) \in 0..N PROVE g \in BoundedSeq(Children, N)
    <3>1. g \in [1..Len(g) -> Children] BY <2>1
    <3>. QED BY <2>1, <3>1 DEF BoundedSeq, SeqOf
  <2>. QED BY <1>10, <2>1
<1>. QED BY <1>2, <1>8, <1>9, <1>11, Zenon DEF TypeOK, Core, Types

LEMMA CoreInit == Init => Core
<1>. SUFFICES ASSUME Init PROVE Core OBVIOUS
<1>1. Types
  BY Owners, NAssumption DEF Init, Types, Labels, MainLabels, Null
<1>2. \A c \in Children : pc[c] = "none" BY DEF Init
<1>3. LocksInv
  BY <1>2, Owners DEF Init, LocksInv, Paired, InStack, InQueue
<1>4. depth = 0 /\ length = 0 /\ stackGG = <<>> /\ queueGG = <<>> BY DEF Init
<1>5. Inserted = 0 BY <1>2, <1>4, InsertedIs
<1>6. PICK s : s = [k \in 1..0 |-> 1] OBVIOUS
<1>7. s \in [1..0 -> Children] BY <1>6
<1>8. \A start, nxt : Linked(s, 0, start, nxt) BY DEF Linked
<1>9. At(OnStack) = {} /\ At(OnQueue) = {} BY <1>2 DEF At, OnStack, OnQueue
<1>10. Shared(s, 0, <<>>, {}) BY DEF Shared
<1>11. StackInv
  <2>1. Linked(s, 0, top, snext) BY <1>8
  <2>2. \A c \in Children : pc[c] # "stackTop" BY <1>2
  <2>3. /\ s \in [1..depth -> Children] /\ Linked(s, depth, top, snext)
        /\ Shared(s, depth, stackGG, At(OnStack))
    BY <1>4, <1>7, <1>9, <1>10, <2>1
  <2>. QED BY <2>2, <2>3 DEF StackInv
<1>12. QueueInv
  <2>1. Linked(s, 0, first, qnext) BY <1>8
  <2>2. /\ s \in [1..Inserted -> Children] /\ Linked(s, Inserted, first, qnext)
        /\ Shared(s, Inserted, queueGG, At(OnQueue)) /\ ~ (Inserted > 0)
    BY <1>4, <1>5, <1>7, <1>9, <1>10, <2>1
  <2>. QED BY <2>2 DEF QueueInv
<1>13. CountsInv BY <1>2 DEF Init, CountsInv, One
<1>14. ParentInv BY <1>2, Owners, NAssumption DEF Init, ParentInv, Children
<1>. QED BY <1>1, <1>3, <1>11, <1>12, <1>13, <1>14 DEF Core

LEMMA CoreStep == Core /\ [Next]_vars => Core'
<1>. SUFFICES ASSUME Core, [Next]_vars PROVE Core' OBVIOUS
<1>. USE DEF Core
<1>1. CASE Main
  BY <1>1, TypesMain, LocksMain, ListsMain, CountsMain, ParentMain
<1>2. ASSUME NEW c \in Children, Child(c) PROVE Core'
  BY <1>2, TypesChild, LocksChild, StackChild, QueueChild, CountsChild, ParentChild
<1>3. CASE UNCHANGED vars
  <2>. USE <1>3 DEF vars, stack, queue, parentVars
  <2>1. Types' BY Zenon DEF Types
  <2>2. LocksInv' BY Zenon DEF LocksInv
  <2>3. StackInv' BY StackUntouched
  <2>4. Inserted' = Inserted BY DEF Inserted
  <2>5. QueueInv' BY <2>4, QueueUntouched
  <2>6. CountsInv' BY Zenon DEF CountsInv
  <2>7. ParentInv' BY DEF ParentInv
  <2>. QED BY <2>1, <2>2, <2>3, <2>5, <2>6, <2>7
<1>. QED BY <1>1, <1>2, <1>3 DEF Next

LEMMA CoreHolds == Spec => []Core
BY CoreInit, CoreStep, PTL DEF Spec

\* The mutexes belong to whoever is in the code they guard, the two lists are what
\* their pointers say, and the parent has what it popped, for any number of children.
THEOREM StackQueueInvariant == Spec => []IInv
<1>1. Core => IInv BY Bounds DEF Core, IInv
<1>. QED BY <1>1, CoreHolds, PTL

\* A set that at most one child is in has the size CountsInv gives it.
LEMMA OneAt ==
  ASSUME LocksInv, NEW L, L \subseteq Paired
  PROVE  Cardinality({c \in Children : pc[c] \in L}) = One(\E c \in Children : pc[c] \in L)
<1>1. CASE \E c \in Children : pc[c] \in L
  <2>1. PICK c \in Children : pc[c] \in L BY <1>1
  <2>2. {d \in Children : pc[d] \in L} = {c} BY <2>1, Exclusive
  <2>. QED BY <1>1, <2>2, FS_Singleton DEF One
<1>2. CASE \A c \in Children : pc[c] \notin L
  <2>1. {d \in Children : pc[d] \in L} = {} BY <1>2
  <2>. QED BY <1>2, <2>1, FS_EmptySet DEF One
<1>. QED BY <1>1, <1>2

\* The semaphores count their lists: a Pop that has its token finds an element, and the
\* branch of Pop that falls off its end is never reached.
THEOREM SemaphoresCountElements == Spec => []SemaphoresCount
<1>1. Core => SemaphoresCount
  <2>. SUFFICES ASSUME Core PROVE SemaphoresCount OBVIOUS
  <2>1. main # "undefined" BY DEF Core, ParentInv
  <2>2. {c \in Children : pc[c] = "stackPost"} = {c \in Children : pc[c] \in {"stackPost"}}
    OBVIOUS
  <2>3. Cardinality({c \in Children : pc[c] = "stackPost"})
          = One(\E c \in Children : pc[c] = "stackPost")
    <3>1. Cardinality({c \in Children : pc[c] \in {"stackPost"}})
            = One(\E c \in Children : pc[c] \in {"stackPost"})
      BY OneAt DEF Core, Paired
    <3>. QED BY <2>2, <3>1 DEF One
  <2>4. Cardinality({c \in Children : pc[c] \in {"queueLink", "queuePost"}})
          = One(\E c \in Children : pc[c] \in {"queueLink", "queuePost"})
    BY OneAt DEF Core, Paired
  <2>. QED BY <2>1, <2>3, <2>4, Zenon DEF Core, CountsInv, SemaphoresCount, One
<1>. QED BY <1>1, CoreHolds, PTL

-----------------------------------------------------------------------------
\* What the lists hold.

LEMMA IsList ==
  ASSUME NEW n \in Nat, NEW s \in [1..n -> Children]
  PROVE  s \in Seq(Children) /\ Len(s) = n
<1>1. s \in Seq(Children) BY SeqDef
<1>2. DOMAIN s = 1..Len(s) /\ Len(s) \in Nat BY <1>1, LenProperties
<1>3. 1..n = 1..Len(s) BY <1>2
<1>. QED BY <1>1, <1>2, <1>3

LEMMA Reversed ==
  ASSUME NEW n \in Nat, NEW s \in [1..n -> Children]
  PROVE  /\ Reverse(s) \in Seq(Children) /\ Len(Reverse(s)) = n
         /\ \A k \in 1..n : Reverse(s)[k] = s[n - k + 1]
         /\ ToSet(Reverse(s)) = ToSet(s)
<1>1. Len(s) = n BY IsList
<1>2. Reverse(s) = [k \in 1..n |-> s[n - k + 1]] BY <1>1 DEF Reverse
<1>3. \A k \in 1..n : n - k + 1 \in 1..n /\ n - (n - k + 1) + 1 = k OBVIOUS
<1>4. Reverse(s) \in [1..n -> Children] BY <1>2, <1>3
<1>5. \A k \in 1..n : Reverse(s)[k] = s[n - k + 1] BY <1>2
<1>6. DOMAIN Reverse(s) = 1..n BY <1>2
<1>7. ToSet(Reverse(s)) = ToSet(s)
  <2>1. ASSUME NEW k \in 1..n PROVE \E j \in 1..n : s[k] = Reverse(s)[j]
    BY <1>3, <1>5
  <2>2. ASSUME NEW k \in 1..n PROVE \E j \in 1..n : Reverse(s)[k] = s[j]
    BY <1>3, <1>5
  <2>3. DOMAIN s = 1..n OBVIOUS
  <2>4. {s[k] : k \in 1..n} \subseteq {Reverse(s)[k] : k \in 1..n} BY <2>1
  <2>5. {Reverse(s)[k] : k \in 1..n} \subseteq {s[k] : k \in 1..n} BY <2>2
  <2>. QED BY <1>6, <2>3, <2>4, <2>5, Zenon DEF ToSet
<1>. QED BY <1>4, <1>5, <1>7, IsList

LEMMA AllShared ==
  ASSUME NEW n, NEW s \in [1..n -> Children], NEW got \in Seq(Children), NEW S \in SUBSET Children,
         Shared(s, n, got, S)
  PROVE  ToSet(s) \cup ToSet(got) = S
<1>1. \A c \in Children : c \in S <=> \/ \E j \in 1..n : s[j] = c
                                      \/ \E k \in 1..Len(got) : got[k] = c
  BY DEF Shared
<1>2. \A k \in 1..Len(got) : got[k] \in Children BY ElementOfSeq
<1>3. \A k \in 1..n : s[k] \in Children OBVIOUS
<1>4. DOMAIN s = 1..n /\ DOMAIN got = 1..Len(got) BY LenProperties
<1>. QED BY <1>1, <1>2, <1>3, <1>4, Zenon DEF ToSet

\* The results on either list, and those already taken from it, are those of the
\* children that are past the instruction that links their node.
LEMMA Seen ==
  ASSUME Core
  PROVE  StackSeen = At(OnStack) /\ QueueSeen = At(OnQueue)
<1>1. depth \in Nat /\ Inserted \in Nat /\ stackGG \in Seq(Children) /\ queueGG \in Seq(Children)
  BY LinkedCount DEF Core, Types
<1>2. At(OnStack) \in SUBSET Children /\ At(OnQueue) \in SUBSET Children BY DEF At
<1>3. StackSeen = At(OnStack)
  <2>1. PICK s \in [1..depth -> Children] : /\ Linked(s, depth, top, snext)
                                            /\ Shared(s, depth, stackGG, At(OnStack))
    BY DEF Core, StackInv
  <2>2. ToSet(StackItems) = ToSet(s) BY <1>1, <2>1, ChainIs, Reversed DEF StackItems
  <2>3. ToSet(s) \cup ToSet(stackGG) = At(OnStack) BY <1>1, <1>2, <2>1, AllShared
  <2>. QED BY <2>2, <2>3, Zenon DEF StackSeen
<1>4. QueueSeen = At(OnQueue)
  <2>1. PICK s \in [1..Inserted -> Children] : /\ Linked(s, Inserted, first, qnext)
                                               /\ Shared(s, Inserted, queueGG, At(OnQueue))
    BY DEF Core, QueueInv
  <2>2. QueueItems = s BY <1>1, <2>1, ChainIs DEF QueueItems
  <2>3. ToSet(s) \cup ToSet(queueGG) = At(OnQueue) BY <1>1, <1>2, <2>1, AllShared
  <2>. QED BY <2>2, <2>3, Zenon DEF QueueSeen
<1>. QED BY <1>3, <1>4

\* threadMutex ties the two pushes of a child together.
THEOREM PushesArePaired == Spec => []PushesPaired
<1>1. Core => PushesPaired
  <2>. SUFFICES ASSUME Core PROVE PushesPaired OBVIOUS
  <2>1. StackSeen = At(OnStack) /\ QueueSeen = At(OnQueue) BY Seen
  <2>2. At(OnQueue) \subseteq At(OnStack) BY DEF At, OnStack
  <2>. DEFINE Between == {"stackPost", "stackUnlock", "queueLock", "queueCount", "queueLink"}
  <2>3. At(OnStack) \ At(OnQueue) = {c \in Children : pc[c] \in Between}
    BY DEF At, OnStack, OnQueue
  <2>4. Cardinality({c \in Children : pc[c] \in Between})
          = One(\E c \in Children : pc[c] \in Between)
    <3>1. Between \subseteq Paired BY DEF Paired
    <3>. HIDE DEF Between
    <3>. QED BY <3>1, OneAt DEF Core
  <2>5. Cardinality(StackSeen \ QueueSeen) <= 1 BY <2>1, <2>3, <2>4 DEF One
  <2>6. ASSUME threadMutex = 0 PROVE At(OnStack) = At(OnQueue)
    <3>1. \A c \in Children : pc[c] \notin Paired BY <2>6, Owners DEF Core, LocksInv
    <3>. QED BY <2>2, <2>3, <3>1 DEF Paired
  <2>. QED BY <2>1, <2>2, <2>5, <2>6 DEF PushesPaired
<1>. QED BY <1>1, CoreHolds, PTL

LEMMA FullList ==
  ASSUME NEW s \in [1..N -> Children], \A j, k \in 1..N : s[j] = s[k] => j = k
  PROVE  \A c \in Children : \E j \in 1..N : s[j] = c
<1>1. N \in Nat /\ Children \in SUBSET Children BY NAssumption
<1>2. N = N => \A c \in Children : \E j \in 1..N : s[j] = c BY <1>1, ShortLists, Zenon
<1>. QED BY <1>2

\* Who took as many results as there are children has all of them, and left none.
LEMMA TookAll ==
  ASSUME NEW n \in Nat, NEW s \in [1..n -> Children], NEW got \in Seq(Children), Len(got) = N,
         NEW S, Shared(s, n, got, S)
  PROVE  n = 0 /\ ToSet(got) = Children /\ Children \subseteq S
<1>1. got \in [1..N -> Children] /\ DOMAIN got = 1..N /\ N \in Nat BY LenProperties, NAssumption
<1>2. /\ \A j, k \in 1..N : got[j] = got[k] => j = k
      /\ \A j \in 1..n, k \in 1..N : s[j] # got[k]
      /\ \A c \in Children : (\E k \in 1..N : got[k] = c) => c \in S
  BY DEF Shared
<1>3. \A c \in Children : \E j \in 1..N : got[j] = c
  <2>1. /\ Children \in SUBSET Children /\ got \in [1..N -> Children]
        /\ \A j, k \in 1..N : got[j] = got[k] => j = k
    BY <1>1, <1>2
  <2>. QED BY <1>1, <2>1, FullList
<1>4. n = 0
  <2>1. 1 \in 1..n => s[1] \in Children OBVIOUS
  <2>2. 1 \notin 1..n BY <1>2, <1>3, <2>1
  <2>. QED BY <2>2
<1>5. ToSet(got) = Children BY <1>1, <1>3 DEF ToSet
<1>. QED BY <1>2, <1>3, <1>4, <1>5

\* The parent joins only when it has every child's result from both lists, and what it
\* destroys after the joins is free and empty.
THEOREM EndIsOrderly == Spec => []OrderlyEnd
<1>1. Core => OrderlyEnd
  <2>. SUFFICES ASSUME Core, main \in {"join", "ended"} PROVE OrderlyEnd BY DEF OrderlyEnd
  <2>1. Len(stackGG) = N /\ Len(queueGG) = N BY DEF Core, ParentInv
  <2>2. /\ depth \in Nat /\ stackGG \in Seq(Children) /\ queueGG \in Seq(Children)
        /\ Inserted \in Nat
    BY LinkedCount DEF Core, Types
  <2>3. depth = 0 /\ ToSet(stackGG) = Children
    <3>1. PICK s \in [1..depth -> Children] : Shared(s, depth, stackGG, At(OnStack))
      BY DEF Core, StackInv
    <3>. QED BY <2>1, <2>2, <3>1, TookAll
  <2>4. Inserted = 0 /\ ToSet(queueGG) = Children /\ Children \subseteq At(OnQueue)
    <3>1. PICK s \in [1..Inserted -> Children] : Shared(s, Inserted, queueGG, At(OnQueue))
      BY DEF Core, QueueInv
    <3>. QED BY <2>1, <2>2, <3>1, TookAll
  <2>5. \A c \in Children : pc[c] \in OnQueue BY <2>4 DEF At
  <2>6. \A c \in Children : pc[c] # "failed" BY <2>5 DEF OnQueue
  <2>7. ASSUME main = "ended"
        PROVE  /\ \A c \in Children : pc[c] = "exit"
               /\ stackMutex = 0 /\ queueMutex = 0 /\ threadMutex = 0
               /\ stackSem = 0 /\ queueSem = 0 /\ depth = 0 /\ length = 0
    <3>1. \A c \in Children : pc[c] = "exit" BY <2>7 DEF Core, ParentInv
    <3>2. \A c \in Children : /\ pc[c] \notin Paired /\ pc[c] \notin InStack
                              /\ pc[c] \notin InQueue
      BY <3>1 DEF Paired, InStack, InQueue
    <3>3. stackMutex = 0 /\ queueMutex = 0 /\ threadMutex = 0
      <4>1. \A c \in Children : stackMutex # c /\ queueMutex # c /\ threadMutex # c
        BY <3>2 DEF Core, LocksInv
      <4>2. stackMutex # Parent /\ queueMutex # Parent BY <2>7 DEF Core, LocksInv
      <4>3. \A x \in 0..Parent : x = 0 \/ x \in Children \/ x = Parent
        BY NAssumption DEF Children, Parent
      <4>4. \A x \in 0..N : x = 0 \/ x \in Children BY NAssumption DEF Children
      <4>. QED BY <4>1, <4>2, <4>3, <4>4 DEF Core, Types
    <3>4. length = 0 BY <2>4, <3>1, InsertedIs
    <3>5. stackSem = 0 /\ queueSem = 0
      BY <2>3, <3>1, <3>4 DEF Core, CountsInv, Types, One
    <3>. QED BY <2>3, <3>1, <3>3, <3>4, <3>5
  <2>. QED BY <2>1, <2>3, <2>4, <2>6, <2>7 DEF OrderlyEnd
<1>. QED BY <1>1, CoreHolds, PTL

-----------------------------------------------------------------------------
\* The refinement: the pointers implement a channel.

LEMMA EmptyList ==
  ASSUME NEW s \in Seq(Children), Len(s) = 0
  PROVE  s = <<>>
BY EmptySeq

LEMMA ReversePushed ==
  ASSUME NEW n \in Nat, NEW s \in [1..n -> Children], NEW c \in Children,
         NEW s2 \in [1 .. n + 1 -> Children], s2[1] = c, \A k \in 1..n : s2[k + 1] = s[k]
  PROVE  Reverse(s2) = Append(Reverse(s), c)
<1>1. n + 1 \in Nat OBVIOUS
<1>2. /\ Reverse(s) \in Seq(Children) /\ Len(Reverse(s)) = n
      /\ \A k \in 1..n : Reverse(s)[k] = s[n - k + 1]
  BY Reversed
<1>3. /\ Reverse(s2) \in Seq(Children) /\ Len(Reverse(s2)) = n + 1
      /\ \A k \in 1 .. n + 1 : Reverse(s2)[k] = s2[(n + 1) - k + 1]
  BY <1>1, Reversed
<1>4. /\ Append(Reverse(s), c) \in Seq(Children) /\ Len(Append(Reverse(s), c)) = n + 1
      /\ \A k \in 1..n : Append(Reverse(s), c)[k] = Reverse(s)[k]
      /\ Append(Reverse(s), c)[n + 1] = c
  BY <1>2, AppendProperties
<1>5. ASSUME NEW k \in 1 .. n + 1 PROVE Reverse(s2)[k] = Append(Reverse(s), c)[k]
  <2>1. CASE k = n + 1 BY <1>3, <1>4, <2>1
  <2>2. CASE k # n + 1
    <3>1. k \in 1..n /\ n - k + 1 \in 1..n /\ (n + 1) - k + 1 = (n - k + 1) + 1 BY <2>2
    <3>2. s2[(n - k + 1) + 1] = s[n - k + 1] BY <3>1
    <3>3. Reverse(s2)[k] = s2[(n - k + 1) + 1] BY <1>3, <3>1
    <3>. QED BY <1>2, <1>4, <3>1, <3>2, <3>3
  <2>. QED BY <2>1, <2>2
<1>. QED BY <1>3, <1>4, <1>5, SeqEqual

LEMMA ReversePopped ==
  ASSUME NEW n \in Nat, n > 0, NEW s \in [1..n -> Children],
         NEW s2 \in [1 .. n - 1 -> Children], \A k \in 1 .. n - 1 : s2[k] = s[k + 1]
  PROVE  Reverse(s) # <<>> /\ Last(Reverse(s)) = s[1] /\ Front(Reverse(s)) = Reverse(s2)
<1>1. n - 1 \in Nat OBVIOUS
<1>2. /\ Reverse(s) \in Seq(Children) /\ Len(Reverse(s)) = n
      /\ \A k \in 1..n : Reverse(s)[k] = s[n - k + 1]
  BY Reversed
<1>3. /\ Reverse(s2) \in Seq(Children) /\ Len(Reverse(s2)) = n - 1
      /\ \A k \in 1 .. n - 1 : Reverse(s2)[k] = s2[(n - 1) - k + 1]
  BY <1>1, Reversed
<1>4. /\ Front(Reverse(s)) \in Seq(Children) /\ Len(Front(Reverse(s))) = n - 1
      /\ \A k \in 1 .. n - 1 : Front(Reverse(s))[k] = Reverse(s)[k]
  BY <1>2 DEF Front
<1>5. ASSUME NEW k \in 1 .. n - 1 PROVE Front(Reverse(s))[k] = Reverse(s2)[k]
  <2>1. /\ k \in 1..n /\ (n - 1) - k + 1 \in 1 .. n - 1
        /\ ((n - 1) - k + 1) + 1 = n - k + 1
    OBVIOUS
  <2>2. s2[(n - 1) - k + 1] = s[n - k + 1] BY <2>1
  <2>. QED BY <1>2, <1>3, <1>4, <2>1, <2>2
<1>6. Front(Reverse(s)) = Reverse(s2) BY <1>3, <1>4, <1>5, SeqEqual
<1>7. n \in 1..n /\ n - n + 1 = 1 OBVIOUS
<1>8. Last(Reverse(s)) = s[1] BY <1>2, <1>7 DEF Last
<1>9. Reverse(s) # <<>> BY <1>2
<1>. QED BY <1>6, <1>8, <1>9

LEMMA StackStep ==
  ASSUME Core, [Next]_vars
  PROVE  [AStack!Next]_AStack!vars
<1>0. depth \in Nat /\ stackGG \in Seq(Children) BY DEF Core, Types
<1>1. PICK s \in [1..depth -> Children] : /\ Linked(s, depth, top, snext)
                                          /\ Shared(s, depth, stackGG, At(OnStack))
  BY DEF Core, StackInv
<1>2. StackItems = Reverse(s) BY <1>0, <1>1, ChainIs DEF StackItems
<1>3. UNCHANGED <<top, snext, depth, stackGG>> => UNCHANGED AStack!vars
  BY DEF StackItems, AStack!vars
<1>4. ASSUME NEW c \in Children, StackLink(c), stackGG' = stackGG PROVE UNCHANGED AStack!vars
  <2>1. c \notin At(OnStack) BY <1>4 DEF StackLink, Step, At, OnStack, OnQueue
  <2>2. \A k \in 1..depth : s[k] # c BY <1>1, <2>1 DEF Shared
  <2>3. \A d \in Children : d # c => snext'[d] = snext[d] BY <1>4 DEF Core, Types, StackLink
  <2>4. Linked(s, depth, top, snext') BY <1>1, <2>2, <2>3 DEF Linked
  <2>5. Chain(top, snext', depth) = s BY <1>0, <2>4, ChainIs
  <2>6. StackItems' = Reverse(Chain(top, snext', depth)) BY <1>4 DEF StackLink, StackItems
  <2>. QED BY <1>2, <1>4, <2>5, <2>6 DEF AStack!vars
<1>5. ASSUME NEW c \in Children, StackTop(c), stackGG' = stackGG PROVE AStack!Put(c)
  <2>1. c \notin At(OnStack) /\ pc[c] = "stackTop"
    BY <1>5 DEF StackTop, Step, At, OnStack, OnQueue
  <2>2. snext[c] = top BY <2>1 DEF Core, StackInv
  <2>3. PICK s2 : s2 = [k \in 1 .. depth + 1 |-> IF k = 1 THEN c ELSE s[k - 1]] OBVIOUS
  <2>4. Linked(s2, depth + 1, c, snext) BY <1>0, <1>1, <2>2, <2>3, LinkedFront
  <2>5. s2 \in [1 .. depth + 1 -> Children] /\ depth + 1 \in Nat
    BY <1>0, <1>1, <2>1, <2>3, PushedFront
  <2>6. Chain(c, snext, depth + 1) = s2 BY <2>4, <2>5, ChainIs
  <2>7. StackItems' = Reverse(Chain(c, snext, depth + 1)) BY <1>5 DEF StackTop, StackItems
  <2>8. Reverse(s2) = Append(Reverse(s), c)
    <3>1. s2[1] = c /\ \A k \in 1..depth : s2[k + 1] = s[k] BY <1>0, <2>3
    <3>. QED BY <1>0, <2>5, <3>1, ReversePushed
  <2>9. c \notin ToSet(StackItems) \cup ToSet(stackGG) BY <2>1, Seen DEF StackSeen
  <2>10. StackItems' = Append(StackItems, c) BY <1>2, <2>6, <2>7, <2>8, Zenon
  <2>. QED BY <1>5, <2>9, <2>10, Zenon DEF AStack!Put, AStack!ToSet, ToSet
<1>6. ASSUME StackTake PROVE AStack!Get
  <2>1. depth > 0 BY <1>6, TakeFinds DEF Core, StackTake
  <2>2. /\ stackGG' = Append(stackGG, top) /\ top' = snext[top] /\ depth' = depth - 1
        /\ snext' = snext
    BY <1>6, <2>1 DEF StackTake
  <2>3. s[1] = top BY <1>1, <2>1 DEF Linked
  <2>4. PICK s2 : s2 = [k \in 1 .. depth - 1 |-> s[k + 1]] OBVIOUS
  <2>5. /\ s2 \in [1 .. depth - 1 -> Children] /\ depth - 1 \in Nat
        /\ Linked(s2, depth - 1, snext[top], snext)
    <3>1. depth \in Nat BY <1>0
    <3>2. depth - 1 \in Nat /\ \A k \in 1 .. depth - 1 : k + 1 \in 1..depth BY <2>1, <3>1
    <3>3. s2 \in [1 .. depth - 1 -> Children] BY <2>4, <3>2
    <3>4. Linked(s2, depth - 1, snext[top], snext) BY <1>0, <1>1, <2>1, <2>4, LinkedPopped
    <3>. QED BY <3>2, <3>3, <3>4
  <2>6. Chain(snext[top], snext, depth - 1) = s2 BY <2>5, ChainIs
  <2>7. StackItems' = Reverse(Chain(snext[top], snext, depth - 1)) BY <2>2 DEF StackItems
  <2>8. Reverse(s) # <<>> /\ Last(Reverse(s)) = s[1] /\ Front(Reverse(s)) = Reverse(s2)
    <3>1. \A k \in 1 .. depth - 1 : s2[k] = s[k + 1] BY <2>4
    <3>. QED BY <1>0, <2>1, <2>5, <3>1, ReversePopped
  <2>9. stackGG' = Append(stackGG, Last(StackItems)) BY <1>2, <2>2, <2>3, <2>8
  <2>10. StackItems' = Front(StackItems) BY <1>2, <2>6, <2>7, <2>8, Zenon
  <2>11. StackItems # <<>> BY <1>2, <2>8
  <2>. QED BY <2>9, <2>10, <2>11, Zenon DEF AStack!Get, AStack!Last, Last, AStack!Front, Front
<1>. USE DEF stack
<1>7. CASE Main /\ ~ StackTake
  <2>1. UNCHANGED <<top, snext, depth, stackGG>>
    BY <1>7 DEF Main, StackPop, QueuePop, Create, CreateFails, StackWait, StackPopLock,
                StackPopUnlock, QueueWait, QueuePopLock, QueueTake, QueuePopUnlock, Join
  <2>. QED BY <1>3, <2>1
<1>8. ASSUME NEW c \in Children, Child(c) PROVE UNCHANGED AStack!vars \/ AStack!Put(c)
  <2>0. stackGG' = stackGG BY <1>8 DEF Child, parentVars
  <2>1. CASE StackLink(c) BY <1>4, <2>0, <2>1
  <2>2. CASE StackTop(c) BY <1>5, <2>0, <2>2
  <2>3. CASE ~ StackLink(c) /\ ~ StackTop(c)
    <3>1. UNCHANGED <<top, snext, depth>>
      BY <1>8, <2>3 DEF Child, StackPush, QueuePush, ThreadLock, StackLock, StackPost, StackUnlock,
                        QueueLock, QueueCount, QueueLink, QueuePost, QueueUnlock, ThreadUnlock
    <3>. QED BY <1>3, <2>0, <3>1
  <2>. QED BY <2>1, <2>2, <2>3
<1>9. CASE UNCHANGED vars BY <1>3, <1>9 DEF vars, parentVars
<1>. QED BY <1>6, <1>7, <1>8, <1>9 DEF Next, AStack!Next, Main, StackPop

\* The list class Stack builds in its nodes is a stack of results.
THEOREM StackRefines == Spec => ImplementsStack
<1>1. Init => AStack!Init
  <2>. SUFFICES ASSUME Init PROVE AStack!Init OBVIOUS
  <2>1. depth = 0 /\ stackGG = <<>> BY DEF Init
  <2>2. PICK s \in [1..0 -> Children] : Linked(s, 0, top, snext)
    BY <2>1, CoreInit DEF Core, StackInv
  <2>3. StackItems = Reverse(s) BY <2>1, <2>2, ChainIs DEF StackItems
  <2>4. StackItems = <<>> BY <2>3, Reversed, EmptyList
  <2>. QED BY <2>1, <2>4 DEF AStack!Init
<1>2. Core /\ [Next]_vars => [AStack!Next]_AStack!vars BY StackStep
<1>. QED BY <1>1, <1>2, CoreHolds, PTL DEF Spec, AStack!Spec, ImplementsStack

LEMMA PushedIs ==
  ASSUME NEW n \in Nat, NEW s \in Seq(Children), Len(s) = n, NEW c \in Children,
         NEW s2 \in [1 .. n + 1 -> Children], s2[n + 1] = c, \A k \in 1..n : s2[k] = s[k]
  PROVE  s2 = Append(s, c)
<1>1. s2 \in Seq(Children) /\ Len(s2) = n + 1 BY IsList
<1>2. /\ Append(s, c) \in Seq(Children) /\ Len(Append(s, c)) = n + 1
      /\ \A k \in 1..n : Append(s, c)[k] = s[k]
      /\ Append(s, c)[n + 1] = c
  BY AppendProperties
<1>3. ASSUME NEW k \in 1 .. n + 1 PROVE s2[k] = Append(s, c)[k]
  <2>1. k \in 1..n \/ k = n + 1 OBVIOUS
  <2>. QED BY <1>2, <2>1
<1>. QED BY <1>1, <1>2, <1>3, SeqEqual

LEMMA PoppedIs ==
  ASSUME NEW n \in Nat, n > 0, NEW s \in Seq(Children), Len(s) = n,
         NEW s2 \in [1 .. n - 1 -> Children], \A k \in 1 .. n - 1 : s2[k] = s[k + 1]
  PROVE  s # <<>> /\ Head(s) = s[1] /\ s2 = Tail(s)
<1>1. n - 1 \in Nat /\ s2 \in Seq(Children) /\ Len(s2) = n - 1 BY IsList
<1>2. s # <<>> OBVIOUS
<1>3. /\ Tail(s) \in Seq(Children) /\ Len(Tail(s)) = n - 1
      /\ \A k \in 1 .. n - 1 : Tail(s)[k] = s[k + 1]
  BY <1>2, HeadTailProperties
<1>4. s2 = Tail(s) BY <1>1, <1>3, SeqEqual
<1>. QED BY <1>2, <1>4

LEMMA QueueStep ==
  ASSUME Core, [Next]_vars
  PROVE  [AQueue!Next]_AQueue!vars
<1>0. Inserted \in Nat /\ queueGG \in Seq(Children) BY LinkedCount DEF Core, Types
<1>1. PICK s \in [1..Inserted -> Children] : /\ Linked(s, Inserted, first, qnext)
                                             /\ Inserted > 0 => last = s[Inserted]
                                             /\ Shared(s, Inserted, queueGG, At(OnQueue))
  BY DEF Core, QueueInv
<1>2. QueueItems = s /\ s \in Seq(Children) /\ Len(s) = Inserted
  BY <1>0, <1>1, ChainIs, IsList DEF QueueItems
<1>3. UNCHANGED <<first, qnext, queueGG>> /\ Inserted' = Inserted => UNCHANGED AQueue!vars
  BY DEF QueueItems, AQueue!vars
<1>4. ASSUME NEW c \in Children, QueueCount(c), queueGG' = queueGG PROVE UNCHANGED AQueue!vars
  <2>1. /\ pc[c] = "queueCount" /\ pc'[c] = "queueLink" BY <1>4, Stepped DEF Core, Types, QueueCount
  <2>2. \A k \in 1..Inserted : s[k] # c
    <3>1. c \notin At(OnQueue) BY <2>1 DEF At, OnQueue
    <3>. QED BY <1>1, <3>1 DEF Shared
  <2>3. \A d \in Children : d # c => qnext'[d] = qnext[d] BY <1>4 DEF Core, Types, QueueCount
  <2>4. Linked(s, Inserted, first, qnext') BY <1>1, <2>2, <2>3 DEF Linked
  <2>5. Chain(first, qnext', Inserted) = s BY <1>0, <2>4, ChainIs
  <2>6. Inserted' = Inserted
    <3>1. \A d \in Children : pc[d] # "queueLink" BY <2>1, Exclusive DEF Core, Paired
    <3>2. Inserted = length BY <3>1, InsertedIs
    <3>3. Inserted' = length' - 1 BY <2>1 DEF Inserted
    <3>4. length' = length + 1 /\ length \in Nat BY <1>4 DEF QueueCount, Core, Types
    <3>. QED BY <3>2, <3>3, <3>4
  <2>7. QueueItems' = Chain(first, qnext', Inserted) BY <1>4, <2>6 DEF QueueCount, QueueItems
  <2>. QED BY <1>2, <1>4, <2>5, <2>7 DEF AQueue!vars
<1>5. ASSUME NEW c \in Children, QueueLink(c), queueGG' = queueGG PROVE AQueue!Put(c)
  <2>1. c \notin At(OnQueue) BY <1>5 DEF QueueLink, Step, At, OnQueue
  <2>2. QueueInv' /\ Inserted' = Inserted + 1 BY <1>5, QueueLinks DEF Core
  <2>3. PICK s2 : s2 = [k \in 1 .. Inserted + 1 |-> IF k = Inserted + 1 THEN c ELSE s[k]] OBVIOUS
  <2>4. s2 \in [1 .. Inserted + 1 -> Children] /\ Inserted + 1 \in Nat
    BY <1>0, <2>3
  <2>5. Linked(s2, Inserted + 1, first', qnext')
    BY <1>1, <1>5, <2>3, QueueLinked DEF Core, Shared
  <2>6. QueueItems' = s2
    <3>1. Chain(first', qnext', Inserted + 1) = s2 BY <2>4, <2>5, ChainIs
    <3>. QED BY <2>2, <3>1 DEF QueueItems
  <2>7. s2 = Append(s, c)
    <3>1. s2[Inserted + 1] = c /\ \A k \in 1..Inserted : s2[k] = s[k] BY <1>0, <2>3
    <3>. QED BY <1>0, <1>2, <2>4, <3>1, PushedIs
  <2>8. c \notin ToSet(QueueItems) \cup ToSet(queueGG) BY <2>1, Seen DEF QueueSeen
  <2>9. QueueItems' = Append(QueueItems, c) BY <1>2, <2>6, <2>7
  <2>. QED BY <1>5, <2>8, <2>9, Zenon DEF AQueue!Put, AQueue!ToSet, ToSet
<1>6. ASSUME QueueTake PROVE AQueue!Get
  <2>1. /\ length > 0 /\ Inserted = length /\ Inserted' = length'
    BY <1>6, TakeFinds, QueueTakes DEF Core, QueueTake
  <2>2. /\ queueGG' = Append(queueGG, first) /\ first' = qnext[first] /\ length' = length - 1
        /\ qnext' = qnext
    BY <1>6, <2>1 DEF QueueTake
  <2>3. s[1] = first BY <1>1, <2>1 DEF Linked
  <2>4. PICK s2 : s2 = [k \in 1 .. length - 1 |-> s[k + 1]] OBVIOUS
  <2>5. /\ s2 \in [1 .. length - 1 -> Children] /\ length - 1 \in Nat
        /\ Linked(s2, length - 1, qnext[first], qnext)
    <3>1. length \in Nat BY <1>0, <2>1
    <3>2. length - 1 \in Nat /\ \A k \in 1 .. length - 1 : k + 1 \in 1..length BY <2>1, <3>1
    <3>3. s2 \in [1 .. length - 1 -> Children] BY <1>0, <2>1, <2>4, <3>2
    <3>4. Linked(s2, length - 1, qnext[first], qnext) BY <1>0, <1>1, <2>1, <2>4, LinkedPopped
    <3>. QED BY <3>2, <3>3, <3>4
  <2>6. QueueItems' = s2
    <3>1. Chain(qnext[first], qnext, length - 1) = s2 BY <2>5, ChainIs
    <3>. QED BY <2>1, <2>2, <3>1 DEF QueueItems
  <2>7. s # <<>> /\ Head(s) = s[1] /\ s2 = Tail(s)
    <3>1. \A k \in 1 .. length - 1 : s2[k] = s[k + 1] BY <2>4
    <3>. QED BY <1>0, <1>2, <2>1, <2>5, <3>1, PoppedIs
  <2>9. queueGG' = Append(queueGG, Head(QueueItems)) BY <1>2, <2>2, <2>3, <2>7
  <2>10. QueueItems' = Tail(QueueItems) /\ QueueItems # <<>> BY <1>2, <2>6, <2>7
  <2>. QED BY <2>9, <2>10, Zenon DEF AQueue!Get
<1>. USE DEF queue
<1>7. CASE Main /\ ~ QueueTake
  <2>1. UNCHANGED <<first, qnext, length, queueGG>>
    BY <1>7 DEF Main, StackPop, QueuePop, Create, CreateFails, StackWait, StackPopLock,
                StackTake, StackPopUnlock, QueueWait, QueuePopLock, QueuePopUnlock, Join
  <2>2. \A d \in Children : pc'[d] = "queueLink" <=> pc[d] = "queueLink"
    BY <1>7, MainSteps DEF Core
  <2>3. Inserted' = Inserted BY <2>1, <2>2 DEF Inserted
  <2>. QED BY <1>3, <2>1, <2>3
<1>8. ASSUME NEW c \in Children, Child(c) PROVE UNCHANGED AQueue!vars \/ AQueue!Put(c)
  <2>0. queueGG' = queueGG BY <1>8 DEF Child, parentVars
  <2>1. CASE QueueCount(c) BY <1>4, <2>0, <2>1
  <2>2. CASE QueueLink(c) BY <1>5, <2>0, <2>2
  <2>3. CASE ~ QueueCount(c) /\ ~ QueueLink(c)
    <3>1. /\ UNCHANGED <<first, qnext, length>>
          /\ \A d \in Children : pc'[d] = "queueLink" <=> pc[d] = "queueLink"
      BY <1>8, <2>3 DEF Child, StackPush, QueuePush, ThreadLock, StackLock, StackLink, StackTop,
                        StackPost, StackUnlock, QueueLock, QueuePost, QueueUnlock, ThreadUnlock,
                        Step, Core, Types
    <3>2. Inserted' = Inserted BY <3>1 DEF Inserted
    <3>. QED BY <1>3, <2>0, <3>1, <3>2
  <2>. QED BY <2>1, <2>2, <2>3
<1>9. CASE UNCHANGED vars
  <2>1. Inserted' = Inserted BY <1>9 DEF vars, Inserted
  <2>. QED BY <1>3, <1>9, <2>1 DEF vars, parentVars
<1>. QED BY <1>6, <1>7, <1>8, <1>9 DEF Next, AQueue!Next, Main, QueuePop

\* The list class Queue builds in its nodes is a queue of results, also when it was
\* drained and last points to a node that is gone.
THEOREM QueueRefines == Spec => ImplementsQueue
<1>1. Init => AQueue!Init
  <2>. SUFFICES ASSUME Init PROVE AQueue!Init OBVIOUS
  <2>1. Inserted = 0 /\ queueGG = <<>> BY InsertedIs DEF Init
  <2>2. PICK s \in [1..0 -> Children] : Linked(s, 0, first, qnext)
    BY <2>1, CoreInit DEF Core, QueueInv
  <2>3. QueueItems = s BY <2>1, <2>2, ChainIs DEF QueueItems
  <2>4. QueueItems = <<>> BY <2>3, IsList, EmptyList
  <2>. QED BY <2>1, <2>4 DEF AQueue!Init
<1>2. Core /\ [Next]_vars => [AQueue!Next]_AQueue!vars BY QueueStep
<1>. QED BY <1>1, <1>2, CoreHolds, PTL DEF Spec, AQueue!Spec, ImplementsQueue
=============================================================================
