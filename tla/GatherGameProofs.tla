-------------------------- MODULE GatherGameProofs --------------------------
(***************************************************************************)
(* Proofs about the two smallest components, which share nothing: Gather,  *)
(* for every number of tasks and every team, and Game, for every size of   *)
(* the field and all first places of player and object inside its walls.   *)
(***************************************************************************)
EXTENDS Gather, Game, TLAPS

\* What becomes of a task.
States == {"none", "failed", "running", "returned", "counted"}

\* Appending a new task's result to GG.
LEMMA Appended ==
  ASSUME GG \in Seq(Tasks), run \in [Tasks -> States], CountedOnce,
         NEW t \in Tasks, run[t] # "counted",
         GG' = Append(GG, t), run' = [run EXCEPT ![t] = "counted"]
  PROVE  GG' \in Seq(Tasks) /\ CountedOnce'
<1>. DEFINE s == GG
            s2 == GG'
            n == Len(s)
<1>0. /\ \A j, k \in 1..n : j # k => s[j] # s[k]
      /\ \A u \in Tasks : run[u] = "counted" <=> \E j \in 1..n : s[j] = u
  BY Zenon DEF CountedOnce
<1>1. /\ s2 \in Seq(Tasks) /\ n \in Nat /\ Len(s2) = n + 1
      /\ s2[n + 1] = t
      /\ \A j \in 1..n : s2[j] = s[j]
  OBVIOUS
<1>2. \A j \in 1..n : s[j] # t BY <1>0, Zenon
<1>3. \A j, k \in 1..Len(s2) : j # k => s2[j] # s2[k]
  <2>. SUFFICES ASSUME NEW j \in 1 .. n + 1, NEW k \in 1 .. n + 1, j # k PROVE s2[j] # s2[k]
    BY <1>1
  <2>1. (j \in 1..n \/ j = n + 1) /\ (k \in 1..n \/ k = n + 1) BY <1>1
  <2>2. CASE j \in 1..n /\ k \in 1..n BY <1>0, <1>1, <2>2
  <2>3. CASE j \in 1..n /\ k = n + 1 BY <1>1, <1>2, <2>3
  <2>4. CASE j = n + 1 /\ k \in 1..n BY <1>1, <1>2, <2>4
  <2>. QED BY <2>1, <2>2, <2>3, <2>4
<1>4. ASSUME NEW u \in Tasks PROVE run'[u] = "counted" <=> \E j \in 1..Len(s2) : s2[j] = u
  <2>0. /\ \A j \in 1..n : j \in 1..Len(s2)
        /\ n + 1 \in 1..Len(s2)
        /\ \A j \in 1..Len(s2) : j \in 1..n \/ j = n + 1
    BY <1>1
  <2>1. CASE u = t
    <3>1. run'[u] = "counted" BY <2>1
    <3>. QED BY <1>1, <2>0, <2>1, <3>1, Zenon
  <2>2. CASE u # t
    <3>1. run'[u] = run[u] BY <2>2
    <3>2. (\E j \in 1..Len(s2) : s2[j] = u) <=> \E j \in 1..n : s[j] = u
      BY <1>1, <2>0, <2>2, Zenon
    <3>. QED BY <1>0, <3>1, <3>2, Zenon
  <2>. QED BY <2>1, <2>2
<1>. QED BY <1>1, <1>3, <1>4, Zenon DEF CountedOnce

\* The counter's next value.
LEMMA NextTask ==
  ASSUME NEW k \in Tasks
  PROVE  /\ k < N => k + 1 \in Tasks
         /\ ~(k < N) => k = N
         /\ 1 \in Tasks
         /\ \A t \in Tasks : /\ t < k + 1 <=> t < k \/ t = k
                             /\ t >= k + 1 <=> t >= k /\ t # k
                             /\ t >= k <=> ~(t < k)
                             /\ ~(t < 1)
                             /\ t < N \/ t = N
                             /\ ~(t < t)
                             /\ t # 0
BY NAssumption DEF Tasks

-----------------------------------------------------------------------------
\* GatherInv is inductive.

LEMMA CreateKeeps == GatherInv /\ Create => GatherInv'
<1>. SUFFICES ASSUME GatherInv, Create PROVE GatherInv' OBVIOUS
<1>0. /\ i \in Tasks /\ run \in [Tasks -> States] /\ pc = "create" /\ prog = "pthread"
      /\ run[i] = "none" /\ \A w \in Team : cur[w] = 0
      /\ \A t \in Tasks : run[t] # "counted"
      /\ \A t \in Tasks : run[t] = "none" <=> t >= i
  <2>1. pc = "create" BY DEF Create
  <2>2. prog = "pthread" BY <2>1 DEF GatherInv, TypeOK
  <2>3. i \in Tasks /\ run \in [Tasks -> States] BY DEF GatherInv, TypeOK, States
  <2>4. /\ \A w \in Team : cur[w] = 0
        /\ \A t \in Tasks : run[t] # "counted"
        /\ \A t \in Tasks : run[t] = "none" <=> t >= i
    BY <2>1, Zenon DEF GatherInv, JoinedInOrder
  <2>5. i >= i BY <2>3, NextTask
  <2>. QED BY <2>1, <2>2, <2>3, <2>4, <2>5, Zenon
<1>1. UNCHANGED <<prog, cur, G, GG>> BY DEF Create
<1>2. PICK to \in {"running", "failed"} : run' = [run EXCEPT ![i] = to]
  BY Zenon DEF Create, Set
<1>3. \A t \in Tasks : run'[t] = IF t = i THEN to ELSE run[t] BY <1>0, <1>2
<1>4. \/ i < N /\ i' = i + 1 /\ pc' = "create"
      \/ i = N /\ i' = 1 /\ pc' = "join"
  BY <1>0, NextTask, Zenon DEF Create, Advance
<1>5. TypeOK'
  <2>1. i' \in Tasks BY <1>0, <1>4, NextTask
  <2>2. run' \in [Tasks -> States] BY <1>0, <1>2 DEF States
  <2>3. pc' \in {"create", "join", "crashed"} BY <1>4, Zenon
  <2>4. cur' \in [Team -> 0..N] /\ G' \in [Team -> 0..N] /\ GG' \in Seq(Tasks)
    BY <1>1 DEF GatherInv, TypeOK
  <2>5. prog' = "pthread" BY <1>0, <1>1
  <2>. QED BY <2>1, <2>2, <2>3, <2>4, <2>5, Zenon DEF TypeOK, States
<1>6. CountedOnce'
  <2>1. \A t \in Tasks : run'[t] # "counted" BY <1>0, <1>3, Zenon
  <2>2. GG' = GG BY <1>1
  <2>3. CountedOnce BY DEF GatherInv
  <2>4. \A t \in Tasks : ~ \E j \in 1..Len(GG) : GG[j] = t
    BY <1>0, <2>3, Zenon DEF CountedOnce
  <2>5. \A j, k \in 1..Len(GG') : j # k => GG'[j] # GG'[k]
    BY <2>2, <2>3, Zenon DEF CountedOnce
  <2>6. \A t \in Tasks : run'[t] = "counted" <=> \E j \in 1..Len(GG') : GG'[j] = t
    BY <2>1, <2>2, <2>4, Zenon
  <2>. QED BY <2>5, <2>6, Zenon DEF CountedOnce
<1>7. OwnResults' BY <1>0, <1>1, Zenon DEF OwnResults
<1>8. JoinedInOrder'
  <2>1. \A t \in Tasks : run'[t] # "counted" BY <1>0, <1>3, Zenon
  <2>2. CASE i < N /\ i' = i + 1 /\ pc' = "create"
    <3>1. \A t \in Tasks : run'[t] = "none" <=> t >= i + 1 BY <1>0, <1>3, NextTask, Zenon
    <3>. QED BY <1>0, <1>1, <2>1, <2>2, <3>1, Zenon DEF JoinedInOrder
  <2>3. CASE i = N /\ i' = 1 /\ pc' = "join"
    <3>1. \A t \in Tasks : run'[t] # "none" BY <1>0, <1>3, <2>3, NextTask, Zenon
    <3>2. \A t \in Tasks : ~(t < 1) BY <1>0, NextTask, Zenon
    <3>. QED BY <1>0, <1>1, <2>1, <2>3, <3>1, <3>2, Zenon DEF JoinedInOrder
  <2>. QED BY <1>4, <2>2, <2>3
<1>9. TotalIsWhole' BY <1>4, Zenon DEF TotalIsWhole
<1>. QED BY <1>5, <1>6, <1>7, <1>8, <1>9 DEF GatherInv

LEMMA JoinKeeps == GatherInv /\ Join => GatherInv'
<1>. SUFFICES ASSUME GatherInv, Join PROVE GatherInv' OBVIOUS
<1>0. /\ i \in Tasks /\ run \in [Tasks -> States] /\ pc = "join" /\ prog = "pthread"
      /\ run[i] = "returned" /\ \A w \in Team : cur[w] = 0
      /\ \A t \in Tasks : run[t] = "counted" <=> t < i
      /\ \A t \in Tasks : run[t] # "none"
  <2>1. pc = "join" /\ run[i] = "returned" BY DEF Join
  <2>2. prog = "pthread" BY <2>1 DEF GatherInv, TypeOK
  <2>3. i \in Tasks /\ run \in [Tasks -> States] BY DEF GatherInv, TypeOK, States
  <2>4. /\ \A w \in Team : cur[w] = 0
        /\ \A t \in Tasks : run[t] = "counted" <=> t < i
        /\ \A t \in Tasks : run[t] # "none"
    BY <2>1, Zenon DEF GatherInv, JoinedInOrder
  <2>. QED BY <2>1, <2>2, <2>3, <2>4, Zenon
<1>1. UNCHANGED <<prog, cur, G>> BY DEF Join
<1>2. run' = [run EXCEPT ![i] = "counted"] /\ GG' = Append(GG, i) BY DEF Join, Set
<1>3. \A t \in Tasks : run'[t] = IF t = i THEN "counted" ELSE run[t] BY <1>0, <1>2
<1>4. \/ i < N /\ i' = i + 1 /\ pc' = "join"
      \/ i = N /\ i' = 1 /\ pc' = "print"
  BY <1>0, NextTask, Zenon DEF Join, Advance
<1>5. GG' \in Seq(Tasks) /\ CountedOnce'
  <2>1. GG \in Seq(Tasks) /\ CountedOnce BY DEF GatherInv, TypeOK
  <2>2. run[i] # "counted" BY <1>0
  <2>. QED BY <1>0, <1>2, <2>1, <2>2, Appended, Zenon
<1>6. TypeOK'
  <2>1. i' \in Tasks BY <1>0, <1>4, NextTask
  <2>2. run' \in [Tasks -> States] BY <1>0, <1>2 DEF States
  <2>3. pc' \in {"create", "join", "crashed"} \cup {"print", "end"} BY <1>4, Zenon
  <2>4. cur' \in [Team -> 0..N] /\ G' \in [Team -> 0..N]
    BY <1>1 DEF GatherInv, TypeOK
  <2>5. prog' = "pthread" BY <1>0, <1>1
  <2>. QED BY <1>5, <2>1, <2>2, <2>3, <2>4, <2>5, Zenon DEF TypeOK, States
<1>7. OwnResults' BY <1>0, <1>1, Zenon DEF OwnResults
<1>8. JoinedInOrder' /\ TotalIsWhole'
  <2>2. CASE i < N /\ i' = i + 1 /\ pc' = "join"
    <3>1. \A t \in Tasks : run'[t] = "counted" <=> t < i + 1 BY <1>0, <1>3, NextTask, Zenon
    <3>2. \A t \in Tasks : run'[t] # "none" BY <1>0, <1>3, Zenon
    <3>. QED BY <1>0, <1>1, <2>2, <3>1, <3>2, Zenon DEF JoinedInOrder, TotalIsWhole
  <2>3. CASE i = N /\ i' = 1 /\ pc' = "print"
    <3>1. \A t \in Tasks : run'[t] = "counted" BY <1>0, <1>3, <2>3, NextTask, Zenon
    <3>. QED BY <2>3, <3>1, Zenon DEF JoinedInOrder, TotalIsWhole
  <2>. QED BY <1>4, <2>2, <2>3
<1>. QED BY <1>5, <1>6, <1>7, <1>8 DEF GatherInv

LEMMA JoinUnsetKeeps == GatherInv /\ JoinUnset => GatherInv'
<1>. SUFFICES ASSUME GatherInv, JoinUnset PROVE GatherInv' OBVIOUS
<1>1. pc = "join" /\ pc' = "crashed" /\ UNCHANGED <<prog, i, run, cur, G, GG>> BY DEF JoinUnset
<1>2. TypeOK' BY <1>1, Zenon DEF GatherInv, TypeOK
<1>3. CountedOnce' BY <1>1, Zenon DEF GatherInv, CountedOnce
<1>4. OwnResults' BY <1>1, Zenon DEF GatherInv, OwnResults
<1>5. JoinedInOrder' /\ TotalIsWhole' BY <1>1, Zenon DEF GatherInv, JoinedInOrder, TotalIsWhole
<1>. QED BY <1>2, <1>3, <1>4, <1>5 DEF GatherInv

LEMMA ReturnKeeps == ASSUME GatherInv, NEW t \in Tasks, Return(t) PROVE GatherInv'
<1>1. /\ prog = "pthread" /\ pc # "crashed" /\ run[t] = "running"
      /\ run' = [run EXCEPT ![t] = "returned"]
      /\ UNCHANGED <<prog, pc, i, cur, G, GG>>
  BY DEF Return, Set
<1>2. pc \in {"create", "join"}
  BY <1>1, Zenon DEF GatherInv, TypeOK, TotalIsWhole
<1>3. run \in [Tasks -> States] BY DEF GatherInv, TypeOK, States
<1>4. /\ run' \in [Tasks -> States]
      /\ \A u \in Tasks : /\ run'[u] = "counted" <=> run[u] = "counted"
                          /\ run'[u] = "none" <=> run[u] = "none"
  <2>1. run' \in [Tasks -> States] BY <1>1, <1>3 DEF States
  <2>2. \A u \in Tasks : run'[u] = IF u = t THEN "returned" ELSE run[u] BY <1>1, <1>3
  <2>3. \A u \in Tasks : /\ run'[u] = "counted" <=> run[u] = "counted"
                         /\ run'[u] = "none" <=> run[u] = "none"
    BY <1>1, <2>2
  <2>. QED BY <2>1, <2>3, Zenon
<1>5. TypeOK' BY <1>1, <1>4, Zenon DEF GatherInv, TypeOK, States
<1>6. CountedOnce' BY <1>1, <1>4, Zenon DEF GatherInv, CountedOnce
<1>7. \A w \in Team : cur[w] = 0 BY <1>2, Zenon DEF GatherInv, JoinedInOrder
<1>8. OwnResults' BY <1>1, <1>7, Zenon DEF OwnResults
<1>9. JoinedInOrder' /\ TotalIsWhole'
  BY <1>1, <1>4, Zenon DEF GatherInv, JoinedInOrder, TotalIsWhole
<1>. QED BY <1>5, <1>6, <1>8, <1>9 DEF GatherInv
LEMMA TakeKeeps == ASSUME GatherInv, NEW w \in Team, Take(w) PROVE GatherInv'
<1>1. PICK t \in Tasks : /\ run[t] = "none" /\ run' = [run EXCEPT ![t] = "running"]
                         /\ cur' = [cur EXCEPT ![w] = t]
  BY DEF Take, Set
<1>2. /\ pc = "parallel" /\ cur[w] = 0
      /\ G' = [G EXCEPT ![w] = 0] /\ UNCHANGED <<prog, pc, i, GG>>
  BY DEF Take
<1>3. /\ run \in [Tasks -> States] /\ cur \in [Team -> 0..N] /\ G \in [Team -> 0..N]
  BY DEF GatherInv, TypeOK, States
<1>4. prog = "omp" BY <1>2 DEF GatherInv, TypeOK
<1>5. run' \in [Tasks -> States] BY <1>1, <1>3 DEF States
<1>6. cur' \in [Team -> 0..N] /\ G' \in [Team -> 0..N] /\ t # 0
  <2>1. 0 \in 0..N /\ t \in 0..N /\ t # 0 BY NAssumption DEF Tasks
  <2>. QED BY <1>1, <1>2, <1>3, <2>1
<1>7. TypeOK' BY <1>2, <1>4, <1>5, <1>6, Zenon DEF GatherInv, TypeOK, States
<1>8. \A u \in Tasks : run'[u] = IF u = t THEN "running" ELSE run[u] BY <1>1, <1>3
<1>9. CountedOnce'
  <2>1. \A u \in Tasks : run'[u] = "counted" <=> run[u] = "counted" BY <1>1, <1>8
  <2>. QED BY <1>2, <2>1, Zenon DEF GatherInv, CountedOnce
<1>10. OwnResults'
  <2>1. \A v \in Team : /\ cur'[v] = IF v = w THEN t ELSE cur[v]
                        /\ G'[v] = IF v = w THEN 0 ELSE G[v]
    BY <1>1, <1>2, <1>3
  <2>2. OwnResults BY DEF GatherInv
  <2>3. \A v \in Team : cur[v] # t BY <1>1, <1>6, <2>2 DEF OwnResults
  <2>4. \A v \in Team : cur[v] # 0 => cur[v] \in Tasks
    <3>1. \A x \in 0..N : x # 0 => x \in Tasks BY NAssumption DEF Tasks
    <3>. QED BY <1>3, <3>1
  <2>5. SUFFICES ASSUME NEW v \in Team, cur'[v] # 0
                 PROVE  /\ run'[cur'[v]] = "running"
                        /\ G'[v] \in {0, cur'[v]}
                        /\ \A x \in Team \ {v} : cur'[x] # cur'[v]
    BY Zenon DEF OwnResults
  <2>6. CASE v = w BY <1>8, <2>1, <2>3, <2>6, Zenon
  <2>7. CASE v # w
    <3>1. cur'[v] = cur[v] /\ G'[v] = G[v] /\ cur[v] \in Tasks BY <2>1, <2>4, <2>5, <2>7, Zenon
    <3>2. /\ run[cur[v]] = "running" /\ G[v] \in {0, cur[v]}
          /\ \A x \in Team \ {v} : cur[x] # cur[v]
      BY <2>2, <2>5, <3>1, Zenon DEF OwnResults
    <3>3. run'[cur[v]] = "running" BY <1>8, <3>1, <3>2, Zenon
    <3>4. \A x \in Team \ {v} : cur'[x] # cur[v] BY <2>1, <2>3, <3>2, Zenon
    <3>. QED BY <3>1, <3>2, <3>3, <3>4, Zenon
  <2>. QED BY <2>6, <2>7
<1>11. JoinedInOrder' /\ TotalIsWhole' BY <1>2 DEF JoinedInOrder, TotalIsWhole
<1>. QED BY <1>7, <1>9, <1>10, <1>11 DEF GatherInv

LEMMA CountKeeps == ASSUME GatherInv, NEW w \in Team, Count(w) PROVE GatherInv'
<1>1. /\ cur[w] # 0 /\ G' = [G EXCEPT ![w] = cur[w]]
      /\ UNCHANGED <<prog, pc, i, run, cur, GG>>
  BY DEF Count
<1>2. cur \in [Team -> 0..N] /\ G \in [Team -> 0..N] BY DEF GatherInv, TypeOK
<1>3. /\ G' \in [Team -> 0..N]
      /\ \A v \in Team : G'[v] = IF v = w THEN cur[w] ELSE G[v]
  BY <1>1, <1>2
<1>4. TypeOK' BY <1>1, <1>3, Zenon DEF GatherInv, TypeOK
<1>5. CountedOnce' BY <1>1, Zenon DEF GatherInv, CountedOnce
<1>6. OwnResults' BY <1>1, <1>3, Zenon DEF GatherInv, OwnResults
<1>7. JoinedInOrder' /\ TotalIsWhole'
  BY <1>1, Zenon DEF GatherInv, JoinedInOrder, TotalIsWhole
<1>. QED BY <1>4, <1>5, <1>6, <1>7 DEF GatherInv

LEMMA AddKeeps == ASSUME GatherInv, NEW w \in Team, Add(w) PROVE GatherInv'
<1>1. /\ cur[w] # 0 /\ G[w] # 0 /\ GG' = Append(GG, G[w])
      /\ run' = [run EXCEPT ![cur[w]] = "counted"]
      /\ cur' = [cur EXCEPT ![w] = 0]
      /\ UNCHANGED <<prog, pc, i, G>>
  BY DEF Add, Set
<1>2. /\ run \in [Tasks -> States] /\ cur \in [Team -> 0..N] /\ GG \in Seq(Tasks)
  BY DEF GatherInv, TypeOK, States
<1>3. \A v \in Team : cur[v] # 0 => cur[v] \in Tasks
  <2>1. \A x \in 0..N : x # 0 => x \in Tasks BY NAssumption DEF Tasks
  <2>. QED BY <1>2, <2>1
<1>4. OwnResults /\ CountedOnce BY DEF GatherInv
<1>5. /\ cur[w] \in Tasks /\ run[cur[w]] = "running" /\ G[w] = cur[w]
      /\ \A v \in Team \ {w} : cur[v] # cur[w]
  BY <1>1, <1>3, <1>4, Zenon DEF OwnResults
<1>6. \A u \in Tasks : run'[u] = IF u = cur[w] THEN "counted" ELSE run[u] BY <1>1, <1>2
<1>7. \A v \in Team : cur'[v] = IF v = w THEN 0 ELSE cur[v] BY <1>1, <1>2
<1>8. prog = "omp"
  <2>1. ~ \A v \in Team : cur[v] = 0 BY <1>1
  <2>2. pc \notin {"create", "join", "crashed"} BY <2>1, Zenon DEF GatherInv, JoinedInOrder
  <2>3. pc \notin {"print", "end"} BY <1>5, Zenon DEF GatherInv, TotalIsWhole
  <2>. QED BY <2>2, <2>3, Zenon DEF GatherInv, TypeOK
<1>9. pc = "parallel"
  <2>1. pc \notin {"print", "end"} BY <1>5, Zenon DEF GatherInv, TotalIsWhole
  <2>. QED BY <1>8, <2>1 DEF GatherInv, TypeOK
<1>10. GG' \in Seq(Tasks) /\ CountedOnce'
  <2>1. run[cur[w]] # "counted" BY <1>5
  <2>2. GG' = Append(GG, cur[w]) BY <1>1, <1>5
  <2>. QED BY <1>1, <1>2, <1>4, <1>5, <2>1, <2>2, Appended, Zenon
<1>11. TypeOK'
  <2>1. run' \in [Tasks -> States] BY <1>1, <1>2, <1>5 DEF States
  <2>2. 0 \in 0..N BY NAssumption
  <2>3. cur' \in [Team -> 0..N] BY <1>1, <1>2, <2>2
  <2>. QED BY <1>1, <1>8, <1>9, <1>10, <2>1, <2>3, Zenon DEF GatherInv, TypeOK, States
<1>12. OwnResults'
  <2>. SUFFICES ASSUME NEW v \in Team, cur'[v] # 0
                PROVE  /\ run'[cur'[v]] = "running"
                       /\ G'[v] \in {0, cur'[v]}
                       /\ \A x \in Team \ {v} : cur'[x] # cur'[v]
    BY Zenon DEF OwnResults
  <2>1. v # w /\ cur'[v] = cur[v] /\ G'[v] = G[v] BY <1>1, <1>7, Zenon
  <2>2. /\ cur[v] \in Tasks /\ cur[v] # cur[w]
        /\ run[cur[v]] = "running" /\ G[v] \in {0, cur[v]}
        /\ \A x \in Team \ {v} : cur[x] # cur[v]
    BY <1>3, <1>4, <1>5, <2>1, Zenon DEF OwnResults
  <2>3. run'[cur[v]] = "running" BY <1>6, <2>2, Zenon
  <2>4. \A x \in Team \ {v} : cur'[x] # cur[v] BY <1>7, <2>1, <2>2, Zenon
  <2>. QED BY <2>1, <2>2, <2>3, <2>4, Zenon
<1>13. JoinedInOrder' /\ TotalIsWhole' BY <1>1, <1>9 DEF JoinedInOrder, TotalIsWhole
<1>. QED BY <1>10, <1>11, <1>12, <1>13 DEF GatherInv

\* No task is under way when the region ends, and nothing changes after it.
LEMMA EndKeeps == GatherInv /\ (Region \/ PrintTotal) => GatherInv'
<1>. SUFFICES ASSUME GatherInv, Region \/ PrintTotal PROVE GatherInv' OBVIOUS
<1>1. /\ pc' \in {"print", "end"} /\ UNCHANGED <<prog, i, run, cur, G, GG>>
      /\ \A t \in Tasks : run[t] = "counted"
  BY Zenon DEF Region, PrintTotal, GatherInv, TotalIsWhole
<1>2. TypeOK' BY <1>1, Zenon DEF GatherInv, TypeOK
<1>3. CountedOnce' BY <1>1, Zenon DEF GatherInv, CountedOnce
<1>4. OwnResults' BY <1>1, Zenon DEF GatherInv, OwnResults
<1>5. JoinedInOrder' /\ TotalIsWhole' BY <1>1 DEF JoinedInOrder, TotalIsWhole
<1>. QED BY <1>2, <1>3, <1>4, <1>5 DEF GatherInv

\* Each result is added once, by the thread whose task it is, and a total that is
\* printed holds them all.
THEOREM GatherInvariant == Spec => []GatherInv
<1>1. Init => GatherInv
  <2>. SUFFICES ASSUME Init PROVE GatherInv OBVIOUS
  <2>1. /\ prog \in {"pthread", "omp"} /\ i = 1 /\ GG = <<>>
        /\ pc = (IF prog = "pthread" THEN "create" ELSE "parallel")
        /\ run = [t \in Tasks |-> "none"]
        /\ cur = [w \in Team |-> 0] /\ G = [w \in Team |-> 0]
    BY DEF Init
  <2>2. 1 \in Tasks /\ 0 \in 0..N /\ \A t \in Tasks : t >= 1
    BY NAssumption DEF Tasks
  <2>3. /\ run \in [Tasks -> States] /\ \A t \in Tasks : run[t] = "none"
        /\ \A w \in Team : cur[w] = 0
    BY <2>1 DEF States
  <2>4. cur \in [Team -> 0..N] /\ G \in [Team -> 0..N] BY <2>1, <2>2
  <2>5. GG \in Seq(Tasks) /\ 1..Len(GG) = {} BY <2>1
  <2>6. TypeOK BY <2>1, <2>2, <2>3, <2>4, <2>5, Zenon DEF TypeOK, States
  <2>7. CountedOnce BY <2>3, <2>5 DEF CountedOnce
  <2>8. OwnResults BY <2>3, Zenon DEF OwnResults
  <2>9. JoinedInOrder BY <2>1, <2>2, <2>3, Zenon DEF JoinedInOrder
  <2>10. TotalIsWhole BY <2>1 DEF TotalIsWhole
  <2>. QED BY <2>6, <2>7, <2>8, <2>9, <2>10 DEF GatherInv
<1>2. GatherInv /\ [Next]_vars => GatherInv'
  <2>. SUFFICES ASSUME GatherInv, [Next]_vars PROVE GatherInv' OBVIOUS
  <2>1. CASE Next
    BY <2>1, CreateKeeps, JoinKeeps, JoinUnsetKeeps, ReturnKeeps, TakeKeeps, CountKeeps,
       AddKeeps, EndKeeps, Zenon DEF Next
  <2>2. CASE UNCHANGED vars
    <3>1. UNCHANGED <<prog, pc, i, run, cur, G, GG>> BY <2>2 DEF vars
    <3>2. TypeOK' BY <3>1, Zenon DEF GatherInv, TypeOK
    <3>3. CountedOnce' BY <3>1, Zenon DEF GatherInv, CountedOnce
    <3>4. OwnResults' BY <3>1, Zenon DEF GatherInv, OwnResults
    <3>5. JoinedInOrder' /\ TotalIsWhole'
      BY <3>1, Zenon DEF GatherInv, JoinedInOrder, TotalIsWhole
    <3>. QED BY <3>2, <3>3, <3>4, <3>5 DEF GatherInv
  <2>. QED BY <2>1, <2>2
<1>. QED BY <1>1, <1>2, PTL DEF Spec

-----------------------------------------------------------------------------
\* Game

\* The player's places are cells of the field, and the corner is one of its walls.
LEMMA Places == /\ Inner \subseteq Cells
                /\ Corner \notin Inner
                /\ Corner \in Cells
BY SizeAssumption DEF Inner, Cells, Corner, FIRSTCOL, FIRSTROW

\* The cells next to one inside the walls are cells of the field other than the
\* corner where the carried object is put.
LEMMA Neighbours ==
  ASSUME NEW x \in Int, NEW y \in Int, 1 <= x, x < LASTCOL, 1 <= y, y < LASTROW
  PROVE  \A cell \in {<<x, y - 1>>, <<x, y + 1>>, <<x - 1, y>>, <<x + 1, y>>} :
            cell \in Cells /\ cell # Corner /\ cell # <<x, y>>
<1>1. LASTCOL \in Nat /\ LASTROW \in Nat BY SizeAssumption
<1>2. /\ <<x, y - 1>> \in Cells /\ <<x, y + 1>> \in Cells
      /\ <<x - 1, y>> \in Cells /\ <<x + 1, y>> \in Cells
  BY <1>1 DEF Cells, FIRSTCOL, FIRSTROW
<1>3. /\ <<x, y - 1>> # Corner /\ <<x, y + 1>> # Corner
      /\ <<x - 1, y>> # Corner /\ <<x + 1, y>> # Corner
  BY <1>1 DEF Corner
<1>4. /\ <<x, y - 1>> # <<x, y>> /\ <<x, y + 1>> # <<x, y>>
      /\ <<x - 1, y>> # <<x, y>> /\ <<x + 1, y>> # <<x, y>>
  BY SMT
<1>. QED BY <1>2, <1>3, <1>4, Zenon

\* A place of the player as a pair of numbers.
LEMMA Coordinates ==
  ASSUME POS \in Inner
  PROVE  /\ POS = <<POS[1], POS[2]>>
         /\ POS[1] \in Int /\ 1 <= POS[1] /\ POS[1] < LASTCOL
         /\ POS[2] \in Int /\ 1 <= POS[2] /\ POS[2] < LASTROW
<1>1. POS = <<POS[1], POS[2]>> BY DEF Inner
<1>2. /\ POS[1] \in Int /\ 1 <= POS[1] /\ POS[1] < LASTCOL
      /\ POS[2] \in Int /\ 1 <= POS[2] /\ POS[2] < LASTROW
  BY SizeAssumption DEF Inner, FIRSTCOL, FIRSTROW
<1>. QED BY <1>1, <1>2

\* The player faces such a cell when he has turned, and his own before.
LEMMA FacingCells ==
  ASSUME POS \in Inner, NEW d \in {"", "u", "d", "l", "r"}
  PROVE  /\ Facing(d) \in Cells
         /\ Facing(d) # Corner
         /\ Facing(d) # POS \/ d = ""
         /\ Facing(d) = POS \/ d # ""
<1>3. POS \in Cells /\ POS # Corner BY Places, Zenon
<1>4. \A cell \in {<<POS[1], POS[2] - 1>>, <<POS[1], POS[2] + 1>>,
                   <<POS[1] - 1, POS[2]>>, <<POS[1] + 1, POS[2]>>} :
         cell \in Cells /\ cell # Corner /\ cell # POS
  BY Coordinates, Neighbours
<1>5. /\ d = "u" => Facing(d) = <<POS[1], POS[2] - 1>>
      /\ d = "d" => Facing(d) = <<POS[1], POS[2] + 1>>
      /\ d = "l" => Facing(d) = <<POS[1] - 1, POS[2]>>
      /\ d = "r" => Facing(d) = <<POS[1] + 1, POS[2]>>
      /\ d = "" => Facing(d) = POS
  BY DEF Facing
<1>. QED BY <1>3, <1>4, <1>5, Zenon

\* What TestPosition tells of a cell of the field.
LEMMA Tested ==
  ASSUME NEW cell
  PROVE  /\ TestPosition(cell) = "free" => cell \in Inner /\ cell # OBJ
         /\ TestPosition(cell) = "object" => cell \in Inner /\ cell = OBJ
BY DEF TestPosition

\* The provers take arithmetic and strings apart: the score's arithmetic.
LEMMA Scores == 0 + 1 = 1 /\ 1 - 1 = 0 /\ 0 # 1
OBVIOUS

-----------------------------------------------------------------------------
\* Score, object and player agree after any keys: GameInv is inductive.
THEOREM GameInvariant == GameSpec => []GameInv
<1>. DEFINE Screens == [Cells -> {"#", " ", "&", "@"}]
<1>1. GameInit => GameInv
  <2>. SUFFICES ASSUME GameInit PROVE GameInv OBVIOUS
  <2>1. POS = StartPos /\ OBJ = StartObj /\ SCORE = 0 BY DEF GameInit
  <2>2. GameTypeOK
    <3>1. Field \in Screens BY DEF Field
    <3>2. screen \in Screens BY <3>1 DEF GameInit, Draw
    <3>. QED BY <3>2, StartAssumption DEF GameTypeOK, GameInit
  <2>3. OneObject
    <3>1. OBJ # Corner /\ OBJ # POS BY <2>1, Places, StartAssumption, Zenon
    <3>. QED BY <2>1, <3>1 DEF OneObject
  <2>. QED BY <2>1, <2>2, <2>3 DEF GameInv, CarriesAfterTurn
<1>2. GameInv /\ [GameNext]_gameVars => GameInv'
  <2>. SUFFICES ASSUME GameInv, [GameNext]_gameVars PROVE GameInv' OBVIOUS
  <2>. USE DEF GameInv, GameTypeOK, OneObject, CarriesAfterTurn
  <2>1. ASSUME NEW direction \in {"u", "d", "l", "r"}, Move(direction) PROVE GameInv'
    <3>1. CASE TestPosition(Facing(direction)) = "free"
      <4>1. Facing(direction) \in Inner /\ Facing(direction) # OBJ
        BY <3>1, Tested
      <4>2. screen' \in Screens BY <2>1, <3>1 DEF Move, Draw
      <4>. QED BY <2>1, <3>1, <4>1, <4>2 DEF Move
    <3>2. CASE TestPosition(Facing(direction)) # "free" BY <2>1, <3>2 DEF Move
    <3>. QED BY <3>1, <3>2
  <2>2. CASE PickUp
    <3>1. CASE TestPosition(Facing(DIRECTION)) = "object"
      <4>1. Facing(DIRECTION) \in Inner /\ Facing(DIRECTION) = OBJ BY <3>1, Tested
      <4>2. OBJ # Corner /\ POS # Corner BY <4>1, Places, Zenon
      <4>3. SCORE = 0 BY <4>2
      <4>0. DIRECTION # "" BY <4>1, FacingCells
      <4>4. /\ OBJ' = Corner /\ SCORE' = 1 /\ POS' = POS
            /\ DIRECTION' = DIRECTION /\ running' = running
        <5>1. SCORE' = SCORE + 1 BY <2>2, <3>1, Zenon DEF PickUp
        <5>2. SCORE' = 1 BY <4>3, <5>1, Scores, Zenon
        <5>. QED BY <2>2, <3>1, <5>2, Zenon DEF PickUp
      <4>5. screen' \in Screens BY <2>2, <3>1 DEF PickUp, Draw
      <4>6. GameTypeOK' BY <4>4, <4>5
      <4>7. OneObject' BY <4>2, <4>4, Zenon
      <4>. QED BY <4>0, <4>4, <4>6, <4>7, Zenon
    <3>2. CASE TestPosition(Facing(DIRECTION)) # "object" BY <2>2, <3>2 DEF PickUp
    <3>. QED BY <3>1, <3>2
  <2>3. CASE Drop
    <3>1. CASE SCORE # 0 /\ TestPosition(Facing(DIRECTION)) = "free"
      <4>1. Facing(DIRECTION) \in Inner BY <3>1, Tested
      <4>2. SCORE = 1 BY <3>1
      <4>0. DIRECTION # "" BY <3>1
      <4>3. Facing(DIRECTION) # POS /\ Facing(DIRECTION) # Corner BY <4>0, FacingCells
      <4>4. /\ OBJ' = Facing(DIRECTION) /\ SCORE' = 0 /\ POS' = POS
            /\ DIRECTION' = DIRECTION /\ running' = running
        <5>1. SCORE' = SCORE - 1 BY <2>3, <3>1, Zenon DEF Drop
        <5>2. SCORE' = 0 BY <4>2, <5>1, Scores, Zenon
        <5>. QED BY <2>3, <3>1, <5>2, Zenon DEF Drop
      <4>5. screen' \in Screens BY <2>3, <3>1 DEF Drop, Draw
      <4>6. GameTypeOK'
        <5>1. SCORE' \in {0, 1} BY <4>4, Zenon
        <5>2. OBJ' \in Inner \cup {Corner} BY <4>1, <4>4, Zenon
        <5>3. POS' \in Inner BY <4>4, Zenon
        <5>. QED BY <4>4, <4>5, <5>1, <5>2, <5>3, Zenon
      <4>7. OneObject' BY <4>3, <4>4, Scores, Zenon
      <4>. QED BY <4>0, <4>4, <4>6, <4>7, Zenon
    <3>2. CASE ~(SCORE # 0 /\ TestPosition(Facing(DIRECTION)) = "free")
      BY <2>3, <3>2 DEF Drop
    <3>. QED BY <3>1, <3>2
  <2>4. CASE Quit BY <2>4 DEF Quit
  <2>5. CASE UNCHANGED gameVars BY <2>5 DEF gameVars
  <2>. QED BY <2>1, <2>2, <2>3, <2>4, <2>5 DEF GameNext
<1>. QED BY <1>1, <1>2, PTL DEF GameSpec

-----------------------------------------------------------------------------
\* What ScreenTrue asks of one cell.
Shown(cell) == IF cell = POS THEN "&"
               ELSE IF cell = OBJ /\ SCORE = 0 THEN "@"
               ELSE IF cell \in Inner THEN " " ELSE "#"

\* ScreenTrue, cell by cell.
LEMMA CellByCell ==
  ASSUME screen \in [Cells -> {"#", " ", "&", "@"}]
  PROVE  ScreenTrue <=> \A cell \in Cells : screen[cell] = Shown(cell)
BY DEF ScreenTrue, Shown

\* The screen shows walls, player and object where the script believes them to
\* be, after any keys.
THEOREM ScreenIsTrue == GameSpec => []ScreenTrue
<1>1. GameInit => ScreenTrue
  <2>. SUFFICES ASSUME GameInit PROVE ScreenTrue OBVIOUS
  <2>1. /\ POS = StartPos /\ OBJ = StartObj /\ SCORE = 0
        /\ screen = [[Field EXCEPT ![StartPos] = "&"] EXCEPT ![StartObj] = "@"]
    BY DEF GameInit, Draw
  <2>2. Field = [cell \in Cells |-> IF cell \in Inner THEN " " ELSE "#"] BY DEF Field
  <2>3. StartPos \in Cells /\ StartObj \in Cells /\ StartPos # StartObj
    BY StartAssumption, Places
  <2>4. screen \in [Cells -> {"#", " ", "&", "@"}] BY <2>1, <2>2
  <2>5. \A cell \in Cells : screen[cell] = Shown(cell) BY <2>1, <2>2, <2>3 DEF Shown
  <2>. QED BY <2>4, <2>5, CellByCell
<1>2. GameInv /\ GameInv' /\ ScreenTrue /\ [GameNext]_gameVars => ScreenTrue'
  <2>. SUFFICES ASSUME GameInv, GameInv', ScreenTrue, [GameNext]_gameVars PROVE ScreenTrue' OBVIOUS
  <2>1. /\ screen \in [Cells -> {"#", " ", "&", "@"}]
        /\ \A cell \in Cells : screen[cell] = Shown(cell)
        /\ POS \in Inner /\ OBJ # POS /\ DIRECTION \in {"", "u", "d", "l", "r"}
        /\ SCORE \in {0, 1} /\ (SCORE = 1 <=> OBJ = Corner)
    BY CellByCell DEF GameInv, GameTypeOK, OneObject
  <2>2. SUFFICES \A cell \in Cells : screen'[cell] = Shown(cell)'
    <3>1. screen' \in [Cells -> {"#", " ", "&", "@"}] BY DEF GameInv, GameTypeOK
    <3>. QED BY <2>2, <3>1 DEF ScreenTrue, Shown
  <2>3. ASSUME NEW direction \in {"u", "d", "l", "r"}, Move(direction)
        PROVE  \A cell \in Cells : screen'[cell] = Shown(cell)'
    <3>1. CASE TestPosition(Facing(direction)) = "free"
      <4>1. Facing(direction) \in Inner /\ Facing(direction) # OBJ BY <3>1, Tested
      <4>2. POS \in Cells /\ Facing(direction) \in Cells BY <2>1, <4>1, Places
      <4>3. /\ POS' = Facing(direction) /\ OBJ' = OBJ /\ SCORE' = SCORE
            /\ screen' = [[screen EXCEPT ![POS] = " "] EXCEPT ![Facing(direction)] = "&"]
        BY <2>3, <3>1 DEF Move, Draw
      <4>. QED BY <2>1, <4>1, <4>2, <4>3 DEF Shown
    <3>2. CASE TestPosition(Facing(direction)) # "free"
      BY <2>1, <2>3, <3>2 DEF Move, Shown
    <3>. QED BY <3>1, <3>2
  <2>4. CASE PickUp
    <3>1. CASE TestPosition(Facing(DIRECTION)) = "object"
      <4>1. OBJ \in Inner BY <3>1, Tested
      <4>2. OBJ \in Cells /\ SCORE = 0 BY <2>1, <4>1, Places
      <4>3. /\ POS' = POS /\ SCORE' = 1 /\ screen' = [screen EXCEPT ![OBJ] = " "]
        <5>1. SCORE' = SCORE + 1 BY <2>4, <3>1, Zenon DEF PickUp
        <5>2. SCORE' = 1 BY <4>2, <5>1, Scores, Zenon
        <5>. QED BY <2>4, <3>1, <5>2, Zenon DEF PickUp, Draw
      <4>4. TAKE cell \in Cells
      <4>5. CASE cell = OBJ
        <5>1. screen'[cell] = " " BY <2>1, <4>2, <4>3, <4>5
        <5>2. Shown(cell)' = " " BY <2>1, <4>1, <4>3, <4>5, Scores, Zenon DEF Shown
        <5>. QED BY <5>1, <5>2
      <4>6. CASE cell # OBJ
        <5>1. screen'[cell] = Shown(cell) BY <2>1, <4>3, <4>6
        <5>2. Shown(cell)' = Shown(cell) BY <4>2, <4>3, <4>6, Scores, Zenon DEF Shown
        <5>. QED BY <5>1, <5>2
      <4>. QED BY <4>5, <4>6
    <3>2. CASE TestPosition(Facing(DIRECTION)) # "object"
      BY <2>1, <2>4, <3>2 DEF PickUp, Shown
    <3>. QED BY <3>1, <3>2
  <2>5. CASE Drop
    <3>1. CASE SCORE # 0 /\ TestPosition(Facing(DIRECTION)) = "free"
      <4>1. Facing(DIRECTION) \in Cells BY <2>1, FacingCells
      <4>2. SCORE = 1 BY <2>1, <3>1
      <4>3. /\ POS' = POS /\ OBJ' = Facing(DIRECTION) /\ SCORE' = 0
            /\ screen' = [screen EXCEPT ![Facing(DIRECTION)] = "@"]
        <5>1. SCORE' = SCORE - 1 BY <2>5, <3>1, Zenon DEF Drop
        <5>2. SCORE' = 0 BY <4>2, <5>1, Scores, Zenon
        <5>. QED BY <2>5, <3>1, <5>2, Zenon DEF Drop, Draw
      <4>4. Facing(DIRECTION) # POS
        <5>1. OBJ' # POS' BY DEF GameInv, OneObject
        <5>. QED BY <4>3, <5>1, Zenon
      <4>5. TAKE cell \in Cells
      <4>6. CASE cell = Facing(DIRECTION)
        <5>1. screen'[cell] = "@" BY <2>1, <4>1, <4>3, <4>6
        <5>2. Shown(cell)' = "@" BY <4>3, <4>4, <4>6 DEF Shown
        <5>. QED BY <5>1, <5>2
      <4>7. CASE cell # Facing(DIRECTION)
        <5>1. screen'[cell] = Shown(cell) BY <2>1, <4>3, <4>7
        <5>2. Shown(cell)' = Shown(cell) BY <4>2, <4>3, <4>7 DEF Shown
        <5>. QED BY <5>1, <5>2
      <4>. QED BY <4>6, <4>7
    <3>2. CASE ~(SCORE # 0 /\ TestPosition(Facing(DIRECTION)) = "free")
      BY <2>1, <2>5, <3>2 DEF Drop, Shown
    <3>. QED BY <3>1, <3>2
  <2>6. CASE Quit BY <2>1, <2>6 DEF Quit, Shown
  <2>7. CASE UNCHANGED gameVars BY <2>1, <2>7 DEF gameVars, Shown
  <2>. QED BY <2>3, <2>4, <2>5, <2>6, <2>7 DEF GameNext
<1>. QED BY <1>1, <1>2, GameInvariant, PTL DEF GameSpec
=============================================================================
