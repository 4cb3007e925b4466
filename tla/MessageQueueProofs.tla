------------------------- MODULE MessageQueueProofs -------------------------
(***************************************************************************)
(* The message queue program, for any number of runs at once, any number   *)
(* of children, any queue length and any limit on descriptors.             *)
(***************************************************************************)
EXTENDS MessageQueue, FiniteSetTheorems, SequenceTheorems, TLAPS

-----------------------------------------------------------------------------
\* Types

ParentPlaces == {"not run", "unlink", "fork", "open", "poll", "receive", "done", "exited"}
ChildPlaces == {"none", "failed", "open", "send", "sent", "exited"}

LEMMA Numbers ==
  ASSUME TypeOK
  PROVE  /\ Procs \in Nat \ {0} /\ MaxMsg \in Nat \ {0} /\ Len(queue) \in Nat
         /\ \A r \in Runs : i[r] \in 1..Procs /\ Len(got[r]) \in Nat
         /\ \A q \in 1..Len(queue) : /\ queue[q] \in Seq(Results)
                                     /\ Len(queue[q]) \in Nat /\ Len(queue[q]) <= MaxMsg
<1>1. queue \in Seq(Seq(Results)) /\ \A q \in 1..Len(queue) : Len(queue[q]) <= MaxMsg
  BY DEF TypeOK
<1>2. Len(queue) \in Nat /\ \A q \in 1..Len(queue) : queue[q] \in Seq(Results)
  BY <1>1, LenProperties, ElementOfSeq
<1>3. \A q \in 1..Len(queue) : Len(queue[q]) \in Nat BY <1>2, LenProperties
<1>4. got \in [Runs -> Seq(Results)] /\ i \in [Runs -> 1..Procs] BY DEF TypeOK, Children
<1>5. \A r \in Runs : got[r] \in Seq(Results) BY <1>4
<1>6. \A r \in Runs : Len(got[r]) \in Nat BY <1>5, LenProperties
<1>. QED BY <1>1, <1>2, <1>3, <1>4, <1>6, ProcsAssumption, MaxMsgAssumption

\* What a parent's step does to its place and what a child's does to its own.
LEMMA Went ==
  ASSUME TypeOK, NEW r \in Runs, NEW from, NEW to \in ParentPlaces, Goto(r, from, to)
  PROVE  /\ pc[r] = from /\ pc' \in [Runs -> ParentPlaces] /\ pc'[r] = to
         /\ \A s \in Runs : s # r => pc'[s] = pc[s]
BY DEF TypeOK, Goto, ParentPlaces

Round(r, from, again, after) ==
  /\ pc[r] = from /\ pc' \in [Runs -> ParentPlaces] /\ i' \in [Runs -> Children]
  /\ \/ i[r] < Procs /\ i'[r] = i[r] + 1 /\ pc'[r] = again
     \/ i[r] = Procs /\ i'[r] = 1 /\ pc'[r] = after
  /\ \A s \in Runs : s # r => pc'[s] = pc[s] /\ i'[s] = i[s]

LEMMA WentRound ==
  ASSUME TypeOK, NEW r \in Runs, NEW from, NEW again \in ParentPlaces,
         NEW after \in ParentPlaces, Loop(r, from, again, after)
  PROVE  Round(r, from, again, after)
<1>1. Procs \in Nat \ {0} /\ i[r] \in 1..Procs BY Numbers
<1>2. i \in [Runs -> Children] BY DEF TypeOK
<1>3. CASE i[r] < Procs
  <2>1. Goto(r, from, again) /\ i' = [i EXCEPT ![r] = @ + 1] BY <1>3 DEF Loop
  <2>2. i[r] + 1 \in Children BY <1>1, <1>3 DEF Children
  <2>3. /\ i' \in [Runs -> Children] /\ i'[r] = i[r] + 1
        /\ \A s \in Runs : s # r => i'[s] = i[s]
    BY <1>2, <2>1, <2>2
  <2>. QED BY <1>3, <2>1, <2>3, Went DEF Round
<1>4. CASE ~ (i[r] < Procs)
  <2>1. Goto(r, from, after) /\ i' = [i EXCEPT ![r] = 1] BY <1>4 DEF Loop
  <2>2. 1 \in Children /\ i[r] = Procs BY <1>1, <1>4 DEF Children
  <2>3. /\ i' \in [Runs -> Children] /\ i'[r] = 1
        /\ \A s \in Runs : s # r => i'[s] = i[s]
    BY <1>2, <2>1, <2>2
  <2>. QED BY <2>1, <2>2, <2>3, Went DEF Round
<1>. QED BY <1>3, <1>4

ChildGoes(r, c, to) ==
  /\ cpc' \in [Runs -> [Children -> ChildPlaces]] /\ cpc'[r][c] = to
  /\ \A s \in Runs : \A d \in Children : s # r \/ d # c => cpc'[s][d] = cpc[s][d]

LEMMA ChildWent ==
  ASSUME TypeOK, NEW r \in Runs, NEW c \in Children, NEW to \in ChildPlaces,
         cpc' = [cpc EXCEPT ![r][c] = to]
  PROVE  ChildGoes(r, c, to)
<1>1. cpc \in [Runs -> [Children -> ChildPlaces]] BY DEF TypeOK, ChildPlaces
<1>. QED BY <1>1 DEF ChildGoes

LEMMA Rounds ==
  ASSUME TypeOK, NEW r \in Runs
  PROVE  /\ Open(r) => Round(r, "open", "fork", "poll")
         /\ Receive(r) => Round(r, "receive", "poll", "done")
<1>1. "fork" \in ParentPlaces /\ "poll" \in ParentPlaces /\ "done" \in ParentPlaces
  BY DEF ParentPlaces
<1>2. /\ Open(r) => Loop(r, "open", "fork", "poll")
      /\ Receive(r) => Loop(r, "receive", "poll", "done")
  BY DEF Open, Receive
<1>. QED BY <1>1, <1>2, WentRound

\* The queue after mq_open with O_CREAT.
LEMMA Created ==
  ASSUME TypeOK, NEW r \in Runs, Open(r)
  PROVE  /\ queue' \in Seq(Seq(Results)) /\ Len(queue') \in Nat
         /\ Len(queue) <= Len(queue')
         /\ name' \in 1..Len(queue') /\ (name' = name \/ name' = Len(queue) + 1)
         /\ (name # NoQueue => name' = name)
         /\ \A q \in 1..Len(queue) : queue'[q] = queue[q]
         /\ \A q \in 1..Len(queue') : q \in 1..Len(queue) \/ queue'[q] = <<>>
<1>1. queue \in Seq(Seq(Results)) /\ Len(queue) \in Nat /\ name \in 0..Len(queue)
  BY Numbers DEF TypeOK
<1>2. CASE name = NoQueue
  <2>1. queue' = Append(queue, <<>>) /\ name' = Len(queue') BY <1>2 DEF Open
  <2>2. <<>> \in Seq(Results) OBVIOUS
  <2>3. /\ queue' \in Seq(Seq(Results)) /\ Len(queue') = Len(queue) + 1
        /\ \A q \in 1..Len(queue) : queue'[q] = queue[q]
        /\ queue'[Len(queue) + 1] = <<>>
    BY <1>1, <2>1, <2>2
  <2>4. \A q \in 1..(Len(queue) + 1) : q \in 1..Len(queue) \/ q = Len(queue) + 1 BY <1>1
  <2>5. Len(queue) <= Len(queue) + 1 /\ Len(queue) + 1 \in 1..(Len(queue) + 1)
        /\ Len(queue) + 1 \in Nat
    BY <1>1
  <2>. QED BY <1>2, <2>1, <2>3, <2>4, <2>5
<1>3. CASE name # NoQueue
  <2>1. queue' = queue /\ name' = name BY <1>3 DEF Open
  <2>. QED BY <1>1, <1>3, <2>1 DEF NoQueue
<1>. QED BY <1>2, <1>3

\* A step of a parent: where it may be, and what it may do to the name.
LEMMA ParentMoves ==
  ASSUME TypeOK, NEW r \in Runs, Parent(r)
  PROVE  /\ pc[r] \notin {"not run", "done", "exited"} /\ pc'[r] \notin {"not run", "unlink"}
         /\ \A s \in Runs : s # r => pc'[s] = pc[s] /\ qd'[s] = qd[s]
         /\ cqd' = cqd
         /\ pc[r] = "unlink" => name' = NoQueue /\ qd' = qd
         /\ pc[r] # "unlink" => \/ name' = name /\ qd' = qd
                                \/ Open(r) /\ qd'[r] = name'
<1>1. /\ "fork" \in ParentPlaces /\ "open" \in ParentPlaces /\ "exited" \in ParentPlaces
      /\ "poll" \in ParentPlaces /\ "receive" \in ParentPlaces /\ "done" \in ParentPlaces
  BY DEF ParentPlaces
<1>2. qd \in [Runs -> 0..Len(queue)] BY DEF TypeOK
<1>3. CASE Unlink(r)
  <2>1. pc[r] = "unlink" /\ pc'[r] = "fork" /\ \A s \in Runs : s # r => pc'[s] = pc[s]
    BY <1>1, <1>3, Went DEF Unlink
  <2>2. name' = NoQueue /\ qd' = qd /\ cqd' = cqd BY <1>3 DEF Unlink, childVars
  <2>. QED BY <2>1, <2>2
<1>4. CASE Fork(r)
  <2>1. pc[r] = "fork" /\ pc'[r] = "open" /\ \A s \in Runs : s # r => pc'[s] = pc[s]
    BY <1>1, <1>4, Went DEF Fork
  <2>2. name' = name /\ qd' = qd /\ cqd' = cqd BY <1>4 DEF Fork, childVars
  <2>. QED BY <2>1, <2>2
<1>5. CASE Open(r)
  <2>1. Loop(r, "open", "fork", "poll") BY <1>5 DEF Open
  <2>2. /\ pc[r] = "open" /\ (pc'[r] = "fork" \/ pc'[r] = "poll")
        /\ \A s \in Runs : s # r => pc'[s] = pc[s]
    <3>1. \/ i[r] < Procs /\ i'[r] = i[r] + 1 /\ pc'[r] = "fork"
          \/ i[r] = Procs /\ i'[r] = 1 /\ pc'[r] = "poll"
      BY <1>5, Rounds DEF Round
    <3>2. pc[r] = "open" /\ \A s \in Runs : s # r => pc'[s] = pc[s]
      BY <1>5, Rounds DEF Round
    <3>. QED BY <3>1, <3>2
  <2>3. qd' = [qd EXCEPT ![r] = name'] /\ cqd' = cqd BY <1>5 DEF Open, childVars
  <2>4. qd'[r] = name' /\ \A s \in Runs : s # r => qd'[s] = qd[s] BY <1>2, <2>3
  <2>. QED BY <1>5, <2>2, <2>3, <2>4
<1>6. CASE OpenFails(r)
  <2>1. pc[r] = "open" /\ pc'[r] = "exited" /\ \A s \in Runs : s # r => pc'[s] = pc[s]
    BY <1>1, <1>6, Went DEF OpenFails
  <2>2. name' = name /\ qd' = qd /\ cqd' = cqd BY <1>6 DEF OpenFails, childVars
  <2>. QED BY <2>1, <2>2
<1>7. CASE Poll(r)
  <2>1. pc[r] = "poll" /\ pc'[r] = "receive" /\ \A s \in Runs : s # r => pc'[s] = pc[s]
    BY <1>1, <1>7, Went DEF Poll
  <2>2. name' = name /\ qd' = qd /\ cqd' = cqd BY <1>7 DEF Poll, childVars
  <2>. QED BY <2>1, <2>2
<1>8. CASE Receive(r)
  <2>1. Loop(r, "receive", "poll", "done") BY <1>8 DEF Receive
  <2>2. /\ pc[r] = "receive" /\ pc'[r] \in {"poll", "done"}
        /\ \A s \in Runs : s # r => pc'[s] = pc[s]
    BY <1>8, Rounds DEF Round
  <2>3. name' = name /\ qd' = qd /\ cqd' = cqd BY <1>8 DEF Receive, childVars
  <2>. QED BY <2>2, <2>3
<1>. QED BY <1>3, <1>4, <1>5, <1>6, <1>7, <1>8 DEF Parent

\* A queue list with one queue changed is still a list of lists of results.
LEMMA Changed ==
  ASSUME TypeOK, NEW q \in 1..Len(queue), NEW s \in Seq(Results)
  PROVE  /\ [queue EXCEPT ![q] = s] \in Seq(Seq(Results))
         /\ Len([queue EXCEPT ![q] = s]) = Len(queue)
         /\ [queue EXCEPT ![q] = s][q] = s
         /\ \A p \in 1..Len(queue) : p # q => [queue EXCEPT ![q] = s][p] = queue[p]
<1>1. queue \in Seq(Seq(Results)) BY DEF TypeOK
<1>2. /\ [queue EXCEPT ![q] = s] \in Seq(Seq(Results))
      /\ Len([queue EXCEPT ![q] = s]) = Len(queue)
      /\ \A j \in 1..Len(queue) : [queue EXCEPT ![q] = s][j] = IF j = q THEN s ELSE queue[j]
  BY <1>1, ExceptSeq
<1>. QED BY <1>2

\* What is left of the queues when those that nobody uses are destroyed.
LEMMA Swept ==
  ASSUME NEW s \in Seq(Seq(Results)), queue' = Left(s)
  PROVE  /\ queue' \in Seq(Seq(Results)) /\ Len(queue') = Len(s)
         /\ \A q \in 1..Len(s) : InUse(q)' => queue'[q] = s[q]
         /\ \A q \in 1..Len(s) : ~InUse(q)' => queue'[q] = <<>>
<1>1. s \in [1..Len(s) -> Seq(Results)] /\ Len(s) \in Nat /\ DOMAIN s = 1..Len(s)
  BY LenProperties
<1>2. <<>> \in Seq(Results) OBVIOUS
<1>3. queue' = [q \in 1..Len(s) |-> IF InUse(q)' THEN s[q] ELSE <<>>] BY <1>1, Zenon DEF Left
<1>4. queue' \in [1..Len(s) -> Seq(Results)] /\ DOMAIN queue' = 1..Len(s)
  <2>1. \A q \in 1..Len(s) : (IF InUse(q)' THEN s[q] ELSE <<>>) \in Seq(Results) BY <1>1, <1>2
  <2>. QED BY <1>3, <2>1, Zenon
<1>5. queue' \in Seq(Seq(Results))
  <2>1. [1..Len(s) -> Seq(Results)] \in {[1..n -> Seq(Results)] : n \in Nat} BY <1>1, Zenon
  <2>2. queue' \in UNION {[1..n -> Seq(Results)] : n \in Nat} BY <1>4, <2>1, Zenon
  <2>. QED BY <2>2, SeqDef, Zenon
<1>6. Len(queue') = Len(s)
  <2>1. 1..Len(queue') = 1..Len(s) /\ Len(queue') \in Nat BY <1>4, <1>5, LenProperties
  <2>2. \A a, b \in Nat : 1..a = 1..b => a = b
    <3>. SUFFICES ASSUME NEW a \in Nat, NEW b \in Nat, 1..a = 1..b PROVE a = b OBVIOUS
    <3>1. (a > 0 => a \in 1..b) /\ (b > 0 => b \in 1..a) OBVIOUS
    <3>. QED BY <3>1
  <2>. QED BY <1>1, <2>1, <2>2
<1>7. \A q \in 1..Len(s) : queue'[q] = IF InUse(q)' THEN s[q] ELSE <<>> BY <1>3, Zenon
<1>. QED BY <1>5, <1>6, <1>7

\* The queues after a parent has taken a result, and after a child has sent one.
Taken(r) == [queue EXCEPT ![qd[r]] = Tail(@)]
Added(r, c) == [queue EXCEPT ![cqd[r][c]] = Append(@, Result(r, c))]

LEMMA Received ==
  ASSUME TypeOK, NEW r \in Runs, Receive(r)
  PROVE  /\ qd[r] \in 1..Len(queue) /\ Len(queue[qd[r]]) \in Nat \ {0}
         /\ Taken(r) \in Seq(Seq(Results)) /\ Len(Taken(r)) = Len(queue)
         /\ \A p \in 1..Len(queue) : p # qd[r] => Taken(r)[p] = queue[p]
         /\ Len(Taken(r)[qd[r]]) = Len(queue[qd[r]]) - 1
         /\ \A k \in 1..Len(Taken(r)[qd[r]]) : Taken(r)[qd[r]][k] = queue[qd[r]][k + 1]
         /\ queue' = Left(Taken(r))
         /\ queue[qd[r]][1] \in Results
         /\ got' \in [Runs -> Seq(Results)]
         /\ \A s \in Runs : s # r => got'[s] = got[s]
         /\ Len(got'[r]) = Len(got[r]) + 1
         /\ \A k \in 1..Len(got[r]) : got'[r][k] = got[r][k]
         /\ got'[r][Len(got[r]) + 1] = queue[qd[r]][1]
<1>. DEFINE q == qd[r]
<1>1. q \in 1..Len(queue)
  <2>1. pc[r] = "receive" BY DEF Receive, Loop, Goto
  <2>2. q \in 0..Len(queue) /\ q # NoQueue BY <2>1 DEF TypeOK
  <2>. QED BY <2>2 DEF NoQueue
<1>2. queue[q] # <<>> /\ got' = [got EXCEPT ![r] = Append(@, Head(queue[q]))]
      /\ queue' = Left(Taken(r))
  BY DEF Receive, Taken
<1>3. queue[q] \in Seq(Results) BY <1>1, Numbers
<1>4. queue \in [1..Len(queue) -> Seq(Results)]
  <2>1. queue \in Seq(Seq(Results)) BY DEF TypeOK
  <2>. QED BY <2>1, LenProperties
<1>5. /\ Tail(queue[q]) \in Seq(Results) /\ Len(Tail(queue[q])) = Len(queue[q]) - 1
      /\ \A k \in 1..Len(Tail(queue[q])) : Tail(queue[q])[k] = queue[q][k + 1]
  BY <1>2, <1>3, HeadTailProperties
<1>6. Head(queue[q]) = queue[q][1] /\ queue[q][1] \in Results /\ Len(queue[q]) \in Nat \ {0}
  BY <1>2, <1>3
<1>7. Taken(r) = [queue EXCEPT ![q] = Tail(queue[q])] BY <1>1, <1>4 DEF Taken
<1>8. /\ Taken(r) \in Seq(Seq(Results)) /\ Len(Taken(r)) = Len(queue)
      /\ Taken(r)[q] = Tail(queue[q])
      /\ \A p \in 1..Len(queue) : p # q => Taken(r)[p] = queue[p]
  BY <1>1, <1>5, <1>7, Changed
<1>9. got[r] \in Seq(Results) /\ got \in [Runs -> Seq(Results)] BY DEF TypeOK
<1>10. got'[r] = Append(got[r], queue[q][1]) /\ \A s \in Runs : s # r => got'[s] = got[s]
  BY <1>2, <1>6, <1>9
<1>11. got' \in [Runs -> Seq(Results)] BY <1>2, <1>6, <1>9
<1>12. /\ Len(Append(got[r], queue[q][1])) = Len(got[r]) + 1
       /\ \A k \in 1..Len(got[r]) : Append(got[r], queue[q][1])[k] = got[r][k]
       /\ Append(got[r], queue[q][1])[Len(got[r]) + 1] = queue[q][1]
  BY <1>6, <1>9
<1>. QED BY <1>1, <1>2, <1>5, <1>6, <1>8, <1>10, <1>11, <1>12

LEMMA Sent ==
  ASSUME TypeOK, NEW r \in Runs, NEW c \in Children, Send(r, c)
  PROVE  /\ cqd[r][c] \in 1..Len(queue)
         /\ Len(queue[cqd[r][c]]) \in Nat /\ Len(queue[cqd[r][c]]) < MaxMsg
         /\ queue' = Left(Added(r, c))
         /\ Added(r, c) \in Seq(Seq(Results)) /\ Len(Added(r, c)) = Len(queue)
         /\ \A p \in 1..Len(queue) : p # cqd[r][c] => Added(r, c)[p] = queue[p]
         /\ Len(Added(r, c)[cqd[r][c]]) = Len(queue[cqd[r][c]]) + 1
         /\ \A k \in 1..Len(queue[cqd[r][c]]) :
              Added(r, c)[cqd[r][c]][k] = queue[cqd[r][c]][k]
         /\ Added(r, c)[cqd[r][c]][Len(queue[cqd[r][c]]) + 1] = Result(r, c)
<1>. DEFINE q == cqd[r][c]
<1>1. q \in 1..Len(queue)
  <2>1. cpc[r][c] = "send" BY DEF Send, ChildGoto
  <2>2. q \in 0..Len(queue) /\ q # NoQueue BY <2>1 DEF TypeOK
  <2>. QED BY <2>2 DEF NoQueue
<1>2. Len(queue[q]) < MaxMsg /\ queue' = Left(Added(r, c)) BY DEF Send, Added
<1>3. queue[q] \in Seq(Results) BY <1>1, Numbers
<1>4. queue \in [1..Len(queue) -> Seq(Results)]
  <2>1. queue \in Seq(Seq(Results)) BY DEF TypeOK
  <2>. QED BY <2>1, LenProperties
<1>5. Result(r, c) \in Results BY DEF Result, Results
<1>6. /\ Append(queue[q], Result(r, c)) \in Seq(Results)
      /\ Len(Append(queue[q], Result(r, c))) = Len(queue[q]) + 1
      /\ \A k \in 1..Len(queue[q]) : Append(queue[q], Result(r, c))[k] = queue[q][k]
      /\ Append(queue[q], Result(r, c))[Len(queue[q]) + 1] = Result(r, c)
      /\ Len(queue[q]) \in Nat
  BY <1>3, <1>5
<1>7. Added(r, c) = [queue EXCEPT ![q] = Append(queue[q], Result(r, c))] BY <1>1, <1>4 DEF Added
<1>8. /\ Added(r, c) \in Seq(Seq(Results)) /\ Len(Added(r, c)) = Len(queue)
      /\ Added(r, c)[q] = Append(queue[q], Result(r, c))
      /\ \A p \in 1..Len(queue) : p # q => Added(r, c)[p] = queue[p]
  BY <1>1, <1>6, <1>7, Changed
<1>. QED BY <1>1, <1>2, <1>6, <1>8

\* Descriptors stay valid: a queue that is open never goes away.
LEMMA Wider ==
  ASSUME NEW l \in Nat, NEW m \in Nat, l <= m
  PROVE  0..l \subseteq 0..m
OBVIOUS

\* Process p of run r has the queues F open after the step; the others keep theirs.
FdsGo(r, p, F) ==
  /\ fds' = [fds EXCEPT ![r][p] = F] /\ fds'[r][p] = F
  /\ \A s \in Runs : \A o \in 0..Procs : s # r \/ o # p => fds'[s][o] = fds[s][o]

LEMMA FdsWent ==
  ASSUME TypeOK, NEW r \in Runs, NEW p \in 0..Procs, NEW F, fds' = [fds EXCEPT ![r][p] = F]
  PROVE  FdsGo(r, p, F)
<1>1. fds \in [Runs -> [0..Procs -> SUBSET (1..Len(queue))]] BY DEF TypeOK
<1>. QED BY <1>1 DEF FdsGo

LEMMA Processes ==
  ASSUME TypeOK
  PROVE  /\ 0 \in 0..Procs /\ 0 \notin Children
         /\ \A c \in Children : c \in 0..Procs
         /\ \A r \in Runs : i[r] \in Children
<1>1. Procs \in Nat \ {0} /\ \A r \in Runs : i[r] \in 1..Procs BY Numbers
<1>. QED BY <1>1 DEF Children

\* The descriptors after a parent's step and after a child's.
LEMMA FdsParent ==
  ASSUME TypeOK, NEW r \in Runs, Parent(r)
  PROVE  \/ fds' = fds /\ (Unlink(r) \/ Fork(r) \/ Poll(r) \/ (Receive(r) /\ i[r] < Procs))
         \/ Fork(r) /\ FdsGo(r, i[r], fds[r][0])
         \/ Open(r) /\ FdsGo(r, 0, fds[r][0] \cup {name'})
         \/ (OpenFails(r) \/ (Receive(r) /\ ~(i[r] < Procs))) /\ FdsGo(r, 0, {})
<1>1. 0 \in 0..Procs /\ i[r] \in 0..Procs BY Processes
<1>2. fds \in [Runs -> [0..Procs -> SUBSET (1..Len(queue))]] BY DEF TypeOK
<1>3. CASE Unlink(r) \/ Poll(r)
  <2>1. fds' = fds BY <1>3 DEF Unlink, Poll
  <2>. QED BY <1>3, <2>1
<1>4. CASE Fork(r)
  <2>1. fds' = fds \/ fds' = [fds EXCEPT ![r][i[r]] = fds[r][0]] BY <1>4 DEF Fork
  <2>. QED BY <1>1, <1>4, <2>1, FdsWent
<1>5. CASE Open(r)
  <2>1. fds' = [fds EXCEPT ![r][0] = fds[r][0] \cup {name'}] BY <1>1, <1>2, <1>5 DEF Open
  <2>. QED BY <1>1, <1>5, <2>1, FdsWent
<1>6. CASE OpenFails(r)
  <2>1. fds' = [fds EXCEPT ![r][0] = {}] BY <1>6 DEF OpenFails, Exits
  <2>. QED BY <1>1, <1>6, <2>1, FdsWent
<1>7. CASE Receive(r)
  <2>1. IF i[r] < Procs THEN UNCHANGED fds ELSE Exits(r, 0) BY <1>7 DEF Receive
  <2>2. CASE i[r] < Procs BY <1>7, <2>1, <2>2
  <2>3. CASE ~(i[r] < Procs)
    <3>1. fds' = [fds EXCEPT ![r][0] = {}] BY <2>1, <2>3 DEF Exits
    <3>. QED BY <1>1, <1>7, <2>3, <3>1, FdsWent
  <2>. QED BY <2>2, <2>3
<1>. QED BY <1>3, <1>4, <1>5, <1>6, <1>7 DEF Parent

LEMMA FdsChild ==
  ASSUME TypeOK, NEW r \in Runs, NEW c \in Children, Child(r, c)
  PROVE  \/ ChildOpen(r, c) /\ FdsGo(r, c, fds[r][c] \cup {name})
         \/ (ChildOpenFails(r, c) \/ Send(r, c)) /\ FdsGo(r, c, {})
<1>1. c \in 0..Procs BY Processes
<1>2. fds \in [Runs -> [0..Procs -> SUBSET (1..Len(queue))]] BY DEF TypeOK
<1>3. CASE ChildOpen(r, c)
  <2>1. fds' = [fds EXCEPT ![r][c] = fds[r][c] \cup {name}] BY <1>1, <1>2, <1>3 DEF ChildOpen
  <2>. QED BY <1>1, <1>3, <2>1, FdsWent
<1>4. CASE ChildOpenFails(r, c) \/ Send(r, c)
  <2>1. fds' = [fds EXCEPT ![r][c] = {}] BY <1>4 DEF ChildOpenFails, Send, Exits
  <2>. QED BY <1>1, <1>4, <2>1, FdsWent
<1>. QED BY <1>3, <1>4 DEF Child

LEMMA FdsTyped ==
  ASSUME TypeOK, NEW r \in Runs, NEW p \in 0..Procs, NEW F, FdsGo(r, p, F) \/ fds' = fds,
         NEW l \in Nat, Len(queue) <= l, F \subseteq 1..l
  PROVE  fds' \in [Runs -> [0..Procs -> SUBSET (1..l)]]
<1>1. fds \in [Runs -> [0..Procs -> SUBSET (1..Len(queue))]] BY DEF TypeOK
<1>2. 1..Len(queue) \subseteq 1..l BY Numbers
<1>3. fds \in [Runs -> [0..Procs -> SUBSET (1..l)]] BY <1>1, <1>2
<1>4. CASE FdsGo(r, p, F)
  <2>1. fds' = [fds EXCEPT ![r][p] = F] BY <1>4 DEF FdsGo
  <2>. QED BY <1>3, <2>1
<1>. QED BY <1>3, <1>4

\* The queues stay lists of results, and no list becomes too long.
QueuesFit(l) == /\ queue' \in Seq(Seq(Results)) /\ Len(queue') \in Nat
                /\ Len(queue) <= Len(queue')
                /\ l => Len(queue') = Len(queue)
                /\ \A q \in 1..Len(queue') : Len(queue'[q]) <= MaxMsg

LEMMA SweptFit ==
  ASSUME TypeOK, NEW s \in Seq(Seq(Results)), Len(s) = Len(queue), queue' = Left(s),
         \A q \in 1..Len(queue) : Len(s[q]) <= MaxMsg
  PROVE  QueuesFit(TRUE)
<1>1. /\ queue' \in Seq(Seq(Results)) /\ Len(queue') = Len(s)
      /\ \A q \in 1..Len(s) : queue'[q] = s[q] \/ queue'[q] = <<>>
  BY Swept
<1>2. Len(queue) \in Nat /\ Len(<<>>) <= MaxMsg BY Numbers
<1>. QED BY <1>1, <1>2 DEF QueuesFit

LEMMA QueueParent ==
  ASSUME TypeOK, NEW r \in Runs, Parent(r)
  PROVE  QueuesFit(~Open(r))
<1>1. /\ queue \in Seq(Seq(Results)) /\ Len(queue) \in Nat
      /\ \A q \in 1..Len(queue) : Len(queue[q]) <= MaxMsg
  BY Numbers DEF TypeOK
<1>2. CASE Unlink(r) \/ OpenFails(r)
  <2>1. queue' = Left(queue) BY <1>2 DEF Unlink, OpenFails
  <2>2. QueuesFit(TRUE) BY <1>1, <2>1, SweptFit
  <2>. QED BY <2>2 DEF QueuesFit
<1>3. CASE Fork(r) \/ Poll(r)
  <2>1. queue' = queue BY <1>3 DEF Fork, Poll
  <2>. QED BY <1>1, <2>1 DEF QueuesFit
<1>4. CASE Open(r)
  <2>1. /\ queue' \in Seq(Seq(Results)) /\ Len(queue') \in Nat /\ Len(queue) <= Len(queue')
        /\ \A q \in 1..Len(queue) : queue'[q] = queue[q]
        /\ \A q \in 1..Len(queue') : q \in 1..Len(queue) \/ queue'[q] = <<>>
    BY <1>4, Created
  <2>2. Len(<<>>) <= MaxMsg BY Numbers
  <2>. QED BY <1>1, <1>4, <2>1, <2>2 DEF QueuesFit
<1>5. CASE Receive(r)
  <2>1. /\ Taken(r) \in Seq(Seq(Results)) /\ Len(Taken(r)) = Len(queue)
        /\ queue' = Left(Taken(r)) /\ qd[r] \in 1..Len(queue)
        /\ \A p \in 1..Len(queue) : p # qd[r] => Taken(r)[p] = queue[p]
        /\ Len(Taken(r)[qd[r]]) = Len(queue[qd[r]]) - 1
    BY <1>5, Received
  <2>2. \A q \in 1..Len(queue) : Len(Taken(r)[q]) <= MaxMsg
    <3>. SUFFICES ASSUME NEW q \in 1..Len(queue) PROVE Len(Taken(r)[q]) <= MaxMsg OBVIOUS
    <3>1. Len(queue[q]) \in Nat /\ Len(queue[q]) <= MaxMsg /\ MaxMsg \in Nat BY Numbers
    <3>2. CASE q = qd[r]
      <4>1. Len(Taken(r)[q]) = Len(queue[q]) - 1 BY <2>1, <3>2
      <4>. QED BY <3>1, <4>1
    <3>3. CASE q # qd[r] BY <2>1, <3>1, <3>3
    <3>. QED BY <3>2, <3>3
  <2>3. QueuesFit(TRUE) BY <2>1, <2>2, SweptFit
  <2>. QED BY <2>3 DEF QueuesFit
<1>. QED BY <1>2, <1>3, <1>4, <1>5 DEF Parent

LEMMA QueueChild ==
  ASSUME TypeOK, NEW r \in Runs, NEW c \in Children, Child(r, c)
  PROVE  QueuesFit(TRUE)
<1>1. /\ queue \in Seq(Seq(Results)) /\ Len(queue) \in Nat
      /\ \A q \in 1..Len(queue) : Len(queue[q]) <= MaxMsg
  BY Numbers DEF TypeOK
<1>2. CASE ChildOpen(r, c)
  <2>1. queue' = queue BY <1>2 DEF ChildOpen
  <2>. QED BY <1>1, <2>1 DEF QueuesFit
<1>3. CASE ChildOpenFails(r, c)
  <2>1. queue' = Left(queue) BY <1>3 DEF ChildOpenFails
  <2>. QED BY <1>1, <2>1, SweptFit
<1>4. CASE Send(r, c)
  <2>1. /\ Added(r, c) \in Seq(Seq(Results)) /\ Len(Added(r, c)) = Len(queue)
        /\ queue' = Left(Added(r, c)) /\ cqd[r][c] \in 1..Len(queue)
        /\ Len(queue[cqd[r][c]]) \in Nat /\ Len(queue[cqd[r][c]]) < MaxMsg
        /\ \A p \in 1..Len(queue) : p # cqd[r][c] => Added(r, c)[p] = queue[p]
        /\ Len(Added(r, c)[cqd[r][c]]) = Len(queue[cqd[r][c]]) + 1
    BY <1>4, Sent
  <2>2. Len(Added(r, c)[cqd[r][c]]) <= MaxMsg BY <2>1, Numbers
  <2>3. \A q \in 1..Len(queue) : Len(Added(r, c)[q]) <= MaxMsg BY <1>1, <2>1, <2>2
  <2>. QED BY <2>1, <2>3, SweptFit
<1>. QED BY <1>2, <1>3, <1>4 DEF Child

LEMMA Forked ==
  ASSUME TypeOK, NEW r \in Runs, Fork(r)
  PROVE  /\ i[r] \in Children /\ cpc' \in [Runs -> [Children -> ChildPlaces]]
         /\ cpc'[r][i[r]] \in {"open", "failed"}
         /\ \A s \in Runs : s # r => cpc'[s] = cpc[s]
         /\ \A s \in Runs : \A d \in Children : s # r \/ d # i[r] => cpc'[s][d] = cpc[s][d]
<1>1. i[r] \in Children BY Processes
<1>2. \/ cpc' = [cpc EXCEPT ![r][i[r]] = "open"]
      \/ cpc' = [cpc EXCEPT ![r][i[r]] = "failed"]
  BY DEF Fork
<1>3. "open" \in ChildPlaces /\ "failed" \in ChildPlaces BY DEF ChildPlaces
<1>4. cpc \in [Runs -> [Children -> ChildPlaces]] BY DEF TypeOK, ChildPlaces
<1>5. \/ ChildGoes(r, i[r], "open") \/ ChildGoes(r, i[r], "failed")
  BY <1>1, <1>2, <1>3, ChildWent
<1>6. \A s \in Runs : s # r => cpc'[s] = cpc[s] BY <1>2, <1>4
<1>. QED BY <1>1, <1>5, <1>6 DEF ChildGoes

LEMMA TypesParent ==
  ASSUME TypeOK, NEW r \in Runs, Parent(r)
  PROVE  TypeOK'
<1>0. limit' = limit /\ limit \in Limits BY DEF Parent, TypeOK
<1>. DEFINE Rest == /\ name' \in 0..Len(queue')
                    /\ pc' \in [Runs -> ParentPlaces] /\ i' \in [Runs -> Children]
                    /\ qd' \in [Runs -> 0..Len(queue')] /\ got' \in [Runs -> Seq(Results)]
                    /\ fds' \in [Runs -> [0..Procs -> SUBSET (1..Len(queue'))]]
            Kids == /\ cpc' \in [Runs -> [Children -> ChildPlaces]]
                    /\ cqd' \in [Runs -> [Children -> 0..Len(queue')]]
                    /\ \A s \in Runs : \A c \in Children :
                         cpc'[s][c] \in {"send", "sent"} => cqd'[s][c] # NoQueue
            Open0 == \A s \in Runs : pc'[s] \in {"poll", "receive"} => qd'[s] # NoQueue
<1>1. SUFFICES Rest /\ Kids /\ Open0
  <2>1. QueuesFit(~Open(r)) BY QueueParent
  <2>2. /\ queue' \in Seq(Seq(Results))
        /\ \A q \in 1..Len(queue') : Len(queue'[q]) <= MaxMsg
    BY <2>1 DEF QueuesFit
  <2>3. Rest /\ Kids /\ Open0 BY <1>1
  <2>. QED BY <1>0, <2>2, <2>3 DEF TypeOK, ParentPlaces, ChildPlaces
<1>2. Len(queue') \in Nat /\ Len(queue) \in Nat /\ Len(queue) <= Len(queue')
  BY QueueParent, Numbers DEF QueuesFit
<1>3. 0..Len(queue) \subseteq 0..Len(queue') BY <1>2, Wider
<1>4. ASSUME UNCHANGED childVars PROVE Kids
  <2>1. cpc' = cpc /\ cqd' = cqd BY <1>4 DEF childVars
  <2>2. cpc \in [Runs -> [Children -> ChildPlaces]]
        /\ cqd \in [Runs -> [Children -> 0..Len(queue)]]
    BY DEF TypeOK, ChildPlaces
  <2>3. cqd \in [Runs -> [Children -> 0..Len(queue')]] BY <1>3, <2>2
  <2>4. \A s \in Runs : \A c \in Children :
          cpc[s][c] \in {"send", "sent"} => cqd[s][c] # NoQueue
    BY DEF TypeOK
  <2>. QED BY <2>1, <2>2, <2>3, <2>4
<1>5. /\ pc \in [Runs -> ParentPlaces] /\ qd \in [Runs -> 0..Len(queue)]
      /\ qd \in [Runs -> 0..Len(queue')] /\ name \in 0..Len(queue')
      /\ i \in [Runs -> Children] /\ got \in [Runs -> Seq(Results)]
      /\ \A s \in Runs : pc[s] \in {"poll", "receive"} => qd[s] # NoQueue
  <2>1. qd \in [Runs -> 0..Len(queue)] /\ name \in 0..Len(queue) BY DEF TypeOK
  <2>2. qd \in [Runs -> 0..Len(queue')] /\ name \in 0..Len(queue') BY <1>3, <2>1
  <2>. QED BY <2>1, <2>2 DEF TypeOK, ParentPlaces
<1>6. fds' \in [Runs -> [0..Procs -> SUBSET (1..Len(queue'))]]
  <2>1. fds \in [Runs -> [0..Procs -> SUBSET (1..Len(queue))]] BY DEF TypeOK
  <2>2. 0 \in 0..Procs /\ i[r] \in 0..Procs BY Processes
  <2>3. 1..Len(queue) \subseteq 1..Len(queue') BY <1>2
  <2>4. fds[r][0] \subseteq 1..Len(queue') BY <2>1, <2>2, <2>3
  <2>5. CASE fds' = fds BY <1>2, <2>2, <2>4, <2>5, FdsTyped
  <2>6. CASE FdsGo(r, i[r], fds[r][0]) BY <1>2, <2>2, <2>4, <2>6, FdsTyped
  <2>7. CASE Open(r) /\ FdsGo(r, 0, fds[r][0] \cup {name'})
    <3>1. name' \in 1..Len(queue') BY <2>7, Created
    <3>2. fds[r][0] \cup {name'} \subseteq 1..Len(queue') BY <2>4, <3>1
    <3>. QED BY <1>2, <2>2, <2>7, <3>2, FdsTyped
  <2>8. CASE FdsGo(r, 0, {})
    <3>1. {} \subseteq 1..Len(queue') OBVIOUS
    <3>. QED BY <1>2, <2>2, <2>8, <3>1, FdsTyped
  <2>. QED BY <2>5, <2>6, <2>7, <2>8, FdsParent
<1>7. CASE Unlink(r) \/ OpenFails(r) \/ Poll(r)
  <2>1. UNCHANGED <<i, qd, got, childVars>> /\ (name' = name \/ name' = NoQueue)
    BY <1>7 DEF Unlink, OpenFails, Poll
  <2>2. /\ pc' \in [Runs -> ParentPlaces] /\ \A s \in Runs : s # r => pc'[s] = pc[s]
        /\ pc'[r] \in {"poll", "receive"} => pc[r] \in {"poll", "receive"}
    <3>1. \/ Goto(r, "unlink", "fork") \/ Goto(r, "open", "exited") \/ Goto(r, "poll", "receive")
      BY <1>7 DEF Unlink, OpenFails, Poll
    <3>2. {"fork", "exited", "receive"} \subseteq ParentPlaces BY DEF ParentPlaces
    <3>. QED BY <3>1, <3>2, Went
  <2>3. Kids BY <1>4, <2>1
  <2>4. NoQueue \in 0..Len(queue') BY <1>2 DEF NoQueue
  <2>5. Rest BY <1>5, <1>6, <2>1, <2>2, <2>4
  <2>6. Open0 BY <1>5, <2>1, <2>2
  <2>. QED BY <2>3, <2>5, <2>6
<1>8. CASE Fork(r)
  <2>1. UNCHANGED <<queue, name, i, qd, got, cqd>> /\ Goto(r, "fork", "open") BY <1>8 DEF Fork
  <2>2. "open" \in ParentPlaces BY DEF ParentPlaces
  <2>3. /\ pc' \in [Runs -> ParentPlaces] /\ pc'[r] = "open"
        /\ \A s \in Runs : s # r => pc'[s] = pc[s]
    BY <2>1, <2>2, Went
  <2>4. /\ cpc' \in [Runs -> [Children -> ChildPlaces]] /\ cpc'[r][i[r]] \in {"open", "failed"}
        /\ \A s \in Runs : \A d \in Children : s # r \/ d # i[r] => cpc'[s][d] = cpc[s][d]
    BY <1>8, Forked
  <2>5. Kids
    <3>1. cqd \in [Runs -> [Children -> 0..Len(queue)]] BY DEF TypeOK
    <3>2. \A s \in Runs : \A c \in Children :
            cpc[s][c] \in {"send", "sent"} => cqd[s][c] # NoQueue
      BY DEF TypeOK
    <3>3. \A s \in Runs : \A c \in Children :
            cpc'[s][c] \in {"send", "sent"} => cqd[s][c] # NoQueue
      BY <2>4, <3>2
    <3>. QED BY <2>1, <2>4, <3>1, <3>3
  <2>6. Rest BY <1>5, <1>6, <2>1, <2>3
  <2>7. Open0 BY <2>1, <2>3, <1>5
  <2>. QED BY <2>5, <2>6, <2>7
<1>9. CASE Open(r)
  <2>1. UNCHANGED <<got, childVars>> /\ qd' = [qd EXCEPT ![r] = name'] BY <1>9 DEF Open
  <2>2. /\ pc' \in [Runs -> ParentPlaces] /\ i' \in [Runs -> Children]
        /\ \A s \in Runs : s # r => pc'[s] = pc[s]
    BY <1>9, Rounds DEF Round
  <2>3. name' \in 0..Len(queue') /\ name' # NoQueue
    <3>1. name' \in 1..Len(queue') BY <1>9, Created
    <3>. QED BY <1>2, <3>1 DEF NoQueue
  <2>4. Kids BY <1>4, <2>1
  <2>5. qd' \in [Runs -> 0..Len(queue')] /\ qd'[r] = name'
        /\ \A s \in Runs : s # r => qd'[s] = qd[s]
    BY <1>5, <2>1, <2>3
  <2>6. Rest BY <1>5, <1>6, <2>1, <2>2, <2>3, <2>5
  <2>7. Open0 BY <2>2, <2>3, <2>5, <1>5
  <2>. QED BY <2>4, <2>6, <2>7
<1>10. CASE Receive(r)
  <2>1. UNCHANGED <<name, qd, childVars>> BY <1>10 DEF Receive
  <2>2. /\ pc' \in [Runs -> ParentPlaces] /\ i' \in [Runs -> Children] /\ pc[r] = "receive"
        /\ \A s \in Runs : s # r => pc'[s] = pc[s]
    BY <1>10, Rounds DEF Round
  <2>3. got' \in [Runs -> Seq(Results)] BY <1>10, Received
  <2>4. Kids BY <1>4, <2>1
  <2>5. Rest BY <1>5, <1>6, <2>1, <2>2, <2>3
  <2>6. Open0 BY <2>1, <2>2, <1>5
  <2>. QED BY <2>4, <2>5, <2>6
<1>. QED BY <1>7, <1>8, <1>9, <1>10 DEF Parent

\* A child goes on from where it was, and moves no other.
LEMMA ChildStep ==
  ASSUME TypeOK, NEW r \in Runs, NEW c \in Children, Child(r, c)
  PROVE  /\ cpc' \in [Runs -> [Children -> ChildPlaces]]
         /\ cpc[r][c] \in {"open", "send"}
         /\ ChildOpen(r, c) => cpc'[r][c] = "send"
         /\ Send(r, c) => cpc'[r][c] = "sent"
         /\ ChildOpenFails(r, c) => cpc'[r][c] = "exited"
         /\ \A s \in Runs : \A d \in Children : s # r \/ d # c => cpc'[s][d] = cpc[s][d]
<1>1. "send" \in ChildPlaces /\ "exited" \in ChildPlaces /\ "sent" \in ChildPlaces
  BY DEF ChildPlaces
<1>2. ChildOpen(r, c) => cpc[r][c] = "open" /\ cpc' = [cpc EXCEPT ![r][c] = "send"]
  BY DEF ChildOpen, ChildGoto
<1>3. ChildOpenFails(r, c) => cpc[r][c] = "open" /\ cpc' = [cpc EXCEPT ![r][c] = "exited"]
  BY DEF ChildOpenFails, ChildGoto
<1>4. Send(r, c) => cpc[r][c] = "send" /\ cpc' = [cpc EXCEPT ![r][c] = "sent"]
  BY DEF Send, ChildGoto
<1>5. /\ ChildOpen(r, c) => ChildGoes(r, c, "send")
      /\ ChildOpenFails(r, c) => ChildGoes(r, c, "exited")
      /\ Send(r, c) => ChildGoes(r, c, "sent")
  BY <1>1, <1>2, <1>3, <1>4, ChildWent
<1>. QED BY <1>2, <1>3, <1>4, <1>5 DEF Child, ChildGoes

LEMMA TypesChild ==
  ASSUME TypeOK, NEW r \in Runs, NEW c \in Children, Child(r, c)
  PROVE  TypeOK'
<1>1. UNCHANGED <<name, limit, pc, i, qd, got>> BY DEF Child, parentVars
<1>2. /\ cpc' \in [Runs -> [Children -> ChildPlaces]]
      /\ \A s \in Runs : \A d \in Children : s # r \/ d # c => cpc'[s][d] = cpc[s][d]
  BY ChildStep
<1>3. cqd \in [Runs -> [Children -> 0..Len(queue)]] /\ name \in 0..Len(queue)
      /\ \A s \in Runs : \A d \in Children :
            cpc[s][d] \in {"send", "sent"} => cqd[s][d] # NoQueue
  BY DEF TypeOK
<1>4. /\ queue' \in Seq(Seq(Results)) /\ Len(queue') = Len(queue)
      /\ \A q \in 1..Len(queue) : Len(queue'[q]) <= MaxMsg
  BY QueueChild DEF QueuesFit
<1>5. /\ cqd' \in [Runs -> [Children -> 0..Len(queue)]]
      /\ \A s \in Runs : \A d \in Children :
            cpc'[s][d] \in {"send", "sent"} => cqd'[s][d] # NoQueue
  <2>1. CASE ChildOpen(r, c)
    <3>1. cqd' = [cqd EXCEPT ![r][c] = name] /\ name # NoQueue BY <2>1 DEF ChildOpen
    <3>2. /\ cqd' \in [Runs -> [Children -> 0..Len(queue)]] /\ cqd'[r][c] = name
          /\ \A s \in Runs : \A d \in Children : s # r \/ d # c => cqd'[s][d] = cqd[s][d]
      BY <1>3, <3>1
    <3>3. cqd'[r][c] # NoQueue BY <3>1, <3>2
    <3>4. \A s \in Runs : \A d \in Children : s # r \/ d # c =>
            (cpc'[s][d] \in {"send", "sent"} => cqd'[s][d] # NoQueue)
      <4>. SUFFICES ASSUME NEW s \in Runs, NEW d \in Children, s # r \/ d # c
                    PROVE  cpc'[s][d] \in {"send", "sent"} => cqd'[s][d] # NoQueue
        OBVIOUS
      <4>1. cpc'[s][d] = cpc[s][d] /\ cqd'[s][d] = cqd[s][d] BY <1>2, <3>2
      <4>. QED BY <1>3, <4>1
    <3>5. \A s \in Runs : \A d \in Children :
            cpc'[s][d] \in {"send", "sent"} => cqd'[s][d] # NoQueue
      <4>. SUFFICES ASSUME NEW s \in Runs, NEW d \in Children,
                           cpc'[s][d] \in {"send", "sent"}
                    PROVE  cqd'[s][d] # NoQueue
        OBVIOUS
      <4>1. CASE s = r /\ d = c BY <4>1, <3>3
      <4>2. CASE s # r \/ d # c BY <4>2, <3>4
      <4>. QED BY <4>1, <4>2
    <3>. QED BY <3>2, <3>5
  <2>2. CASE ~ ChildOpen(r, c)
    <3>1. cqd' = cqd BY <2>2 DEF Child, Send, ChildOpenFails
    <3>2. cpc'[r][c] \in {"send", "sent"} => cpc[r][c] \in {"send", "sent"}
      <4>1. CASE Send(r, c)
        <5>1. cpc[r][c] = "send" BY <4>1 DEF Send, ChildGoto
        <5>. QED BY <5>1
      <4>2. CASE ~ Send(r, c)
        <5>1. cpc'[r][c] = "exited" BY <4>2, <2>2, ChildStep DEF Child
        <5>. QED BY <5>1
      <4>. QED BY <4>1, <4>2
    <3>. QED BY <1>2, <1>3, <3>1, <3>2
  <2>. QED BY <2>1, <2>2
<1>6. /\ name' \in 0..Len(queue') /\ limit' \in Limits
      /\ pc' \in [Runs -> ParentPlaces] /\ i' \in [Runs -> Children]
      /\ qd' \in [Runs -> 0..Len(queue')] /\ got' \in [Runs -> Seq(Results)]
      /\ \A s \in Runs : pc'[s] \in {"poll", "receive"} => qd'[s] # NoQueue
  BY <1>1, <1>4 DEF TypeOK, ParentPlaces
<1>7. fds' \in [Runs -> [0..Procs -> SUBSET (1..Len(queue'))]]
  <2>1. fds \in [Runs -> [0..Procs -> SUBSET (1..Len(queue))]] /\ Len(queue) \in Nat
    BY Numbers DEF TypeOK
  <2>2. c \in 0..Procs BY Processes
  <2>3. CASE ChildOpen(r, c) /\ FdsGo(r, c, fds[r][c] \cup {name})
    <3>1. name \in 1..Len(queue)
      <4>1. name # NoQueue BY <2>3 DEF ChildOpen
      <4>. QED BY <1>3, <2>1, <4>1 DEF NoQueue
    <3>2. fds[r][c] \cup {name} \subseteq 1..Len(queue) BY <2>1, <2>2, <3>1
    <3>3. Len(queue) <= Len(queue) BY <2>1
    <3>4. fds' \in [Runs -> [0..Procs -> SUBSET (1..Len(queue))]]
      BY <2>1, <2>2, <2>3, <3>2, <3>3, FdsTyped
    <3>. QED BY <1>4, <3>4
  <2>4. CASE FdsGo(r, c, {})
    <3>1. {} \subseteq 1..Len(queue) OBVIOUS
    <3>2. Len(queue) <= Len(queue) BY <2>1
    <3>3. fds' \in [Runs -> [0..Procs -> SUBSET (1..Len(queue))]]
      BY <2>1, <2>2, <2>4, <3>1, <3>2, FdsTyped
    <3>. QED BY <1>4, <3>3
  <2>. QED BY <2>3, <2>4, FdsChild
<1>. QED BY <1>2, <1>4, <1>5, <1>6, <1>7 DEF TypeOK, ParentPlaces, ChildPlaces

-----------------------------------------------------------------------------
\* The loops

\* What LoopInv says of one run.
LoopOf(r) ==
  /\ pc[r] \in {"not run", "unlink"} => i[r] = 1 /\ \A c \in Children : cpc[r][c] = "none"
  /\ pc[r] = "fork" => \A c \in Children : c >= i[r] => cpc[r][c] = "none"
  /\ pc[r] = "open" => \A c \in Children : c > i[r] => cpc[r][c] = "none"
  /\ pc[r] \in {"poll", "receive"} => Len(got[r]) = i[r] - 1
  /\ pc[r] = "done" => Len(got[r]) = Procs
  /\ pc[r] \notin {"poll", "receive", "done"} => Len(got[r]) = 0

LEMMA LoopIs == (LoopInv <=> \A r \in Runs : LoopOf(r)) /\ (LoopInv' <=> \A r \in Runs : LoopOf(r)')
BY DEF LoopInv, LoopOf

LEMMA LoopParent ==
  ASSUME TypeOK, LoopInv, NEW r \in Runs, Parent(r)
  PROVE  LoopInv'
<1>. DEFINE Others == \A s \in Runs : s # r => /\ pc'[s] = pc[s] /\ i'[s] = i[s]
                                               /\ got'[s] = got[s] /\ cpc'[s] = cpc[s]
<1>1. SUFFICES LoopOf(r)' /\ Others
  <2>1. \A s \in Runs : s # r => LoopOf(s)'
    <3>. SUFFICES ASSUME NEW s \in Runs, s # r PROVE LoopOf(s)' OBVIOUS
    <3>1. pc'[s] = pc[s] /\ i'[s] = i[s] /\ got'[s] = got[s] /\ cpc'[s] = cpc[s] BY <1>1
    <3>2. LoopOf(s) BY LoopIs
    <3>. QED BY <3>1, <3>2 DEF LoopOf
  <2>. QED BY <1>1, <2>1, LoopIs
<1>2. /\ "fork" \in ParentPlaces /\ "open" \in ParentPlaces /\ "exited" \in ParentPlaces
      /\ "poll" \in ParentPlaces /\ "receive" \in ParentPlaces /\ "done" \in ParentPlaces
  BY DEF ParentPlaces
<1>3. /\ i[r] \in 1..Procs /\ Procs \in Nat \ {0} /\ Len(got[r]) \in Nat BY Numbers
<1>0. LoopOf(r) BY LoopIs
<1>4. CASE Unlink(r)
  <2>1. UNCHANGED <<i, got, cpc>> BY <1>4 DEF Unlink, childVars
  <2>2. /\ pc[r] = "unlink" /\ pc'[r] = "fork" /\ \A s \in Runs : s # r => pc'[s] = pc[s]
    BY <1>2, <1>4, Went DEF Unlink
  <2>3. Len(got[r]) = 0 /\ \A c \in Children : cpc[r][c] = "none" BY <1>0, <2>2 DEF LoopOf
  <2>. QED BY <2>1, <2>2, <2>3 DEF LoopOf
<1>5. CASE OpenFails(r)
  <2>1. UNCHANGED <<i, got, cpc>> BY <1>5 DEF OpenFails, childVars
  <2>2. /\ pc[r] = "open" /\ pc'[r] = "exited" /\ \A s \in Runs : s # r => pc'[s] = pc[s]
    BY <1>2, <1>5, Went DEF OpenFails
  <2>3. Len(got[r]) = 0 BY <1>0, <2>2 DEF LoopOf
  <2>. QED BY <2>1, <2>2, <2>3 DEF LoopOf
<1>6. CASE Poll(r)
  <2>1. UNCHANGED <<i, got, cpc>> BY <1>6 DEF Poll, childVars
  <2>2. /\ pc[r] = "poll" /\ pc'[r] = "receive"
        /\ \A s \in Runs : s # r => pc'[s] = pc[s]
    BY <1>2, <1>6, Went DEF Poll
  <2>3. Len(got[r]) = i[r] - 1 BY <1>0, <2>2 DEF LoopOf
  <2>. QED BY <2>1, <2>2, <2>3 DEF LoopOf
<1>7. CASE Fork(r)
  <2>1. UNCHANGED <<i, got>> BY <1>7 DEF Fork
  <2>2. /\ pc[r] = "fork" /\ pc'[r] = "open"
        /\ \A s \in Runs : s # r => pc'[s] = pc[s]
    BY <1>2, <1>7, Went DEF Fork
  <2>3. Len(got[r]) = 0 /\ \A c \in Children : c >= i[r] => cpc[r][c] = "none"
    BY <1>0, <2>2 DEF LoopOf
  <2>4. /\ \A s \in Runs : s # r => cpc'[s] = cpc[s]
        /\ \A c \in Children : c # i[r] => cpc'[r][c] = cpc[r][c]
    BY <1>7, Forked
  <2>5. \A c \in Children : c > i[r] => c >= i[r] /\ c # i[r] BY <1>3 DEF Children
  <2>6. \A c \in Children : c > i[r] => cpc'[r][c] = "none" BY <2>3, <2>4, <2>5
  <2>. QED BY <2>1, <2>2, <2>3, <2>4, <2>6 DEF LoopOf
<1>8. CASE Open(r)
  <2>1. UNCHANGED <<got, cpc>> BY <1>8 DEF Open, childVars
  <2>2. Loop(r, "open", "fork", "poll") BY <1>8 DEF Open
  <2>3. /\ pc[r] = "open"
        /\ \/ i[r] < Procs /\ i'[r] = i[r] + 1 /\ pc'[r] = "fork"
           \/ i[r] = Procs /\ i'[r] = 1 /\ pc'[r] = "poll"
        /\ \A s \in Runs : s # r => pc'[s] = pc[s] /\ i'[s] = i[s]
    BY <1>8, Rounds DEF Round
  <2>4. Len(got[r]) = 0 /\ \A c \in Children : c > i[r] => cpc[r][c] = "none"
    BY <1>0, <2>3 DEF LoopOf
  <2>5. LoopOf(r)'
    <3>1. CASE i[r] < Procs /\ i'[r] = i[r] + 1 /\ pc'[r] = "fork"
      <4>1. \A c \in Children : c >= i[r] + 1 => c > i[r] BY <1>3 DEF Children
      <4>2. \A c \in Children : c >= i'[r] => cpc'[r][c] = "none" BY <2>1, <2>4, <3>1, <4>1
      <4>. QED BY <2>1, <2>4, <3>1, <4>2 DEF LoopOf
    <3>2. CASE i[r] = Procs /\ i'[r] = 1 /\ pc'[r] = "poll"
      <4>1. Len(got'[r]) = i'[r] - 1 BY <2>1, <2>4, <3>2
      <4>. QED BY <3>2, <4>1 DEF LoopOf
    <3>. QED BY <2>3, <3>1, <3>2
  <2>. QED BY <2>1, <2>3, <2>5
<1>9. CASE Receive(r)
  <2>1. cpc' = cpc BY <1>9 DEF Receive, childVars
  <2>2. Loop(r, "receive", "poll", "done") BY <1>9 DEF Receive
  <2>3. /\ pc[r] = "receive"
        /\ \/ i[r] < Procs /\ i'[r] = i[r] + 1 /\ pc'[r] = "poll"
           \/ i[r] = Procs /\ i'[r] = 1 /\ pc'[r] = "done"
        /\ \A s \in Runs : s # r => pc'[s] = pc[s] /\ i'[s] = i[s]
    BY <1>9, Rounds DEF Round
  <2>4. Len(got[r]) = i[r] - 1 BY <1>0, <2>3 DEF LoopOf
  <2>5. Len(got'[r]) = i[r]
    <3>1. Len(got'[r]) = Len(got[r]) + 1 BY <1>9, Received
    <3>. QED BY <1>3, <2>4, <3>1
  <2>6. LoopOf(r)'
    <3>1. CASE i[r] < Procs /\ i'[r] = i[r] + 1 /\ pc'[r] = "poll"
      <4>1. Len(got'[r]) = i'[r] - 1 BY <1>3, <2>5, <3>1
      <4>. QED BY <3>1, <4>1 DEF LoopOf
    <3>2. CASE i[r] = Procs /\ i'[r] = 1 /\ pc'[r] = "done" BY <2>5, <3>2 DEF LoopOf
    <3>. QED BY <2>3, <3>1, <3>2
  <2>7. \A s \in Runs : s # r => got'[s] = got[s] BY <1>9, Received
  <2>. QED BY <2>1, <2>3, <2>6, <2>7
<1>. QED BY <1>4, <1>5, <1>6, <1>7, <1>8, <1>9 DEF Parent

LEMMA LoopChild ==
  ASSUME TypeOK, LoopInv, NEW r \in Runs, NEW c \in Children, Child(r, c)
  PROVE  LoopInv'
<1>1. UNCHANGED <<pc, i, got>> BY DEF Child, parentVars
<1>2. \A s \in Runs : \A d \in Children : cpc[s][d] = "none" => cpc'[s][d] = "none"
  BY ChildStep
<1>3. ASSUME NEW s \in Runs PROVE LoopOf(s)'
  <2>1. LoopOf(s) BY LoopIs
  <2>. QED BY <1>1, <1>2, <2>1 DEF LoopOf
<1>. QED BY <1>3, LoopIs

-----------------------------------------------------------------------------
\* Which queues are in use

Held(q) == \E r \in Runs : \E p \in 0..Procs : q \in fds[r][p]

LEMMA UseIs ==
  ASSUME NEW q
  PROVE  (InUse(q) <=> q = name \/ Held(q)) /\ (InUse(q)' <=> q = name' \/ Held(q)')
BY Zenon DEF InUse, Held

\* What a process has open after a step it or its parent had open before, or it has
\* opened what the name names.
LEMMA HeldBefore ==
  ASSUME NEW r \in Runs, NEW o \in 0..Procs, NEW p \in 0..Procs, NEW F, FdsGo(r, p, F),
         NEW q, q \in F => q = name' \/ q \in fds[r][o], Held(q)'
  PROVE  q = name' \/ Held(q)
<1>1. PICK s \in Runs, u \in 0..Procs : q \in fds'[s][u] BY Zenon DEF Held
<1>2. CASE s = r /\ u = p
  <2>1. q \in F BY <1>1, <1>2 DEF FdsGo
  <2>. QED BY <2>1, Zenon DEF Held
<1>3. CASE s # r \/ u # p
  <2>1. q \in fds[s][u] BY <1>1, <1>3 DEF FdsGo
  <2>. QED BY <2>1, Zenon DEF Held
<1>. QED BY <1>2, <1>3

LEMMA HeldParent ==
  ASSUME TypeOK, NEW r \in Runs, Parent(r), NEW q, Held(q)'
  PROVE  q = name' \/ Held(q)
<1>1. 0 \in 0..Procs /\ i[r] \in 0..Procs BY Processes
<1>2. CASE fds' = fds
  <2>1. Held(q) BY <1>2, Zenon DEF Held
  <2>. QED BY <2>1
<1>3. CASE FdsGo(r, i[r], fds[r][0]) BY <1>1, <1>3, HeldBefore, Zenon
<1>4. CASE FdsGo(r, 0, fds[r][0] \cup {name'})
  <2>1. q \in fds[r][0] \cup {name'} => q = name' \/ q \in fds[r][0] OBVIOUS
  <2>. QED BY <1>1, <1>4, <2>1, HeldBefore, Zenon
<1>5. CASE FdsGo(r, 0, {})
  <2>1. q \in {} => q = name' \/ q \in fds[r][0] OBVIOUS
  <2>. QED BY <1>1, <1>5, <2>1, HeldBefore
<1>. QED BY <1>2, <1>3, <1>4, <1>5, FdsParent

LEMMA HeldChild ==
  ASSUME TypeOK, NEW r \in Runs, NEW c \in Children, Child(r, c), NEW q, Held(q)'
  PROVE  q = name' \/ Held(q)
<1>1. c \in 0..Procs /\ name' = name BY Processes DEF Child
<1>2. CASE FdsGo(r, c, fds[r][c] \cup {name})
  <2>1. q \in fds[r][c] \cup {name} => q = name' \/ q \in fds[r][c] BY <1>1
  <2>. QED BY <1>1, <1>2, <2>1, HeldBefore, Zenon
<1>3. CASE FdsGo(r, c, {})
  <2>1. q \in {} => q = name' \/ q \in fds[r][c] OBVIOUS
  <2>. QED BY <1>1, <1>3, <2>1, HeldBefore
<1>. QED BY <1>2, <1>3, FdsChild

\* A queue that is not in use is never in use again.
LEMMA UnusedParent ==
  ASSUME TypeOK, NEW r \in Runs, Parent(r), NEW q \in 1..Len(queue), ~InUse(q)
  PROVE  ~InUse(q)'
<1>1. q # name'
  <2>1. Len(queue) \in Nat BY Numbers
  <2>2. q # NoQueue /\ q # Len(queue) + 1 BY <2>1 DEF NoQueue
  <2>3. q # name BY UseIs
  <2>4. name' = name \/ name' = NoQueue \/ name' = Len(queue) + 1 BY ParentMoves, Created
  <2>. QED BY <2>2, <2>3, <2>4
<1>2. ~Held(q) BY UseIs
<1>. QED BY <1>1, <1>2, HeldParent, UseIs

LEMMA UnusedChild ==
  ASSUME TypeOK, NEW r \in Runs, NEW c \in Children, Child(r, c), NEW q, ~InUse(q)
  PROVE  ~InUse(q)'
<1>1. q # name' BY UseIs DEF Child
<1>2. ~Held(q) BY UseIs
<1>. QED BY <1>1, <1>2, HeldChild, UseIs

\* A step after which every process has open what it had, destroys no queue.
LEMMA HeldAfter ==
  ASSUME NEW r \in Runs, NEW p \in 0..Procs, NEW F, FdsGo(r, p, F), fds[r][p] \subseteq F,
         NEW q, Held(q)
  PROVE  Held(q)'
<1>1. PICK s \in Runs, u \in 0..Procs : q \in fds[s][u] BY Zenon DEF Held
<1>2. q \in fds'[s][u] BY <1>1 DEF FdsGo
<1>. QED BY <1>2, Zenon DEF Held

LEMMA GrowParent ==
  ASSUME TypeOK, LoopInv, QueuesInv, NEW r \in Runs, Fork(r) \/ Open(r) \/ Poll(r), Parent(r),
         NEW q \in 1..Len(queue), InUse(q)
  PROVE  InUse(q)'
<1>1. 0 \in 0..Procs /\ i[r] \in Children /\ i[r] \in 0..Procs /\ Len(queue) \in Nat
  BY Processes, Numbers
<1>2. q = name => q = name'
  <2>1. Fork(r) \/ Poll(r) => name' = name BY DEF Fork, Poll
  <2>2. Open(r) => (name # NoQueue => name' = name) BY Created
  <2>3. q # NoQueue BY <1>1 DEF NoQueue
  <2>. QED BY <2>1, <2>2, <2>3
<1>3. Held(q) => Held(q)'
  <2>1. CASE fds' = fds BY <2>1, Zenon DEF Held
  <2>2. CASE Fork(r) /\ FdsGo(r, i[r], fds[r][0])
    <3>1. pc[r] = "fork" BY <2>2 DEF Fork, Goto
    <3>2. i[r] >= i[r] BY <1>1 DEF Children
    <3>3. cpc[r][i[r]] = "none" BY <1>1, <3>1, <3>2 DEF LoopInv
    <3>4. fds[r][i[r]] = {} BY <1>1, <3>3 DEF QueuesInv
    <3>5. fds[r][i[r]] \subseteq fds[r][0] BY <3>4
    <3>. QED BY <1>1, <2>2, <3>5, HeldAfter, Zenon
  <2>3. CASE Open(r) /\ FdsGo(r, 0, fds[r][0] \cup {name'})
    <3>1. fds[r][0] \subseteq fds[r][0] \cup {name'} OBVIOUS
    <3>. QED BY <1>1, <2>3, <3>1, HeldAfter, Zenon
  <2>4. ~OpenFails(r) /\ ~Receive(r)
    <3>1. OpenFails(r) => pc'[r] = "exited"
      <4>1. "exited" \in ParentPlaces BY DEF ParentPlaces
      <4>. QED BY <4>1, Went DEF OpenFails
    <3>2. Receive(r) => pc[r] = "receive" BY DEF Receive, Loop, Goto
    <3>3. OpenFails(r) => pc[r] = "open" /\ i[r] > limit BY DEF OpenFails, Goto
    <3>4. Fork(r) \/ Poll(r) => pc[r] \in {"fork", "poll"} BY DEF Fork, Poll, Goto
    <3>5. Open(r) => pc[r] = "open" /\ pc'[r] # "exited"
      <4>1. Open(r) => Round(r, "open", "fork", "poll") BY Rounds
      <4>. QED BY <4>1 DEF Round
    <3>. QED BY <3>1, <3>2, <3>3, <3>4, <3>5
  <2>. QED BY <2>1, <2>2, <2>3, <2>4, FdsParent
<1>. QED BY <1>2, <1>3, UseIs

LEMMA GrowChild ==
  ASSUME TypeOK, NEW r \in Runs, NEW c \in Children, Child(r, c), ChildOpen(r, c), NEW q,
         InUse(q)
  PROVE  InUse(q)'
<1>1. c \in 0..Procs /\ name' = name BY Processes DEF Child
<1>2. CASE FdsGo(r, c, fds[r][c] \cup {name})
  <2>1. fds[r][c] \subseteq fds[r][c] \cup {name} OBVIOUS
  <2>. QED BY <1>1, <1>2, <2>1, HeldAfter, UseIs, Zenon
<1>3. ~ChildOpenFails(r, c) /\ ~Send(r, c)
  <2>1. cpc'[r][c] = "send" BY ChildStep
  <2>. QED BY <2>1, ChildStep
<1>. QED BY <1>2, <1>3, FdsChild

\* What a step may do to the queues: it leaves them, creates one, or takes away one
\* result or adds one, and then those that are not in use are destroyed.
LEMMA ParentKinds ==
  ASSUME NEW r \in Runs, Parent(r)
  PROVE  \/ queue' = Left(queue) /\ (Unlink(r) \/ OpenFails(r))
         \/ queue' = queue /\ (Fork(r) \/ Poll(r))
         \/ Open(r)
         \/ Receive(r)
BY DEF Parent, Unlink, OpenFails, Fork, Poll

LEMMA ChildKinds ==
  ASSUME NEW r \in Runs, NEW c \in Children, Child(r, c)
  PROVE  \/ queue' = Left(queue) /\ ChildOpenFails(r, c)
         \/ queue' = queue /\ ChildOpen(r, c)
         \/ Send(r, c)
BY DEF Child, ChildOpenFails, ChildOpen

-----------------------------------------------------------------------------
\* Where the results are

LEMMA Members ==
  ASSUME NEW m
  PROVE  /\ \A q, k : <<q, k>> \in Queued(m) <=>
              /\ q \in 1..Len(queue) /\ k \in 1..MaxMsg
              /\ k <= Len(queue[q]) /\ queue[q][k] = m
         /\ \A s, k : <<s, k>> \in Counted(m) <=>
              s \in Runs /\ k \in 1..Procs /\ k <= Len(got[s]) /\ got[s][k] = m
         /\ \A p \in Queued(m) \cup Counted(m) : p = <<p[1], p[2]>>
BY DEF Queued, Counted

\* The same of any list of queues, and of the queues after a step.
QueuedIn(m, s) == {p \in (1..Len(s)) \X (1..MaxMsg) : p[2] <= Len(s[p[1]]) /\ s[p[1]][p[2]] = m}

TakenIn(m, r) == QueuedIn(m, Taken(r))
AddedIn(m, r, c) == QueuedIn(m, Added(r, c))

LEMMA MembersIn ==
  ASSUME NEW m, NEW t
  PROVE  /\ \A q, k : <<q, k>> \in QueuedIn(m, t) <=>
              q \in 1..Len(t) /\ k \in 1..MaxMsg /\ k <= Len(t[q]) /\ t[q][k] = m
         /\ \A p \in QueuedIn(m, t) : p = <<p[1], p[2]>>
BY DEF QueuedIn

LEMMA MembersTaken ==
  ASSUME NEW m, NEW r
  PROVE  /\ \A q, k : <<q, k>> \in TakenIn(m, r) <=>
              /\ q \in 1..Len(Taken(r)) /\ k \in 1..MaxMsg
              /\ k <= Len(Taken(r)[q]) /\ Taken(r)[q][k] = m
         /\ \A p \in TakenIn(m, r) : p = <<p[1], p[2]>>
BY DEF TakenIn, QueuedIn

LEMMA MembersAdded ==
  ASSUME NEW m, NEW r, NEW c
  PROVE  /\ \A q, k : <<q, k>> \in AddedIn(m, r, c) <=>
              /\ q \in 1..Len(Added(r, c)) /\ k \in 1..MaxMsg
              /\ k <= Len(Added(r, c)[q]) /\ Added(r, c)[q][k] = m
         /\ \A p \in AddedIn(m, r, c) : p = <<p[1], p[2]>>
BY DEF AddedIn, QueuedIn

LEMMA MembersAfter ==
  ASSUME NEW m
  PROVE  /\ \A q, k : <<q, k>> \in Queued(m)' <=>
              /\ q \in 1..Len(queue') /\ k \in 1..MaxMsg
              /\ k <= Len(queue'[q]) /\ queue'[q][k] = m
         /\ \A s, k : <<s, k>> \in Counted(m)' <=>
              s \in Runs /\ k \in 1..Procs /\ k <= Len(got'[s]) /\ got'[s][k] = m
         /\ \A p \in Queued(m)' \cup Counted(m)' : p = <<p[1], p[2]>>
BY DEF Queued, Counted

\* Sets of pairs with the same pairs are the same.
LEMMA Pairs ==
  ASSUME NEW A, NEW B, \A p \in A : p = <<p[1], p[2]>>, \A p \in B : p = <<p[1], p[2]>>,
         \A x, k : <<x, k>> \in A <=> <<x, k>> \in B
  PROVE  A = B
<1>1. \A p \in A : p \in B
  <2>. SUFFICES ASSUME NEW p \in A PROVE p \in B OBVIOUS
  <2>1. p = <<p[1], p[2]>> OBVIOUS
  <2>2. <<p[1], p[2]>> \in A => <<p[1], p[2]>> \in B OBVIOUS
  <2>. QED BY <2>1, <2>2, Zenon
<1>2. \A p \in B : p \in A
  <2>. SUFFICES ASSUME NEW p \in B PROVE p \in A OBVIOUS
  <2>1. p = <<p[1], p[2]>> OBVIOUS
  <2>2. <<p[1], p[2]>> \in B => <<p[1], p[2]>> \in A OBVIOUS
  <2>. QED BY <2>1, <2>2, Zenon
<1>. QED BY <1>1, <1>2

LEMMA OneMore ==
  ASSUME NEW A, NEW B, NEW a, NEW b,
         \A p \in A : p = <<p[1], p[2]>>, \A p \in B : p = <<p[1], p[2]>>,
         \A x, k : <<x, k>> \in B <=> <<x, k>> \in A \/ (x = a /\ k = b)
  PROVE  B = A \cup {<<a, b>>}
<1>. DEFINE C == A \cup {<<a, b>>}
<1>1. \A p \in C : p = <<p[1], p[2]>>
  <2>1. <<a, b>>[1] = a /\ <<a, b>>[2] = b OBVIOUS
  <2>2. <<a, b>> = <<<<a, b>>[1], <<a, b>>[2]>> BY <2>1, Zenon
  <2>. QED BY <2>2, Zenon
<1>2. \A x, k : <<x, k>> \in B <=> <<x, k>> \in C
  <2>. SUFFICES ASSUME NEW x, NEW k PROVE <<x, k>> \in B <=> <<x, k>> \in C OBVIOUS
  <2>1. <<x, k>> = <<a, b>> <=> x = a /\ k = b OBVIOUS
  <2>. QED BY <2>1
<1>. HIDE DEF C
<1>3. B = C BY <1>1, <1>2, Pairs, Zenon
<1>. QED BY <1>3 DEF C

\* mq_open with O_CREAT moves no result.
LEMMA OpenPlaces ==
  ASSUME TypeOK, NEW r \in Runs, Open(r), NEW m
  PROVE  Queued(m)' = Queued(m) /\ Counted(m)' = Counted(m)
<1>1. /\ Len(queue') \in Nat /\ Len(queue) \in Nat /\ Len(queue) <= Len(queue')
      /\ \A q \in 1..Len(queue) : queue'[q] = queue[q]
      /\ \A q \in 1..Len(queue') : q \in 1..Len(queue) \/ queue'[q] = <<>>
  BY Created, Numbers
<1>2. got' = got BY DEF Open
<1>3. Counted(m)' = Counted(m) BY <1>2 DEF Counted
<1>4. \A q, k : <<q, k>> \in Queued(m)' <=> <<q, k>> \in Queued(m)
  <2>. SUFFICES ASSUME NEW q, NEW k PROVE <<q, k>> \in Queued(m)' <=> <<q, k>> \in Queued(m)
    OBVIOUS
  <2>1. CASE q \in 1..Len(queue)
    <3>1. q \in 1..Len(queue') /\ queue'[q] = queue[q] BY <1>1, <2>1
    <3>. QED BY <2>1, <3>1, Members, MembersAfter
  <2>2. CASE q \notin 1..Len(queue)
    <3>1. <<q, k>> \notin Queued(m) BY <2>2, Members
    <3>2. <<q, k>> \notin Queued(m)'
      <4>. SUFFICES ASSUME <<q, k>> \in Queued(m)' PROVE FALSE OBVIOUS
      <4>1. q \in 1..Len(queue') /\ k \in 1..MaxMsg /\ k <= Len(queue'[q]) BY MembersAfter
      <4>2. Len(queue'[q]) = 0 BY <1>1, <2>2, <4>1
      <4>. QED BY <4>1, <4>2
    <3>. QED BY <3>1, <3>2
  <2>. QED BY <2>1, <2>2
<1>. QED BY <1>3, <1>4, Members, MembersAfter

\* mq_receive moves the first result of a queue to the end of a sum.
LEMMA ReceivePlaces ==
  ASSUME TypeOK, LoopInv, NEW r \in Runs, Receive(r), NEW m
  PROVE  /\ qd[r] \in 1..Len(queue) /\ queue[qd[r]][1] \in Results
         /\ <<qd[r], 1>> \in Queued(m) <=> m = queue[qd[r]][1]
         /\ \A q, k : q # qd[r] => (<<q, k>> \in TakenIn(m, r) <=> <<q, k>> \in Queued(m))
         /\ \A k \in Nat \ {0} :
              <<qd[r], k>> \in TakenIn(m, r) <=> <<qd[r], k + 1>> \in Queued(m)
         /\ m = queue[qd[r]][1] =>
              Counted(m)' = Counted(m) \cup {<<r, Len(got[r]) + 1>>}
         /\ m # queue[qd[r]][1] => Counted(m)' = Counted(m)
<1>. DEFINE x == qd[r]
            h == queue[qd[r]][1]
            l == Len(queue[qd[r]])
            g == Len(got[r])
<1>1. /\ x \in 1..Len(queue) /\ l \in Nat \ {0} /\ Len(Taken(r)) = Len(queue)
      /\ \A q \in 1..Len(queue) : q # x => Taken(r)[q] = queue[q]
      /\ Len(Taken(r)[x]) = l - 1
      /\ \A k \in 1..(l - 1) : Taken(r)[x][k] = queue[x][k + 1]
      /\ h \in Results
  <2>1. /\ Len(Taken(r)[x]) = l - 1
        /\ \A k \in 1..Len(Taken(r)[x]) : Taken(r)[x][k] = queue[x][k + 1]
    BY Received
  <2>2. \A k \in 1..(l - 1) : Taken(r)[x][k] = queue[x][k + 1] BY <2>1
  <2>. QED BY <2>1, <2>2, Received
<1>2. l <= MaxMsg /\ MaxMsg \in Nat \ {0} BY <1>1, Numbers
<1>3. /\ \A s \in Runs : s # r => got'[s] = got[s]
      /\ Len(got'[r]) = g + 1
      /\ \A k \in 1..g : got'[r][k] = got[r][k]
      /\ got'[r][g + 1] = h
  BY Received
<1>4. g \in Nat /\ g + 1 \in 1..Procs /\ Procs \in Nat
  <2>1. pc[r] = "receive" BY DEF Receive, Loop, Goto
  <2>2. g = i[r] - 1 BY <2>1 DEF LoopInv
  <2>. QED BY <2>2, Numbers
<1>5. <<x, 1>> \in Queued(m) <=> m = h
  <2>1. 1 \in 1..MaxMsg /\ 1 <= l BY <1>1, <1>2
  <2>. QED BY <1>1, <2>1, Members
<1>6. ASSUME NEW q, NEW k, q # x
      PROVE  <<q, k>> \in TakenIn(m, r) <=> <<q, k>> \in Queued(m)
  BY <1>1, <1>6, Members, MembersTaken
<1>7. ASSUME NEW k \in Nat \ {0}
      PROVE  <<x, k>> \in TakenIn(m, r) <=> <<x, k + 1>> \in Queued(m)
  <2>1. <<x, k>> \in TakenIn(m, r) <=> /\ k \in 1..MaxMsg /\ k <= l - 1
                                       /\ Taken(r)[x][k] = m
    BY <1>1, MembersTaken
  <2>2. <<x, k + 1>> \in Queued(m) <=> /\ k + 1 \in 1..MaxMsg /\ k + 1 <= l
                                       /\ queue[x][k + 1] = m
    BY <1>1, Members
  <2>3. CASE k <= l - 1
    <3>1. k \in 1..MaxMsg /\ k + 1 \in 1..MaxMsg /\ k + 1 <= l /\ k \in 1..(l - 1)
      BY <1>1, <1>2, <2>3
    <3>2. Taken(r)[x][k] = queue[x][k + 1] BY <1>1, <3>1
    <3>. QED BY <2>1, <2>2, <2>3, <3>1, <3>2
  <2>4. CASE ~ (k <= l - 1)
    <3>1. ~ (k + 1 <= l) BY <1>1, <2>4
    <3>. QED BY <2>1, <2>2, <2>4, <3>1
  <2>. QED BY <2>3, <2>4
<1>8. ASSUME NEW s, NEW k
      PROVE  <<s, k>> \in Counted(m)' <=> \/ <<s, k>> \in Counted(m)
                                          \/ s = r /\ k = g + 1 /\ m = h
  <2>1. CASE s # r BY <2>1, <1>3, Members, MembersAfter
  <2>2. CASE s = r
    <3>1. <<r, k>> \in Counted(m) <=> k \in 1..Procs /\ k <= g /\ got[r][k] = m
      BY Members
    <3>2. <<r, k>> \in Counted(m)' <=> k \in 1..Procs /\ k <= g + 1 /\ got'[r][k] = m
      BY <1>3, MembersAfter
    <3>3. CASE k \in 1..g
      <4>1. k \in 1..Procs /\ k <= g /\ k <= g + 1 /\ k # g + 1 BY <1>4, <3>3
      <4>. QED BY <1>3, <2>2, <3>1, <3>2, <3>3, <4>1
    <3>4. CASE k = g + 1
      <4>1. ~ (k <= g) /\ k <= g + 1 BY <1>4, <3>4
      <4>. QED BY <1>3, <1>4, <2>2, <3>1, <3>2, <3>4, <4>1
    <3>5. CASE k \notin 1..g /\ k # g + 1
      <4>1. ~ (k \in 1..Procs /\ k <= g + 1) BY <1>4, <3>5
      <4>2. ~ (k \in 1..Procs /\ k <= g) BY <1>4, <3>5
      <4>. QED BY <2>2, <3>1, <3>2, <3>5, <4>1, <4>2
    <3>. QED BY <3>3, <3>4, <3>5
  <2>. QED BY <2>1, <2>2
<1>9. /\ \A p \in Counted(m) : p = <<p[1], p[2]>>
      /\ \A p \in Counted(m)' : p = <<p[1], p[2]>>
  BY Members, MembersAfter
<1>10. ASSUME m = h PROVE Counted(m)' = Counted(m) \cup {<<r, g + 1>>}
  <2>1. \A s, k : <<s, k>> \in Counted(m)' <=> <<s, k>> \in Counted(m) \/ (s = r /\ k = g + 1)
    <3>. SUFFICES ASSUME NEW s, NEW k
                  PROVE  <<s, k>> \in Counted(m)' <=> \/ <<s, k>> \in Counted(m)
                                                      \/ s = r /\ k = g + 1
      OBVIOUS
    <3>1. <<s, k>> \in Counted(m)' <=> \/ <<s, k>> \in Counted(m)
                                       \/ s = r /\ k = g + 1 /\ m = h
      BY <1>8
    <3>. QED BY <1>10, <3>1
  <2>. QED BY <1>9, <2>1, OneMore
<1>11. ASSUME m # h PROVE Counted(m)' = Counted(m)
  <2>1. \A s, k : <<s, k>> \in Counted(m)' <=> <<s, k>> \in Counted(m)
    BY <1>8, <1>11, Zenon
  <2>. QED BY <1>9, <2>1, Pairs, Zenon
<1>. QED BY <1>1, <1>5, <1>6, <1>7, <1>10, <1>11

\* mq_send puts the child's result at the end of a queue.
LEMMA SendPlaces ==
  ASSUME TypeOK, NEW r \in Runs, NEW c \in Children, Send(r, c), UNCHANGED got, NEW m
  PROVE  /\ Counted(m)' = Counted(m)
         /\ m # Result(r, c) => AddedIn(m, r, c) = Queued(m)
         /\ m = Result(r, c) =>
              AddedIn(m, r, c) = Queued(m) \cup {<<cqd[r][c], Len(queue[cqd[r][c]]) + 1>>}
<1>. DEFINE x == cqd[r][c]
            l == Len(queue[x])
<1>1. /\ x \in 1..Len(queue) /\ l \in Nat /\ l < MaxMsg /\ Len(Added(r, c)) = Len(queue)
      /\ \A q \in 1..Len(queue) : q # x => Added(r, c)[q] = queue[q]
      /\ Len(Added(r, c)[x]) = l + 1
      /\ \A k \in 1..l : Added(r, c)[x][k] = queue[x][k]
      /\ Added(r, c)[x][l + 1] = Result(r, c)
  BY Sent
<1>2. MaxMsg \in Nat BY Numbers
<1>3. Counted(m)' = Counted(m) BY DEF Counted
<1>4. ASSUME NEW q, NEW k
      PROVE  <<q, k>> \in AddedIn(m, r, c) <=> \/ <<q, k>> \in Queued(m)
                                               \/ q = x /\ k = l + 1 /\ m = Result(r, c)
  <2>1. CASE q # x BY <2>1, <1>1, Members, MembersAdded
  <2>2. CASE q = x
    <3>1. <<x, k>> \in Queued(m) <=> k \in 1..MaxMsg /\ k <= l /\ queue[x][k] = m
      BY <1>1, Members
    <3>2. <<x, k>> \in AddedIn(m, r, c) <=>
            k \in 1..MaxMsg /\ k <= l + 1 /\ Added(r, c)[x][k] = m
      BY <1>1, MembersAdded
    <3>3. CASE k \in 1..l
      <4>1. k <= l /\ k <= l + 1 /\ k # l + 1 BY <1>1, <3>3
      <4>. QED BY <1>1, <2>2, <3>1, <3>2, <3>3, <4>1
    <3>4. CASE k = l + 1
      <4>1. ~ (k <= l) /\ k <= l + 1 /\ k \in 1..MaxMsg BY <1>1, <1>2, <3>4
      <4>. QED BY <1>1, <2>2, <3>1, <3>2, <3>4, <4>1
    <3>5. CASE k \notin 1..l /\ k # l + 1
      <4>1. ~ (k \in 1..MaxMsg /\ k <= l + 1) BY <1>1, <3>5
      <4>2. ~ (k \in 1..MaxMsg /\ k <= l) BY <1>1, <3>5
      <4>. QED BY <2>2, <3>1, <3>2, <3>5, <4>1, <4>2
    <3>. QED BY <3>3, <3>4, <3>5
  <2>. QED BY <2>1, <2>2
<1>5. /\ \A p \in Queued(m) : p = <<p[1], p[2]>>
      /\ \A p \in AddedIn(m, r, c) : p = <<p[1], p[2]>>
  BY Members, MembersAdded
<1>6. ASSUME m = Result(r, c) PROVE AddedIn(m, r, c) = Queued(m) \cup {<<x, l + 1>>}
  <2>1. \A q, k : <<q, k>> \in AddedIn(m, r, c) <=>
                     <<q, k>> \in Queued(m) \/ (q = x /\ k = l + 1)
    <3>. SUFFICES ASSUME NEW q, NEW k
                  PROVE  <<q, k>> \in AddedIn(m, r, c) <=> \/ <<q, k>> \in Queued(m)
                                                           \/ q = x /\ k = l + 1
      OBVIOUS
    <3>1. <<q, k>> \in AddedIn(m, r, c) <=> \/ <<q, k>> \in Queued(m)
                                            \/ q = x /\ k = l + 1 /\ m = Result(r, c)
      BY <1>4
    <3>. QED BY <1>6, <3>1
  <2>. QED BY <1>5, <2>1, OneMore
<1>7. ASSUME m # Result(r, c) PROVE AddedIn(m, r, c) = Queued(m)
  <2>1. \A q, k : <<q, k>> \in AddedIn(m, r, c) <=> <<q, k>> \in Queued(m)
    BY <1>4, <1>7, Zenon
  <2>. QED BY <1>5, <2>1, Pairs, Zenon
<1>. QED BY <1>3, <1>6, <1>7

-----------------------------------------------------------------------------
\* The old queue

LEMMA StillThere == \A m : UNCHANGED queue => Queued(m)' = Queued(m)
BY DEF Queued

LEMMA StillCounted == \A m : UNCHANGED got => Counted(m)' = Counted(m)
BY DEF Counted

\* Destroying the queues that are not in use only takes results away.
LEMMA SweptPlaces ==
  ASSUME NEW s \in Seq(Seq(Results)), queue' = Left(s), NEW m
  PROVE  /\ \A p \in Queued(m)' : p \in QueuedIn(m, s)
         /\ \A p \in QueuedIn(m, s) : InUse(p[1])' => p \in Queued(m)'
<1>1. /\ queue' \in Seq(Seq(Results)) /\ Len(queue') = Len(s)
      /\ \A q \in 1..Len(s) : InUse(q)' => queue'[q] = s[q]
      /\ \A q \in 1..Len(s) : ~InUse(q)' => queue'[q] = <<>>
  BY Swept
<1>2. ASSUME NEW q, NEW k
      PROVE  /\ <<q, k>> \in Queued(m)' => <<q, k>> \in QueuedIn(m, s)
             /\ <<q, k>> \in QueuedIn(m, s) /\ InUse(q)' => <<q, k>> \in Queued(m)'
  <2>1. <<q, k>> \in Queued(m)' <=>
          q \in 1..Len(s) /\ k \in 1..MaxMsg /\ k <= Len(queue'[q]) /\ queue'[q][k] = m
    BY <1>1, MembersAfter
  <2>2. <<q, k>> \in QueuedIn(m, s) <=>
          q \in 1..Len(s) /\ k \in 1..MaxMsg /\ k <= Len(s[q]) /\ s[q][k] = m
    BY MembersIn
  <2>3. CASE InUse(q)' BY <1>1, <2>1, <2>2, <2>3
  <2>4. CASE ~InUse(q)'
    <3>1. ASSUME <<q, k>> \in Queued(m)' PROVE FALSE
      <4>1. q \in 1..Len(s) /\ k \in 1..MaxMsg /\ k <= Len(queue'[q]) BY <2>1, <3>1
      <4>2. Len(queue'[q]) = 0 BY <1>1, <2>4, <4>1
      <4>. QED BY <4>1, <4>2, MaxMsgAssumption
    <3>. QED BY <2>4, <3>1
  <2>. QED BY <2>3, <2>4
<1>3. ASSUME NEW p \in Queued(m)' PROVE p \in QueuedIn(m, s)
  <2>1. p = <<p[1], p[2]>> BY MembersAfter
  <2>. QED BY <1>2, <2>1, Zenon
<1>4. ASSUME NEW p \in QueuedIn(m, s), InUse(p[1])' PROVE p \in Queued(m)'
  <2>1. p = <<p[1], p[2]>> BY MembersIn
  <2>2. <<p[1], p[2]>> \in QueuedIn(m, s) BY <2>1, Zenon
  <2>3. <<p[1], p[2]>> \in Queued(m)' BY <1>2, <1>4, <2>2, Zenon
  <2>. QED BY <2>1, <2>3, Zenon
<1>. QED BY <1>3, <1>4

LEMMA InQueue ==
  ASSUME NEW m
  PROVE  QueuedIn(m, queue) = Queued(m) /\ (UNCHANGED queue => Queued(m)' = Queued(m))
BY DEF QueuedIn, Queued

LEMMA StaleParent ==
  ASSUME TypeOK, LoopInv, StaleInv, NEW r \in Runs, Parent(r)
  PROVE  StaleInv'
<1>1. Len(queue) \in Nat /\ Len(queue) >= 1 BY Numbers DEF StaleInv
<1>2. pc[r] # "unlink" => name # 1 BY ParentMoves DEF StaleInv
<1>3. Open(r) => /\ Len(queue') \in Nat /\ Len(queue) <= Len(queue')
                 /\ (name' = name \/ name' = Len(queue) + 1)
  BY Created
<1>4. Len(queue') >= 1
  <2>1. Len(queue') \in Nat /\ Len(queue) <= Len(queue') BY QueueParent DEF QueuesFit
  <2>. QED BY <1>1, <2>1
<1>5. name' # 1 \/ name' = name
  <2>1. Len(queue) + 1 # 1 BY <1>1
  <2>2. NoQueue # 1 BY DEF NoQueue
  <2>. QED BY <2>1, <2>2, <1>3, ParentMoves
<1>6. \A s \in Runs : pc'[s] \notin {"not run", "unlink"} => name' # 1
  <2>1. CASE pc[r] = "unlink"
    <3>1. name' = NoQueue BY <2>1, ParentMoves
    <3>2. NoQueue # 1 BY DEF NoQueue
    <3>. QED BY <3>1, <3>2, Zenon
  <2>2. CASE pc[r] # "unlink"
    <3>1. name # 1 BY <1>2, <2>2
    <3>. QED BY <3>1, <1>5
  <2>. QED BY <2>1, <2>2
<1>7. \A s \in Runs : qd'[s] # 1 /\ \A c \in Children : cqd'[s][c] # 1
  <2>1. \A s \in Runs : qd[s] # 1 /\ \A c \in Children : cqd[s][c] # 1 BY DEF StaleInv
  <2>2. qd'[r] # 1
    <3>1. qd'[r] = qd[r] \/ qd'[r] = name' BY ParentMoves
    <3>2. name' # 1
      <4>1. pc'[r] \notin {"not run", "unlink"} BY ParentMoves
      <4>. QED BY <1>6, <4>1
    <3>. QED BY <2>1, <3>1, <3>2
  <2>3. cqd' = cqd /\ \A s \in Runs : s # r => qd'[s] = qd[s] BY ParentMoves
  <2>. QED BY <2>1, <2>2, <2>3
<1>8. ASSUME NEW m \in Results, m.run = Earlier
      PROVE  (\A p \in Queued(m)' : p[1] = 1) /\ Counted(m)' = {}
  <2>1. (\A p \in Queued(m) : p[1] = 1) /\ Counted(m) = {} BY <1>8 DEF StaleInv
  <2>2. CASE Open(r) BY <2>1, <2>2, OpenPlaces
  <2>3. CASE Receive(r)
    <3>. DEFINE x == qd[r]
                h == queue[qd[r]][1]
    <3>1. x # 1 BY DEF StaleInv
    <3>2. /\ <<x, 1>> \in Queued(m) <=> m = h
          /\ \A q, k : q # x => (<<q, k>> \in TakenIn(m, r) <=> <<q, k>> \in Queued(m))
          /\ \A k \in Nat \ {0} : <<x, k>> \in TakenIn(m, r) <=> <<x, k + 1>> \in Queued(m)
          /\ m # h => Counted(m)' = Counted(m)
      BY <2>3, ReceivePlaces
    <3>3. \A q, k : <<q, k>> \in Queued(m) => q = 1
      <4>. SUFFICES ASSUME NEW q, NEW k, <<q, k>> \in Queued(m) PROVE q = 1 OBVIOUS
      <4>1. <<q, k>>[1] = 1 BY <2>1
      <4>. QED BY <4>1
    <3>4. m # h BY <3>1, <3>2, <3>3
    <3>5. \A q, k : <<q, k>> \in TakenIn(m, r) => q = 1
      <4>. SUFFICES ASSUME NEW q, NEW k, <<q, k>> \in TakenIn(m, r) PROVE q = 1 OBVIOUS
      <4>1. CASE q # x BY <4>1, <3>2, <3>3
      <4>2. CASE q = x
        <5>1. k \in Nat \ {0}
          <6>1. k \in 1..MaxMsg BY MembersTaken
          <6>. QED BY <6>1, Numbers
        <5>2. <<x, k + 1>> \in Queued(m) BY <4>2, <5>1, <3>2
        <5>. QED BY <5>2, <4>2, <3>3
      <4>. QED BY <4>1, <4>2
    <3>6. \A p \in TakenIn(m, r) : p[1] = 1
      <4>. SUFFICES ASSUME NEW p \in TakenIn(m, r) PROVE p[1] = 1 OBVIOUS
      <4>1. p = <<p[1], p[2]>> BY MembersTaken
      <4>2. <<p[1], p[2]>> \in TakenIn(m, r) BY <4>1, Zenon
      <4>. QED BY <4>2, <3>5
    <3>7. \A p \in Queued(m)' : p \in TakenIn(m, r)
      <4>1. Taken(r) \in Seq(Seq(Results)) /\ queue' = Left(Taken(r)) BY <2>3, Received
      <4>. QED BY <4>1, SweptPlaces DEF TakenIn
    <3>. QED BY <2>1, <3>2, <3>4, <3>6, <3>7
  <2>4. CASE ~Open(r) /\ ~Receive(r)
    <3>1. got' = got BY <2>4 DEF Parent, Unlink, Fork, OpenFails, Poll
    <3>2. queue \in Seq(Seq(Results)) BY DEF TypeOK
    <3>3. queue' = Left(queue) \/ queue' = queue BY <2>4, ParentKinds
    <3>4. \A p \in Queued(m)' : p \in Queued(m) BY <3>2, <3>3, SweptPlaces, InQueue
    <3>. QED BY <2>1, <3>1, <3>4, StillCounted
  <2>. QED BY <2>2, <2>3, <2>4
<1>. QED BY <1>4, <1>6, <1>7, <1>8 DEF StaleInv

LEMMA StaleChild ==
  ASSUME TypeOK, LoopInv, StaleInv, NEW r \in Runs, NEW c \in Children, Child(r, c)
  PROVE  StaleInv'
<1>1. UNCHANGED <<name, pc, qd, got>> BY DEF Child, parentVars
<1>2. Len(queue') >= 1
  <2>1. Len(queue') = Len(queue) BY QueueChild DEF QueuesFit
  <2>. QED BY <2>1 DEF StaleInv
<1>3. \A s \in Runs : \A d \in Children : cqd'[s][d] # 1
  <2>1. \A s \in Runs : \A d \in Children : cqd[s][d] # 1 BY DEF StaleInv
  <2>2. CASE ChildOpen(r, c)
    <3>1. cpc[r][c] = "open" /\ cqd' = [cqd EXCEPT ![r][c] = name]
      BY <2>2 DEF ChildOpen, ChildGoto
    <3>2. pc[r] \notin {"not run", "unlink"} BY <3>1 DEF LoopInv
    <3>3. name # 1 BY <3>2 DEF StaleInv
    <3>4. cqd \in [Runs -> [Children -> 0..Len(queue)]] BY DEF TypeOK
    <3>5. \A s \in Runs : \A d \in Children : cqd'[s][d] = cqd[s][d] \/ cqd'[s][d] = name
      BY <3>1, <3>4
    <3>. QED BY <2>1, <3>3, <3>5
  <2>3. CASE ~ChildOpen(r, c)
    <3>1. cqd' = cqd BY <2>3 DEF Child, ChildOpenFails, Send
    <3>. QED BY <2>1, <3>1
  <2>. QED BY <2>2, <2>3
<1>4. ASSUME NEW m \in Results, m.run = Earlier
      PROVE  (\A p \in Queued(m)' : p[1] = 1) /\ Counted(m)' = {}
  <2>1. (\A p \in Queued(m) : p[1] = 1) /\ Counted(m) = {} BY <1>4 DEF StaleInv
  <2>2. CASE Send(r, c)
    <3>1. m # Result(r, c)
      <4>1. Result(r, c).run = r BY DEF Result
      <4>. QED BY <1>4, <4>1, EarlierAssumption
    <3>2. AddedIn(m, r, c) = Queued(m) /\ Counted(m)' = Counted(m)
      BY <1>1, <2>2, <3>1, SendPlaces
    <3>3. Added(r, c) \in Seq(Seq(Results)) /\ queue' = Left(Added(r, c)) BY <2>2, Sent
    <3>4. \A p \in Queued(m)' : p \in AddedIn(m, r, c) BY <3>3, SweptPlaces DEF AddedIn
    <3>. QED BY <2>1, <3>2, <3>4
  <2>3. CASE ~Send(r, c)
    <3>1. queue \in Seq(Seq(Results)) BY DEF TypeOK
    <3>2. queue' = Left(queue) \/ queue' = queue BY <2>3, ChildKinds
    <3>3. \A p \in Queued(m)' : p \in Queued(m) BY <3>1, <3>2, SweptPlaces, InQueue
    <3>. QED BY <2>1, <1>1, <3>3, StillCounted
  <2>. QED BY <2>2, <2>3
<1>. QED BY <1>1, <1>2, <1>3, <1>4 DEF StaleInv

-----------------------------------------------------------------------------
\* The queues the processes have open

\* What QueuesInv says of the processes of one run, and of the queues.
OpenOf(r) == /\ pc[r] \in {"poll", "receive"} => qd[r] \in fds[r][0]
             /\ \A c \in Children :
                  /\ cpc[r][c] = "send" => cqd[r][c] \in fds[r][c]
                  /\ cpc[r][c] = "none" => cqd[r][c] = NoQueue /\ fds[r][c] = {}
                  /\ cqd[r][c] \in {NoQueue, name} \/ Disturbed(r)
Emptied == \A q \in 1..Len(queue) : InUse(q) \/ queue[q] = <<>>

LEMMA QueuesAre ==
  /\ QueuesInv <=> (\A r \in Runs : OpenOf(r)) /\ Emptied
  /\ QueuesInv' <=> (\A r \in Runs : OpenOf(r)') /\ Emptied'
BY DEF QueuesInv, OpenOf, Emptied

LEMMA SweptEmptied ==
  ASSUME NEW s \in Seq(Seq(Results)), queue' = Left(s)
  PROVE  Emptied'
<1>1. Len(queue') = Len(s) /\ \A q \in 1..Len(s) : ~InUse(q)' => queue'[q] = <<>> BY Swept
<1>2. \A q \in 1..Len(queue') : InUse(q)' \/ queue'[q] = <<>> BY <1>1
<1>. QED BY <1>2 DEF Emptied

LEMMA EmptiedParent ==
  ASSUME TypeOK, LoopInv, QueuesInv, NEW r \in Runs, Parent(r)
  PROVE  Emptied'
<1>1. queue \in Seq(Seq(Results)) BY DEF TypeOK
<1>2. CASE queue' = Left(queue) BY <1>1, <1>2, SweptEmptied
<1>3. CASE Receive(r) BY <1>3, Received, SweptEmptied
<1>4. CASE Fork(r) \/ Open(r) \/ Poll(r)
  <2>1. \A q \in 1..Len(queue) : InUse(q) => InUse(q)' BY <1>4, GrowParent
  <2>2. \A q \in 1..Len(queue) : InUse(q) \/ queue[q] = <<>> BY DEF QueuesInv
  <2>3. Fork(r) \/ Poll(r) => queue' = queue BY DEF Fork, Poll
  <2>4. Open(r) => /\ \A q \in 1..Len(queue) : queue'[q] = queue[q]
                   /\ \A q \in 1..Len(queue') : q \in 1..Len(queue) \/ queue'[q] = <<>>
    BY Created
  <2>5. \A q \in 1..Len(queue') : InUse(q)' \/ queue'[q] = <<>> BY <1>4, <2>1, <2>2, <2>3, <2>4
  <2>. QED BY <2>5 DEF Emptied
<1>. QED BY <1>2, <1>3, <1>4, ParentKinds

LEMMA EmptiedChild ==
  ASSUME TypeOK, QueuesInv, NEW r \in Runs, NEW c \in Children, Child(r, c)
  PROVE  Emptied'
<1>1. queue \in Seq(Seq(Results)) BY DEF TypeOK
<1>2. CASE queue' = Left(queue) BY <1>1, <1>2, SweptEmptied
<1>3. CASE Send(r, c) BY <1>3, Sent, SweptEmptied
<1>4. CASE queue' = queue /\ ChildOpen(r, c)
  <2>1. \A q : InUse(q) => InUse(q)' BY <1>4, GrowChild
  <2>2. \A q \in 1..Len(queue) : InUse(q) \/ queue[q] = <<>> BY DEF QueuesInv
  <2>3. \A q \in 1..Len(queue') : InUse(q)' \/ queue'[q] = <<>> BY <1>4, <2>1, <2>2
  <2>. QED BY <2>3 DEF Emptied
<1>. QED BY <1>2, <1>3, <1>4, ChildKinds

\* A run that was disturbed stays so, and a run that unlinks the name disturbs all others.
LEMMA DisturbedParent ==
  ASSUME TypeOK, NEW r \in Runs, Parent(r), NEW s \in Runs
  PROVE  /\ Disturbed(s) => Disturbed(s)'
         /\ s # r => Disturbed(s)'
<1>1. /\ pc[r] # "not run" /\ pc'[r] \notin {"not run", "unlink"}
      /\ \A u \in Runs : u # r => pc'[u] = pc[u]
  BY ParentMoves
<1>2. s # r => Disturbed(s)' BY <1>1 DEF Disturbed
<1>3. ASSUME Disturbed(s) PROVE Disturbed(s)'
  <2>1. PICK u \in Runs \ {s} : pc[u] \notin {"not run", "unlink"} BY <1>3 DEF Disturbed
  <2>2. pc'[u] \notin {"not run", "unlink"} BY <1>1, <2>1
  <2>. QED BY <2>1, <2>2 DEF Disturbed
<1>. QED BY <1>2, <1>3

\* The children during a step of their parents.
LEMMA KidsParent ==
  ASSUME TypeOK, NEW r \in Runs, Parent(r), NEW s \in Runs, NEW c \in Children
  PROVE  \/ cpc'[s][c] = cpc[s][c] /\ fds'[s][c] = fds[s][c]
         \/ Fork(r) /\ s = r /\ c = i[r] /\ cpc'[s][c] \in {"open", "failed"}
<1>1. c \in 0..Procs /\ c # 0 /\ 0 \in 0..Procs /\ i[r] \in 0..Procs BY Processes
<1>2. CASE Fork(r) /\ s = r /\ c = i[r] BY <1>2, Forked
<1>3. CASE ~(Fork(r) /\ s = r /\ c = i[r])
  <2>1. cpc'[s][c] = cpc[s][c]
    <3>1. CASE Fork(r) BY <1>3, <3>1, Forked
    <3>2. CASE ~Fork(r)
      <4>1. cpc' = cpc
        BY <3>2 DEF Parent, Unlink, Open, OpenFails, Poll, Receive, childVars
      <4>. QED BY <4>1
    <3>. QED BY <3>1, <3>2
  <2>2. fds'[s][c] = fds[s][c]
    <3>1. CASE fds' = fds BY <3>1
    <3>2. CASE Fork(r) /\ FdsGo(r, i[r], fds[r][0]) BY <1>1, <1>3, <3>2 DEF FdsGo
    <3>3. CASE FdsGo(r, 0, fds[r][0] \cup {name'}) BY <1>1, <3>3 DEF FdsGo
    <3>4. CASE FdsGo(r, 0, {}) BY <1>1, <3>4 DEF FdsGo
    <3>. QED BY <3>1, <3>2, <3>3, <3>4, FdsParent
  <2>. QED BY <2>1, <2>2
<1>. QED BY <1>2, <1>3

\* A parent that waits at a queue has it open.
LEMMA WaitsParent ==
  ASSUME TypeOK, QueuesInv, NEW r \in Runs, Parent(r), NEW s \in Runs,
         pc'[s] \in {"poll", "receive"}
  PROVE  qd'[s] \in fds'[s][0]
<1>1. 0 \in 0..Procs /\ 0 # i[r] /\ i[r] \in 0..Procs BY Processes
<1>2. CASE s # r
  <2>1. pc'[s] = pc[s] /\ qd'[s] = qd[s] BY <1>2, ParentMoves
  <2>2. fds'[s][0] = fds[s][0] BY <1>1, <1>2, FdsParent DEF FdsGo
  <2>3. qd[s] \in fds[s][0] BY <2>1 DEF QueuesInv
  <2>. QED BY <2>1, <2>2, <2>3
<1>3. CASE s = r
  <2>0. "fork" \in ParentPlaces /\ "open" \in ParentPlaces /\ "exited" \in ParentPlaces
    BY DEF ParentPlaces
  <2>1. ~Unlink(r) /\ ~Fork(r) /\ ~OpenFails(r)
    <3>1. /\ Unlink(r) => Goto(r, "unlink", "fork")
          /\ Fork(r) => Goto(r, "fork", "open")
          /\ OpenFails(r) => Goto(r, "open", "exited")
      BY DEF Unlink, Fork, OpenFails
    <3>2. /\ Goto(r, "unlink", "fork") => pc'[r] = "fork"
          /\ Goto(r, "fork", "open") => pc'[r] = "open"
          /\ Goto(r, "open", "exited") => pc'[r] = "exited"
      BY <2>0, Went
    <3>. QED BY <1>3, <3>1, <3>2
  <2>2. CASE Open(r)
    <3>1. ~Receive(r) /\ ~Poll(r)
      <4>1. pc[r] = "open" BY <2>2, Rounds DEF Round
      <4>. QED BY <4>1 DEF Receive, Loop, Poll, Goto
    <3>2. FdsGo(r, 0, fds[r][0] \cup {name'}) BY <2>1, <3>1, FdsParent
    <3>3. qd'[r] = name'
      <4>1. qd \in [Runs -> 0..Len(queue)] /\ qd' = [qd EXCEPT ![r] = name']
        BY <2>2 DEF TypeOK, Open
      <4>. QED BY <4>1
    <3>. QED BY <1>3, <3>2, <3>3 DEF FdsGo
  <2>3. CASE Poll(r) \/ Receive(r)
    <3>1. pc[r] \in {"poll", "receive"} /\ qd' = qd BY <2>3 DEF Poll, Receive, Loop, Goto
    <3>2. Receive(r) => i[r] < Procs
      <4>1. Receive(r) => Round(r, "receive", "poll", "done") BY Rounds
      <4>2. Receive(r) /\ i[r] = Procs => pc'[r] = "done"
        <5>1. i[r] = Procs => ~(i[r] < Procs) BY Numbers
        <5>. QED BY <4>1, <5>1 DEF Round
      <4>3. Receive(r) => i[r] < Procs \/ i[r] = Procs BY <4>1 DEF Round
      <4>. QED BY <1>3, <4>2, <4>3
    <3>3. ~Open(r)
      <4>1. Open(r) => pc[r] = "open" BY Rounds DEF Round
      <4>. QED BY <3>1, <4>1
    <3>4. fds' = fds BY <2>1, <3>2, <3>3, FdsParent
    <3>5. qd[r] \in fds[r][0] BY <3>1 DEF QueuesInv
    <3>. QED BY <1>3, <3>1, <3>4, <3>5
  <2>. QED BY <2>1, <2>2, <2>3 DEF Parent
<1>. QED BY <1>2, <1>3

LEMMA QueuesParent ==
  ASSUME TypeOK, LoopInv, QueuesInv, NEW r \in Runs, Parent(r)
  PROVE  QueuesInv'
<1>1. Emptied' BY EmptiedParent
<1>2. ASSUME NEW s \in Runs PROVE OpenOf(s)'
  <2>1. pc'[s] \in {"poll", "receive"} => qd'[s] \in fds'[s][0] BY WaitsParent
  <2>2. cqd' = cqd BY ParentMoves
  <2>3. ASSUME NEW c \in Children
        PROVE  /\ cpc'[s][c] = "send" => cqd'[s][c] \in fds'[s][c]
               /\ cpc'[s][c] = "none" => cqd'[s][c] = NoQueue /\ fds'[s][c] = {}
    <3>1. CASE cpc'[s][c] = cpc[s][c] /\ fds'[s][c] = fds[s][c]
      BY <2>2, <3>1 DEF QueuesInv
    <3>2. CASE cpc'[s][c] \in {"open", "failed"} BY <3>2
    <3>. QED BY <3>1, <3>2, KidsParent
  <2>4. ASSUME NEW c \in Children PROVE cqd'[s][c] \in {NoQueue, name'} \/ Disturbed(s)'
    <3>1. cqd[s][c] \in {NoQueue, name} \/ Disturbed(s) BY DEF QueuesInv
    <3>2. CASE Disturbed(s) \/ s # r BY <3>2, DisturbedParent
    <3>3. CASE cqd[s][c] \in {NoQueue, name} /\ s = r
      <4>1. CASE pc[r] = "unlink"
        <5>1. cpc[r][c] = "none" BY <4>1 DEF LoopInv
        <5>2. cqd[r][c] = NoQueue BY <5>1 DEF QueuesInv
        <5>. QED BY <2>2, <3>3, <5>2
      <4>2. CASE pc[r] # "unlink"
        <5>1. name' = name \/ (name = NoQueue)
          <6>1. name' = name \/ Open(r) BY <4>2, ParentMoves
          <6>. QED BY <6>1, Created
        <5>. QED BY <2>2, <3>3, <5>1
      <4>. QED BY <4>1, <4>2
    <3>. QED BY <3>1, <3>2, <3>3
  <2>. QED BY <2>1, <2>3, <2>4 DEF OpenOf
<1>. QED BY <1>1, <1>2, QueuesAre

LEMMA QueuesChild ==
  ASSUME TypeOK, QueuesInv, NEW r \in Runs, NEW c \in Children, Child(r, c)
  PROVE  QueuesInv'
<1>1. Emptied' BY EmptiedChild
<1>2. UNCHANGED <<name, pc, qd>> BY DEF Child, parentVars
<1>3. c \in 0..Procs /\ c # 0 /\ 0 \in 0..Procs /\ \A d \in Children : d \in 0..Procs
  BY Processes
<1>4. \A s \in Runs : \A o \in 0..Procs : s # r \/ o # c => fds'[s][o] = fds[s][o]
  BY FdsChild DEF FdsGo
<1>5. \A s \in Runs : \A d \in Children : s # r \/ d # c => cpc'[s][d] = cpc[s][d]
  BY ChildStep
<1>6. /\ \A s \in Runs : \A d \in Children : s # r \/ d # c => cqd'[s][d] = cqd[s][d]
      /\ cqd'[r][c] = cqd[r][c] \/ cqd'[r][c] = name
      /\ ChildOpen(r, c) => cqd'[r][c] = name
  <2>1. cqd \in [Runs -> [Children -> 0..Len(queue)]] BY DEF TypeOK
  <2>2. CASE ChildOpen(r, c)
    <3>1. cqd' = [cqd EXCEPT ![r][c] = name] BY <2>2 DEF ChildOpen
    <3>. QED BY <2>1, <3>1
  <2>3. CASE ~ChildOpen(r, c)
    <3>1. cqd' = cqd BY <2>3 DEF Child, ChildOpenFails, Send
    <3>. QED BY <2>3, <3>1
  <2>. QED BY <2>2, <2>3
<1>7. /\ cpc'[r][c] \in {"send", "sent", "exited"}
      /\ cpc'[r][c] = "send" => ChildOpen(r, c) /\ cqd'[r][c] \in fds'[r][c]
  <2>1. /\ cpc'[r][c] \in {"send", "sent", "exited"}
        /\ cpc'[r][c] = "send" => ChildOpen(r, c) /\ ~ChildOpenFails(r, c) /\ ~Send(r, c)
    BY ChildStep DEF Child
  <2>2. cpc'[r][c] = "send" => FdsGo(r, c, fds[r][c] \cup {name}) BY <2>1, FdsChild
  <2>3. cpc'[r][c] = "send" => name \in fds'[r][c] BY <2>2 DEF FdsGo
  <2>. QED BY <1>6, <2>1, <2>3
<1>8. ASSUME NEW s \in Runs PROVE OpenOf(s)'
  <2>1. pc'[s] \in {"poll", "receive"} => qd'[s] \in fds'[s][0]
    <3>1. fds'[s][0] = fds[s][0] BY <1>3, <1>4
    <3>. QED BY <1>2, <3>1 DEF QueuesInv
  <2>2. Disturbed(s)' <=> Disturbed(s) BY <1>2 DEF Disturbed
  <2>3. ASSUME NEW d \in Children
        PROVE  /\ cpc'[s][d] = "send" => cqd'[s][d] \in fds'[s][d]
               /\ cpc'[s][d] = "none" => cqd'[s][d] = NoQueue /\ fds'[s][d] = {}
               /\ cqd'[s][d] \in {NoQueue, name'} \/ Disturbed(s)'
    <3>1. cqd[s][d] \in {NoQueue, name} \/ Disturbed(s) BY DEF QueuesInv
    <3>2. CASE s = r /\ d = c
      <4>1. cqd'[s][d] \in {NoQueue, name'} \/ Disturbed(s)' BY <1>2, <1>6, <2>2, <3>1, <3>2
      <4>2. cpc'[s][d] # "none" BY <1>7, <3>2
      <4>. QED BY <1>7, <3>2, <4>1, <4>2
    <3>3. CASE s # r \/ d # c
      <4>1. /\ cpc'[s][d] = cpc[s][d] /\ cqd'[s][d] = cqd[s][d]
            /\ fds'[s][d] = fds[s][d]
        BY <1>3, <1>4, <1>5, <1>6, <3>3
      <4>. QED BY <1>2, <2>2, <3>1, <4>1 DEF QueuesInv
    <3>. QED BY <3>2, <3>3
  <2>. QED BY <2>1, <2>3 DEF OpenOf
<1>. QED BY <1>1, <1>8, QueuesAre

-----------------------------------------------------------------------------
\* Each result in one place

\* Of a result in the places A of the queues and B of the sums: it is somewhere; it is
\* in one place, and if that is a queue then in queue x.
Placed(A, B) == A # {} \/ B # {}
AtOnce(A, B) == /\ A = {} \/ B = {}
                /\ \A p, o \in A : p = o
                /\ \A p, o \in B : p = o
InOnly(A, x) == \A p \in A : p[1] = x

\* What PlacesInv says of one result, which is in A and B.
PlaceOf(A, B, sent, x) == /\ Placed(A, B) => sent
                          /\ AtOnce(A, B) /\ InOnly(A, x)

LEMMA PlacesAre ==
  PlacesInv <=> \A r \in Runs : \A c \in Children :
     LET m == Result(r, c)
     IN /\ PlaceOf(Queued(m), Counted(m), cpc[r][c] = "sent", cqd[r][c])
        /\ cpc[r][c] = "sent" => Placed(Queued(m), Counted(m)) \/ ~InUse(cqd[r][c])
BY ZenonT(30) DEF PlacesInv, PlaceOf, Placed, AtOnce, InOnly

LEMMA PlacesAreAfter ==
  PlacesInv' <=> \A r \in Runs : \A c \in Children :
     LET m == Result(r, c)
     IN /\ PlaceOf(Queued(m)', Counted(m)', cpc'[r][c] = "sent", cqd'[r][c])
        /\ cpc'[r][c] = "sent" => Placed(Queued(m)', Counted(m)') \/ ~InUse(cqd[r][c])'
BY ZenonT(30) DEF PlacesInv, PlaceOf, Placed, AtOnce, InOnly, Result

\* Destroying queues keeps a result in one place, or destroys it with its queue.
LEMMA SweptKeeps ==
  ASSUME NEW s \in Seq(Seq(Results)), queue' = Left(s), NEW m, NEW B, NEW x,
         AtOnce(QueuedIn(m, s), B), InOnly(QueuedIn(m, s), x)
  PROVE  /\ AtOnce(Queued(m)', B) /\ InOnly(Queued(m)', x)
         /\ Placed(Queued(m)', B) => Placed(QueuedIn(m, s), B)
         /\ InUse(x)' /\ Placed(QueuedIn(m, s), B) => Placed(Queued(m)', B)
<1>1. /\ \A p \in Queued(m)' : p \in QueuedIn(m, s)
      /\ \A p \in QueuedIn(m, s) : InUse(p[1])' => p \in Queued(m)'
  BY SweptPlaces
<1>2. ASSUME InUse(x)', NEW p \in QueuedIn(m, s) PROVE p \in Queued(m)'
  <2>1. p[1] = x BY <1>2 DEF InOnly
  <2>2. InUse(p[1])' BY <1>2, <2>1
  <2>. QED BY <1>1, <1>2, <2>2
<1>. QED BY <1>1, <1>2 DEF AtOnce, InOnly, Placed

\* Receiving takes a result out of the queue and into the sum in one step.
LEMMA ReceiveKeeps ==
  ASSUME TypeOK, LoopInv, NEW r \in Runs, Receive(r), NEW m, AtOnce(Queued(m), Counted(m)),
         NEW z, InOnly(Queued(m), z)
  PROVE  /\ AtOnce(TakenIn(m, r), Counted(m)') /\ InOnly(TakenIn(m, r), z)
         /\ Placed(TakenIn(m, r), Counted(m)') <=> Placed(Queued(m), Counted(m))
<1>. DEFINE x == qd[r]
            h == queue[qd[r]][1]
            g == Len(got[r])
<1>1. /\ <<x, 1>> \in Queued(m) <=> m = h
      /\ \A q, k : q # x => (<<q, k>> \in TakenIn(m, r) <=> <<q, k>> \in Queued(m))
      /\ \A k \in Nat \ {0} : <<x, k>> \in TakenIn(m, r) <=> <<x, k + 1>> \in Queued(m)
      /\ m = h => Counted(m)' = Counted(m) \cup {<<r, g + 1>>}
      /\ m # h => Counted(m)' = Counted(m)
  BY ReceivePlaces
<1>2. \A q, k : <<q, k>> \in Queued(m) \/ <<q, k>> \in TakenIn(m, r) => k \in Nat \ {0}
  <2>1. \A k \in 1..MaxMsg : k \in Nat \ {0} BY Numbers
  <2>. QED BY <2>1, Members, MembersTaken
<1>3. /\ \A p \in Queued(m) : p = <<p[1], p[2]>>
      /\ \A p \in TakenIn(m, r) : p = <<p[1], p[2]>>
  BY Members, MembersTaken
<1>4. \A q, k, p, j : <<q, k>> \in Queued(m) /\ <<p, j>> \in Queued(m) => q = p /\ k = j
  <2>. SUFFICES ASSUME NEW q, NEW k, NEW p, NEW j, <<q, k>> \in Queued(m), <<p, j>> \in Queued(m)
                PROVE  q = p /\ k = j
    OBVIOUS
  <2>1. <<q, k>> = <<p, j>> BY Zenon DEF AtOnce
  <2>. QED BY <2>1
<1>5. CASE m = h
  <2>1. <<x, 1>> \in Queued(m) BY <1>1, <1>5
  <2>2. Counted(m) = {} BY <2>1 DEF AtOnce
  <2>3. Counted(m)' = {<<r, g + 1>>} BY <1>1, <1>5, <2>2
  <2>4. TakenIn(m, r) = {}
    <3>. SUFFICES ASSUME NEW o \in TakenIn(m, r) PROVE FALSE OBVIOUS
    <3>1. PICK q, k : o = <<q, k>> BY <1>3, Zenon
    <3>2. k \in Nat \ {0} /\ <<q, k>> \in TakenIn(m, r) BY <1>2, <3>1
    <3>3. CASE q # x
      <4>1. <<q, k>> \in Queued(m) BY <1>1, <3>2, <3>3
      <4>. QED BY <4>1, <2>1, <1>4, <3>3
    <3>4. CASE q = x
      <4>1. <<x, k + 1>> \in Queued(m) BY <1>1, <3>2, <3>4
      <4>2. k + 1 = 1 BY <4>1, <2>1, <1>4
      <4>. QED BY <4>2, <3>2
    <3>. QED BY <3>3, <3>4
  <2>5. Placed(Queued(m), Counted(m)) /\ Placed(TakenIn(m, r), Counted(m)')
    BY <2>1, <2>3 DEF Placed
  <2>6. AtOnce(TakenIn(m, r), Counted(m)') /\ InOnly(TakenIn(m, r), z)
    BY <2>3, <2>4 DEF AtOnce, InOnly
  <2>. QED BY <2>5, <2>6
<1>6. CASE m # h
  <2>1. Counted(m)' = Counted(m) BY <1>1, <1>6
  <2>2. ~ (<<x, 1>> \in Queued(m)) BY <1>1, <1>6
  <2>3. \A q, k, p, j : <<q, k>> \in TakenIn(m, r) /\ <<p, j>> \in TakenIn(m, r) => q = p /\ k = j
    <3>. SUFFICES ASSUME NEW q, NEW k, NEW p, NEW j,
                         <<q, k>> \in TakenIn(m, r), <<p, j>> \in TakenIn(m, r)
                  PROVE  q = p /\ k = j
      OBVIOUS
    <3>1. k \in Nat \ {0} /\ j \in Nat \ {0} BY <1>2
    <3>2. /\ IF q = x THEN <<x, k + 1>> \in Queued(m) ELSE <<q, k>> \in Queued(m)
          /\ IF p = x THEN <<x, j + 1>> \in Queued(m) ELSE <<p, j>> \in Queued(m)
      BY <1>1, <3>1
    <3>3. CASE q = x /\ p = x
      <4>1. k + 1 = j + 1 BY <3>2, <3>3, <1>4
      <4>. QED BY <4>1, <3>1, <3>3
    <3>4. CASE q # x \/ p # x BY <3>2, <3>4, <1>4
    <3>. QED BY <3>3, <3>4
  <2>4. \A p, o \in TakenIn(m, r) : p = o
    <3>. SUFFICES ASSUME NEW p \in TakenIn(m, r), NEW o \in TakenIn(m, r) PROVE p = o OBVIOUS
    <3>1. p = <<p[1], p[2]>> /\ o = <<o[1], o[2]>> BY <1>3, Zenon
    <3>2. <<p[1], p[2]>> \in TakenIn(m, r) /\ <<o[1], o[2]>> \in TakenIn(m, r) BY <3>1, Zenon
    <3>3. p[1] = o[1] /\ p[2] = o[2] BY <3>2, <2>3, Zenon
    <3>. QED BY <3>1, <3>3, Zenon
  <2>5. TakenIn(m, r) # {} <=> Queued(m) # {}
    <3>1. ASSUME NEW o \in TakenIn(m, r) PROVE Queued(m) # {}
      <4>1. PICK q, k : o = <<q, k>> BY <1>3, Zenon
      <4>2. k \in Nat \ {0} /\ <<q, k>> \in TakenIn(m, r) BY <1>2, <4>1
      <4>. QED BY <4>2, <1>1
    <3>2. ASSUME NEW o \in Queued(m) PROVE TakenIn(m, r) # {}
      <4>1. PICK q, k : o = <<q, k>> BY <1>3, Zenon
      <4>2. k \in Nat \ {0} /\ <<q, k>> \in Queued(m) BY <1>2, <4>1
      <4>3. CASE q # x BY <4>2, <4>3, <1>1
      <4>4. CASE q = x
        <5>1. k # 1 BY <4>2, <4>4, <2>2
        <5>2. k - 1 \in Nat \ {0} /\ (k - 1) + 1 = k BY <4>2, <5>1
        <5>3. <<x, k - 1>> \in TakenIn(m, r) BY <4>2, <4>4, <5>2, <1>1
        <5>. QED BY <5>3
      <4>. QED BY <4>3, <4>4
    <3>. QED BY <3>1, <3>2
  <2>6. Placed(TakenIn(m, r), Counted(m)') <=> Placed(Queued(m), Counted(m))
    BY <2>1, <2>5 DEF Placed
  <2>7. AtOnce(TakenIn(m, r), Counted(m)') BY <2>1, <2>4, <2>5 DEF AtOnce
  <2>8. InOnly(TakenIn(m, r), z)
    <3>1. \A q, k : <<q, k>> \in Queued(m) => q = z
      <4>. SUFFICES ASSUME NEW q, NEW k, <<q, k>> \in Queued(m) PROVE q = z OBVIOUS
      <4>1. <<q, k>>[1] = z BY DEF InOnly
      <4>. QED BY <4>1
    <3>2. \A q, k : <<q, k>> \in TakenIn(m, r) => q = z BY <1>1, <1>2, <3>1
    <3>3. ASSUME NEW p \in TakenIn(m, r) PROVE p[1] = z
      <4>1. p = <<p[1], p[2]>> BY <1>3, Zenon
      <4>2. <<p[1], p[2]>> \in TakenIn(m, r) BY <4>1, Zenon
      <4>. QED BY <3>2, <4>2, Zenon
    <3>. QED BY <3>3 DEF InOnly
  <2>. QED BY <2>6, <2>7, <2>8
<1>. QED BY <1>5, <1>6

\* What PlacesInv says of one result after the queues that nobody uses are destroyed.
LEMMA PlaceLater ==
  ASSUME NEW t \in Seq(Seq(Results)), queue' = Left(t), NEW m, NEW B, NEW x,
         NEW sent \in BOOLEAN, PlaceOf(QueuedIn(m, t), B, sent, x),
         sent => Placed(QueuedIn(m, t), B) \/ ~InUse(x)'
  PROVE  /\ PlaceOf(Queued(m)', B, sent, x)
         /\ sent => Placed(Queued(m)', B) \/ ~InUse(x)'
<1>1. AtOnce(QueuedIn(m, t), B) /\ InOnly(QueuedIn(m, t), x)
      /\ (Placed(QueuedIn(m, t), B) => sent)
  BY Zenon DEF PlaceOf
<1>2. /\ AtOnce(Queued(m)', B) /\ InOnly(Queued(m)', x)
      /\ Placed(Queued(m)', B) => Placed(QueuedIn(m, t), B)
      /\ InUse(x)' /\ Placed(QueuedIn(m, t), B) => Placed(Queued(m)', B)
  BY <1>1, SweptKeeps
<1>3. PlaceOf(Queued(m)', B, sent, x) BY <1>1, <1>2, Zenon DEF PlaceOf
<1>. QED BY <1>2, <1>3, Zenon

\* The same of one child, before and after a step.
PlaceIs(r, c) ==
  LET m == Result(r, c)
  IN /\ PlaceOf(Queued(m), Counted(m), cpc[r][c] = "sent", cqd[r][c])
     /\ cpc[r][c] = "sent" => Placed(Queued(m), Counted(m)) \/ ~InUse(cqd[r][c])

LEMMA PlacesOne == PlacesInv <=> \A r \in Runs : \A c \in Children : PlaceIs(r, c)
BY PlacesAre, Zenon DEF PlaceIs

LEMMA PlacesOneAfter ==
  ASSUME \A r \in Runs : \A c \in Children :
           \E x, m :
             /\ m = Result(r, c) /\ x = cqd'[r][c]
             /\ PlaceOf(Queued(m)', Counted(m)', cpc'[r][c] = "sent", x)
             /\ cpc'[r][c] = "sent" => Placed(Queued(m)', Counted(m)') \/ ~InUse(x)'
  PROVE  PlacesInv'
<1>. SUFFICES ASSUME NEW r \in Runs, NEW c \in Children
              PROVE  LET m == Result(r, c)
                     IN /\ PlaceOf(Queued(m)', Counted(m)', cpc'[r][c] = "sent", cqd'[r][c])
                        /\ cpc'[r][c] = "sent" =>
                             Placed(Queued(m)', Counted(m)') \/ ~InUse(cqd[r][c])'
  BY PlacesAreAfter
<1>1. PICK x, m : /\ m = Result(r, c) /\ x = cqd'[r][c]
                  /\ PlaceOf(Queued(m)', Counted(m)', cpc'[r][c] = "sent", x)
                  /\ cpc'[r][c] = "sent" => Placed(Queued(m)', Counted(m)') \/ ~InUse(x)'
  BY Zenon
<1>2. InUse(x)' <=> InUse(cqd[r][c])' BY <1>1, Zenon DEF InUse
<1>3. Queued(m)' = Queued(Result(r, c))' /\ Counted(m)' = Counted(Result(r, c))'
  BY <1>1 DEF Queued, Counted, Result
<1>. QED BY <1>1, <1>2, <1>3

\* A queue whose result was sent existed, so that once out of use it stays so.
LEMMA SentTo ==
  ASSUME TypeOK, NEW r \in Runs, NEW c \in Children, cpc[r][c] = "sent"
  PROVE  cqd[r][c] \in 1..Len(queue)
<1>1. cqd[r][c] \in 0..Len(queue) /\ cqd[r][c] # NoQueue BY DEF TypeOK
<1>. QED BY <1>1, Numbers DEF NoQueue

LEMMA PlacesParent ==
  ASSUME TypeOK, LoopInv, PlacesInv, NEW r \in Runs, Parent(r)
  PROVE  PlacesInv'
<1>. SUFFICES ASSUME NEW s \in Runs, NEW c \in Children
              PROVE  \E x, m :
                       /\ m = Result(s, c) /\ x = cqd'[s][c]
                       /\ PlaceOf(Queued(m)', Counted(m)', cpc'[s][c] = "sent", x)
                       /\ cpc'[s][c] = "sent" => Placed(Queued(m)', Counted(m)') \/ ~InUse(x)'
  BY PlacesOneAfter
<1>1. PICK x, m : x = cqd[s][c] /\ m = Result(s, c) OBVIOUS
<1>. DEFINE sent == cpc[s][c] = "sent"
<1>2. cqd' = cqd BY ParentMoves
<1>3. sent' <=> sent
  <2>1. CASE Fork(r) /\ s = r /\ c = i[r]
    <3>1. cpc'[s][c] \in {"open", "failed"} BY <2>1, Forked
    <3>2. pc[r] = "fork" BY <2>1 DEF Fork, Goto
    <3>3. c >= i[r] BY <2>1 DEF Children
    <3>4. cpc[s][c] = "none" BY <2>1, <3>2, <3>3 DEF LoopInv
    <3>. QED BY <3>1, <3>4
  <2>2. CASE cpc'[s][c] = cpc[s][c] BY <2>2
  <2>. QED BY <2>1, <2>2, KidsParent
<1>4. PlaceOf(Queued(m), Counted(m), sent, x)
      /\ (sent => Placed(Queued(m), Counted(m)) \/ ~InUse(x))
  BY <1>1, PlacesOne DEF PlaceIs
<1>5. sent /\ ~InUse(x) => ~InUse(x)' BY <1>1, SentTo, UnusedParent
<1>6. sent \in BOOLEAN OBVIOUS
<1>. HIDE DEF sent
<1>7. PlaceOf(Queued(m)', Counted(m)', sent, x)
      /\ (sent => Placed(Queued(m)', Counted(m)') \/ ~InUse(x)')
  <2>1. CASE Receive(r)
    <3>1. Taken(r) \in Seq(Seq(Results)) /\ queue' = Left(Taken(r)) BY <2>1, Received
    <3>2. AtOnce(Queued(m), Counted(m)) /\ InOnly(Queued(m), x) BY <1>4, Zenon DEF PlaceOf
    <3>3. /\ AtOnce(TakenIn(m, r), Counted(m)') /\ InOnly(TakenIn(m, r), x)
          /\ Placed(TakenIn(m, r), Counted(m)') <=> Placed(Queued(m), Counted(m))
      BY <2>1, <3>2, ReceiveKeeps
    <3>4. PlaceOf(QueuedIn(m, Taken(r)), Counted(m)', sent, x)
      BY <1>4, <3>3, Zenon DEF PlaceOf, TakenIn
    <3>5. sent => Placed(QueuedIn(m, Taken(r)), Counted(m)') \/ ~InUse(x)'
      BY <1>4, <1>5, <3>3, Zenon DEF TakenIn
    <3>. QED BY <1>6, <3>1, <3>4, <3>5, PlaceLater
  <2>2. CASE queue' = Left(queue) /\ (Unlink(r) \/ OpenFails(r))
    <3>1. queue \in Seq(Seq(Results)) BY DEF TypeOK
    <3>2. Counted(m)' = Counted(m) BY <2>2, StillCounted DEF Unlink, OpenFails
    <3>3. PlaceOf(QueuedIn(m, queue), Counted(m)', sent, x) BY <1>4, <3>2, InQueue
    <3>4. sent => Placed(QueuedIn(m, queue), Counted(m)') \/ ~InUse(x)'
      BY <1>4, <1>5, <3>2, InQueue
    <3>. QED BY <1>6, <2>2, <3>1, <3>3, <3>4, PlaceLater
  <2>3. CASE Open(r) \/ Fork(r) \/ Poll(r)
    <3>1. Queued(m)' = Queued(m) /\ Counted(m)' = Counted(m)
      <4>1. CASE Open(r) BY <4>1, OpenPlaces
      <4>2. CASE Fork(r) \/ Poll(r)
        <5>1. UNCHANGED <<queue, got>> BY <4>2 DEF Fork, Poll
        <5>. QED BY <5>1, InQueue, StillCounted
      <4>. QED BY <2>3, <4>1, <4>2
    <3>. QED BY <1>4, <1>5, <3>1
  <2>. QED BY <2>1, <2>2, <2>3, ParentKinds
<1>. QED BY <1>1, <1>2, <1>3, <1>7 DEF sent

LEMMA PlacesChild ==
  ASSUME TypeOK, PlacesInv, NEW r \in Runs, NEW c \in Children, Child(r, c)
  PROVE  PlacesInv'
<1>. SUFFICES ASSUME NEW s \in Runs, NEW d \in Children
              PROVE  \E x, m :
                       /\ m = Result(s, d) /\ x = cqd'[s][d]
                       /\ PlaceOf(Queued(m)', Counted(m)', cpc'[s][d] = "sent", x)
                       /\ cpc'[s][d] = "sent" => Placed(Queued(m)', Counted(m)') \/ ~InUse(x)'
  BY PlacesOneAfter
<1>1. PICK x, m : x = cqd[s][d] /\ m = Result(s, d) OBVIOUS
<1>. DEFINE sent == cpc[s][d] = "sent"
<1>2. Counted(m)' = Counted(m) /\ queue \in Seq(Seq(Results))
  BY StillCounted DEF Child, parentVars, TypeOK
<1>3. m = Result(r, c) <=> s = r /\ d = c BY <1>1 DEF Result
<1>4. PlaceOf(Queued(m), Counted(m), sent, x)
      /\ (sent => Placed(Queued(m), Counted(m)) \/ ~InUse(x))
  BY <1>1, PlacesOne DEF PlaceIs
<1>5. sent /\ ~InUse(x) => ~InUse(x)' BY UnusedChild
<1>6. sent \in BOOLEAN OBVIOUS
<1>7. /\ cpc[r][c] \in {"open", "send"} /\ (Send(r, c) <=> cpc'[r][c] = "sent")
      /\ \A u \in Runs : \A e \in Children : u # r \/ e # c => cpc'[u][e] = cpc[u][e]
  BY ChildStep DEF Child
<1>8. ~Send(r, c) \/ m # Result(r, c) => (sent' <=> sent) BY <1>3, <1>7
<1>9. s # r \/ d # c \/ ~ChildOpen(r, c) => x = cqd'[s][d]
  <2>1. cqd \in [Runs -> [Children -> 0..Len(queue)]] BY DEF TypeOK
  <2>2. ChildOpen(r, c) => cqd' = [cqd EXCEPT ![r][c] = name] BY DEF ChildOpen
  <2>3. ~ChildOpen(r, c) => cqd' = cqd BY DEF Child, ChildOpenFails, Send
  <2>. QED BY <1>1, <2>1, <2>2, <2>3
<1>10. CASE Send(r, c)
  <2>1. Added(r, c) \in Seq(Seq(Results)) /\ queue' = Left(Added(r, c)) BY <1>10, Sent
  <2>2. ~ChildOpen(r, c)
    <3>1. cpc'[r][c] = "sent" BY <1>10, <1>7
    <3>. QED BY <3>1, ChildStep
  <2>3. CASE m = Result(r, c)
    <3>1. ~sent /\ sent' BY <1>3, <1>7, <1>10, <2>3
    <3>2. ~Placed(Queued(m), Counted(m)) BY <1>4, <3>1, Zenon DEF PlaceOf
    <3>3. Queued(m) = {} /\ Counted(m) = {} BY <3>2 DEF Placed
    <3>4. /\ QueuedIn(m, Added(r, c)) = {<<x, Len(queue[x]) + 1>>} /\ Counted(m)' = {}
      <4>1. got' = got BY DEF Child, parentVars
      <4>2. x = cqd[r][c] BY <1>1, <1>3, <2>3
      <4>. QED BY <1>2, <1>10, <2>3, <3>3, <4>1, <4>2, SendPlaces DEF AddedIn
    <3>5. PlaceOf(QueuedIn(m, Added(r, c)), Counted(m)', TRUE, x)
      BY <3>4 DEF PlaceOf, AtOnce, InOnly
    <3>6. Placed(QueuedIn(m, Added(r, c)), Counted(m)') BY <3>4 DEF Placed
    <3>7. PlaceOf(Queued(m)', Counted(m)', TRUE, x)
          /\ (Placed(Queued(m)', Counted(m)') \/ ~InUse(x)')
      BY <2>1, <3>5, <3>6, PlaceLater
    <3>. QED BY <1>1, <1>9, <2>2, <3>1, <3>7
  <2>4. CASE m # Result(r, c)
    <3>1. QueuedIn(m, Added(r, c)) = Queued(m)
      <4>1. got' = got BY DEF Child, parentVars
      <4>. QED BY <1>10, <2>4, <4>1, SendPlaces DEF AddedIn
    <3>. HIDE DEF sent
    <3>2. PlaceOf(Queued(m)', Counted(m)', sent, x)
          /\ (sent => Placed(Queued(m)', Counted(m)') \/ ~InUse(x)')
      BY <1>2, <1>4, <1>5, <1>6, <2>1, <3>1, PlaceLater
    <3>. QED BY <1>1, <1>8, <1>9, <2>2, <2>4, <3>2 DEF sent
  <2>. QED BY <2>3, <2>4
<1>11. CASE ChildOpenFails(r, c) /\ queue' = Left(queue)
  <2>1. ~ChildOpen(r, c) /\ ~Send(r, c)
    <3>1. cpc'[r][c] = "exited" BY <1>11, ChildStep
    <3>. QED BY <3>1, ChildStep
  <2>. HIDE DEF sent
  <2>2. PlaceOf(Queued(m)', Counted(m)', sent, x)
        /\ (sent => Placed(Queued(m)', Counted(m)') \/ ~InUse(x)')
    BY <1>2, <1>4, <1>5, <1>6, <1>11, InQueue, PlaceLater
  <2>. QED BY <1>1, <1>8, <1>9, <2>1, <2>2 DEF sent
<1>12. CASE ChildOpen(r, c) /\ queue' = queue
  <2>1. Queued(m)' = Queued(m) BY <1>12, InQueue
  <2>2. ~Send(r, c)
    <3>1. cpc'[r][c] = "send" BY <1>12, ChildStep
    <3>. QED BY <3>1, ChildStep
  <2>3. CASE s # r \/ d # c
    <3>. HIDE DEF sent
    <3>1. PlaceOf(Queued(m)', Counted(m)', sent, x)
          /\ (sent => Placed(Queued(m)', Counted(m)') \/ ~InUse(x)')
      BY <1>2, <1>4, <1>5, <2>1
    <3>. QED BY <1>1, <1>8, <1>9, <2>2, <2>3, <3>1 DEF sent
  <2>4. CASE s = r /\ d = c
    <3>1. ~sent /\ ~sent' BY <1>7, <1>8, <2>2, <2>4
    <3>2. ~Placed(Queued(m), Counted(m)) BY <1>4, <3>1, Zenon DEF PlaceOf
    <3>3. Queued(m)' = {} /\ Counted(m)' = {} BY <1>2, <2>1, <3>2 DEF Placed
    <3>4. PlaceOf(Queued(m)', Counted(m)', FALSE, cqd'[s][d])
      BY <3>3 DEF PlaceOf, AtOnce, InOnly, Placed
    <3>. QED BY <1>1, <3>1, <3>4
  <2>. QED BY <2>3, <2>4
<1>. QED BY <1>10, <1>11, <1>12, ChildKinds

-----------------------------------------------------------------------------
\* A run alone

AloneIs(r) == \A s \in Runs : s # r => pc[s] = "not run"

LEMMA Lonely ==
  ASSUME NEW r \in Runs
  PROVE  /\ Alone(r) <=> AloneIs(r) /\ pc[r] # "not run"
         /\ Alone(r)' <=> AloneIs(r)' /\ pc'[r] # "not run"
<1>1. Alone(r) <=> AloneIs(r) /\ pc[r] # "not run"
  <2>1. ASSUME Alone(r) PROVE AloneIs(r) /\ pc[r] # "not run"
    BY <2>1, ZenonT(30) DEF Alone, AloneIs
  <2>2. ASSUME AloneIs(r), pc[r] # "not run" PROVE Alone(r)
    BY <2>2, ZenonT(30) DEF Alone, AloneIs
  <2>. QED BY <2>1, <2>2
<1>2. Alone(r)' <=> AloneIs(r)' /\ pc'[r] # "not run"
  <2>1. ASSUME Alone(r)' PROVE AloneIs(r)' /\ pc'[r] # "not run"
    BY <2>1, ZenonT(30) DEF Alone, AloneIs
  <2>2. ASSUME AloneIs(r)', pc'[r] # "not run" PROVE Alone(r)'
    BY <2>2, ZenonT(30) DEF Alone, AloneIs
  <2>. QED BY <2>1, <2>2
<1>. QED BY <1>1, <1>2

\* Nobody starts or stops being a run.
LEMMA AloneParent ==
  ASSUME TypeOK, NEW r \in Runs, Parent(r), NEW s \in Runs, Alone(s)'
  PROVE  s = r /\ Alone(r)
<1>1. pc[r] # "not run" /\ pc'[r] # "not run" /\ \A t \in Runs : t # r => pc'[t] = pc[t]
  BY ParentMoves
<1>2. \A t \in Runs : t # s => pc'[t] = "not run" BY Lonely DEF AloneIs
<1>3. s = r BY <1>1, <1>2
<1>4. \A t \in Runs : t # r => pc[t] = "not run" BY <1>1, <1>2, <1>3
<1>5. AloneIs(r) BY <1>4 DEF AloneIs
<1>. QED BY <1>1, <1>3, <1>5, Lonely

LEMMA MissParent ==
  ASSUME TypeOK, LoopInv, MissInv, NEW r \in Runs, Parent(r)
  PROVE  MissInv'
<1>. SUFFICES ASSUME NEW s \in Runs, Alone(s)'
              PROVE  /\ pc'[s] \in {"fork", "open"} /\ i'[s] > 1 => name' # NoQueue
                     /\ \A c \in Children : c > 1 /\ cpc'[s][c] # "none" => name' # NoQueue
  BY DEF MissInv
<1>1. s = r /\ Alone(r) BY AloneParent
<1>2. /\ pc[r] \in {"fork", "open"} /\ i[r] > 1 => name # NoQueue
      /\ \A c \in Children : c > 1 /\ cpc[r][c] # "none" => name # NoQueue
  BY <1>1 DEF MissInv
<1>3. CASE Unlink(r)
  <2>1. pc[r] = "unlink" /\ i' = i /\ cpc' = cpc BY <1>3 DEF Unlink, Goto, childVars
  <2>2. i[r] = 1 /\ \A c \in Children : cpc[r][c] = "none" BY <2>1 DEF LoopInv
  <2>3. ~ (i'[r] > 1) BY <2>1, <2>2
  <2>. QED BY <1>1, <2>1, <2>2, <2>3
<1>4. CASE Fork(r)
  <2>1. pc[r] = "fork" /\ UNCHANGED <<i, name>> BY <1>4 DEF Fork, Goto
  <2>2. \A c \in Children : c # i[r] => cpc'[r][c] = cpc[r][c] BY <1>4, Forked
  <2>3. i[r] > 1 => name # NoQueue BY <1>2, <2>1
  <2>4. \A c \in Children : c > 1 /\ cpc'[r][c] # "none" => name # NoQueue
    BY <1>2, <2>2, <2>3
  <2>. QED BY <1>1, <2>1, <2>3, <2>4
<1>5. CASE Open(r)
  <2>1. name' # NoQueue
    <3>1. name' \in 1..Len(queue') /\ Len(queue') \in Nat BY <1>5, Created
    <3>. QED BY <3>1 DEF NoQueue
  <2>. QED BY <2>1
<1>6. CASE OpenFails(r) \/ Poll(r) \/ Receive(r)
  <2>1. name' = name /\ cpc' = cpc BY <1>6 DEF OpenFails, Poll, Receive, childVars
  <2>2. pc'[r] \notin {"fork", "open"}
    <3>1. CASE OpenFails(r)
      <4>1. pc'[r] = "exited" BY <3>1, Went DEF OpenFails, ParentPlaces
      <4>. QED BY <4>1
    <3>2. CASE Poll(r)
      <4>1. pc'[r] = "receive" BY <3>2, Went DEF Poll, ParentPlaces
      <4>. QED BY <4>1
    <3>3. CASE Receive(r)
      <4>1. pc'[r] = "poll" \/ pc'[r] = "done" BY <3>3, Rounds DEF Round
      <4>. QED BY <4>1
    <3>. QED BY <1>6, <3>1, <3>2, <3>3
  <2>. QED BY <1>1, <1>2, <2>1, <2>2
<1>. QED BY <1>3, <1>4, <1>5, <1>6 DEF Parent

LEMMA MissChild ==
  ASSUME TypeOK, LoopInv, MissInv, OnlyFirstMisses, NEW r \in Runs, NEW c \in Children,
         Child(r, c)
  PROVE  MissInv' /\ OnlyFirstMisses'
<1>1. UNCHANGED <<name, limit, pc, i>> BY DEF Child, parentVars
<1>2. \A s \in Runs : Alone(s)' <=> Alone(s) BY <1>1 DEF Alone
<1>3. /\ cpc[r][c] \in {"open", "send"}
      /\ \A s \in Runs : \A d \in Children : s # r \/ d # c => cpc'[s][d] = cpc[s][d]
  BY ChildStep
<1>4. \A s \in Runs : \A d \in Children : cpc'[s][d] # "none" => cpc[s][d] # "none"
  BY <1>3
<1>5. MissInv' BY <1>1, <1>2, <1>4 DEF MissInv
<1>6. OnlyFirstMisses'
  <2>. SUFFICES ASSUME NEW s \in Runs, NEW d \in Children, Alone(s), cpc'[s][d] = "exited"
                PROVE  d = 1 \/ d > limit
    BY <1>1, <1>2 DEF OnlyFirstMisses
  <2>1. CASE s # r \/ d # c BY <2>1, <1>3 DEF OnlyFirstMisses
  <2>2. CASE s = r /\ d = c
    <3>1. ChildOpenFails(r, c)
      <4>1. cpc'[r][c] # "send" /\ cpc'[r][c] # "sent" BY <2>2
      <4>2. ~ChildOpen(r, c) /\ ~Send(r, c) BY <4>1, ChildStep
      <4>. QED BY <4>2 DEF Child
    <3>2. name = NoQueue \/ c > limit BY <3>1 DEF ChildOpenFails
    <3>3. cpc[r][c] # "none" BY <1>3
    <3>4. c > 1 => name # NoQueue BY <2>2, <3>3 DEF MissInv
    <3>5. c = 1 \/ c > 1 BY DEF Children
    <3>. QED BY <2>2, <3>2, <3>4, <3>5
  <2>. QED BY <2>1, <2>2
<1>. QED BY <1>5, <1>6

LEMMA FirstParent ==
  ASSUME TypeOK, OnlyFirstMisses, NEW r \in Runs, Parent(r)
  PROVE  OnlyFirstMisses'
<1>. SUFFICES ASSUME NEW s \in Runs, NEW d \in Children, Alone(s)', cpc'[s][d] = "exited"
              PROVE  d = 1 \/ d > limit
  BY DEF OnlyFirstMisses, Parent
<1>1. s = r /\ Alone(r) BY AloneParent
<1>2. cpc[s][d] = "exited"
  <2>1. CASE Fork(r)
    <3>1. s = r /\ d = i[r] => cpc'[s][d] # "exited" BY <2>1, Forked
    <3>2. ~ (s = r /\ d = i[r]) => cpc'[s][d] = cpc[s][d] BY <2>1, Forked
    <3>. QED BY <3>1, <3>2
  <2>2. CASE ~Fork(r)
    <3>1. cpc' = cpc BY <2>2 DEF Parent, Unlink, Open, OpenFails, Poll, Receive, childVars
    <3>. QED BY <3>1
  <2>. QED BY <2>1, <2>2
<1>. QED BY <1>1, <1>2 DEF OnlyFirstMisses

-----------------------------------------------------------------------------
\* The invariant

LEMMA InitTypes ==
  ASSUME Init
  PROVE  /\ TypeOK /\ Len(queue) = 1
         /\ name = 1 => queue[1] = <<Result(Earlier, 1)>>
         /\ name # 1 => queue[1] = <<>>
<1>. DEFINE e == Result(Earlier, 1)
<1>1. Procs \in Nat \ {0} /\ MaxMsg \in Nat \ {0} /\ 1 \in Children
  BY ProcsAssumption, MaxMsgAssumption DEF Children
<1>2. e \in Results BY <1>1 DEF Result, Results
<1>3. queue = IF name = 1 THEN <<<<e>>>> ELSE <<<<>>>> BY DEF Init
<1>. HIDE DEF e
<1>4. <<e>> \in Seq(Results) /\ Len(<<e>>) = 1 /\ <<>> \in Seq(Results) BY <1>2
<1>5. /\ queue \in Seq(Seq(Results)) /\ Len(queue) = 1
      /\ name = 1 => queue[1] = <<e>>
      /\ name # 1 => queue[1] = <<>>
  <2>1. CASE name = 1
    <3>1. queue = <<<<e>>>> BY <1>3, <2>1
    <3>. QED BY <1>4, <2>1, <3>1
  <2>2. CASE name # 1
    <3>1. queue = <<<<>>>> BY <1>3, <2>2
    <3>. QED BY <1>4, <2>2, <3>1
  <2>. QED BY <2>1, <2>2
<1>6. 1..Len(queue) = {1} BY <1>5
<1>7. TypeOK
  <2>1. \A q \in 1..Len(queue) : Len(queue[q]) <= MaxMsg
    <3>1. Len(queue[1]) <= 1 BY <1>4, <1>5
    <3>. QED BY <1>1, <1>5, <1>6, <3>1
  <2>2. NoQueue \in 0..Len(queue) /\ 1 \in 0..Len(queue) BY <1>5 DEF NoQueue
  <2>3. name \in 0..Len(queue) /\ limit \in Limits BY <2>2 DEF Init
  <2>4. /\ pc \in [Runs -> {"not run", "unlink", "fork", "open", "poll", "receive", "done",
                            "exited"}]
        /\ \A r \in Runs : pc[r] \notin {"poll", "receive"}
    BY DEF Init
  <2>5. i \in [Runs -> Children] /\ qd \in [Runs -> 0..Len(queue)] BY <1>1, <2>2 DEF Init
  <2>6. got \in [Runs -> Seq(Results)]
    <3>1. <<>> \in Seq(Results) OBVIOUS
    <3>. QED BY <3>1 DEF Init
  <2>7. /\ cpc \in [Runs -> [Children -> {"none", "failed", "open", "send", "sent", "exited"}]]
        /\ cqd \in [Runs -> [Children -> 0..Len(queue)]]
        /\ \A r \in Runs : \A c \in Children : cpc[r][c] \notin {"send", "sent"}
    BY <2>2 DEF Init
  <2>8. fds \in [Runs -> [0..Procs -> SUBSET (1..Len(queue))]] BY DEF Init
  <2>. QED BY <1>5, <2>1, <2>3, <2>4, <2>5, <2>6, <2>7, <2>8 DEF TypeOK
<1>. QED BY <1>5, <1>7 DEF e

LEMMA InitInv == Init => IInv
<1>. SUFFICES ASSUME Init PROVE IInv OBVIOUS
<1>. DEFINE e == Result(Earlier, 1)
<1>1. Procs \in Nat \ {0} /\ MaxMsg \in Nat \ {0} BY ProcsAssumption, MaxMsgAssumption
<1>2. /\ TypeOK /\ Len(queue) = 1
      /\ name = 1 => queue[1] = <<e>>
      /\ name # 1 => queue[1] = <<>>
  BY InitTypes
<1>3. 1..Len(queue) = {1} BY <1>2
<1>4. \A r \in Runs : /\ pc[r] \in {"unlink", "not run"} /\ i[r] = 1 /\ Len(got[r]) = 0
                      /\ qd[r] = 0
                      /\ \A c \in Children : cpc[r][c] = "none" /\ cqd[r][c] = 0
  BY DEF Init, NoQueue
<1>5. LoopInv BY <1>4 DEF LoopInv
<1>6. \A m : Counted(m) = {}
  <2>. SUFFICES ASSUME NEW m, NEW p \in Counted(m) PROVE FALSE OBVIOUS
  <2>1. p[1] \in Runs /\ p[2] \in 1..Procs /\ p[2] <= Len(got[p[1]]) BY DEF Counted
  <2>2. Len(got[p[1]]) = 0 BY <1>4, <2>1
  <2>. QED BY <1>1, <2>1, <2>2
<1>7. \A m : \A p \in Queued(m) : p[1] = 1 /\ m = e
  <2>. SUFFICES ASSUME NEW m, NEW p \in Queued(m) PROVE p[1] = 1 /\ m = e OBVIOUS
  <2>. HIDE DEF e
  <2>1. /\ p[1] \in 1..Len(queue) /\ p[2] \in 1..MaxMsg /\ p[2] <= Len(queue[p[1]])
        /\ queue[p[1]][p[2]] = m
    BY DEF Queued
  <2>2. p[1] = 1 BY <1>3, <2>1
  <2>3. CASE name = 1
    <3>1. p[2] = 1 BY <1>1, <1>2, <2>1, <2>2, <2>3
    <3>. QED BY <1>2, <2>1, <2>2, <2>3, <3>1
  <2>4. CASE name # 1
    <3>1. Len(queue[1]) = 0 BY <1>2, <2>4
    <3>. QED BY <1>1, <2>1, <2>2, <3>1
  <2>. QED BY <2>3, <2>4
<1>8. StaleInv
  <2>1. Len(queue) >= 1 BY <1>2
  <2>2. \A r \in Runs : pc[r] \notin {"not run", "unlink"} => name # 1 BY <1>4
  <2>3. \A r \in Runs : qd[r] # 1 /\ \A c \in Children : cqd[r][c] # 1
    <3>1. \A r \in Runs : qd[r] = 0 /\ \A c \in Children : cqd[r][c] = 0 BY <1>4
    <3>. QED BY ONLY <3>1
  <2>. QED BY <2>1, <2>2, <2>3, <1>6, <1>7 DEF StaleInv
<1>9. QueuesInv
  <2>1. ASSUME NEW r \in Runs PROVE OpenOf(r)
    <3>1. ASSUME NEW c \in Children
          PROVE  /\ cpc[r][c] = "none" /\ cqd[r][c] = NoQueue
                 /\ fds[r][c] = {}
      <4>1. fds = [s \in Runs |-> [p \in 0..Procs |-> {}]] BY DEF Init
      <4>2. c \in 0..Procs BY <1>2, Processes
      <4>. QED BY <1>4, <4>1, <4>2 DEF NoQueue
    <3>. QED BY <1>4, <3>1 DEF OpenOf
  <2>2. Emptied
    <3>1. InUse(1) \/ queue[1] = <<>> BY <1>2 DEF InUse
    <3>. QED BY <1>3, <3>1 DEF Emptied
  <2>. QED BY <2>1, <2>2, QueuesAre
<1>10. PlacesInv
  <2>. SUFFICES ASSUME NEW r \in Runs, NEW c \in Children PROVE PlaceIs(r, c) BY PlacesOne
  <2>1. Result(r, c) # e BY EarlierAssumption DEF Result
  <2>2. Queued(Result(r, c)) = {} /\ Counted(Result(r, c)) = {} BY <1>6, <1>7, <2>1
  <2>3. cpc[r][c] # "sent" BY <1>4
  <2>. QED BY <2>2, <2>3 DEF PlaceIs, PlaceOf, Placed, AtOnce, InOnly
<1>11. MissInv BY <1>4 DEF MissInv
<1>12. OnlyFirstMisses BY <1>4 DEF OnlyFirstMisses
<1>. QED BY <1>2, <1>5, <1>8, <1>9, <1>10, <1>11, <1>12 DEF IInv

LEMMA Unmoved == IInv /\ UNCHANGED vars => IInv'
<1>. SUFFICES ASSUME IInv, UNCHANGED vars PROVE IInv' OBVIOUS
<1>1. UNCHANGED <<queue, name, limit, fds, pc, i, qd, got, cpc, cqd>>
  BY DEF vars, parentVars, childVars
<1>2. \A m : Queued(m)' = Queued(m) /\ Counted(m)' = Counted(m)
  BY <1>1, StillThere, StillCounted
<1>3. TypeOK' BY <1>1 DEF IInv, TypeOK
<1>4. LoopInv' BY <1>1 DEF IInv, LoopInv
<1>5. StaleInv' BY <1>1, <1>2 DEF IInv, StaleInv
<1>6. \A q : InUse(q)' <=> InUse(q) BY <1>1 DEF InUse
<1>7. \A r \in Runs : (Alone(r)' <=> Alone(r)) /\ (Disturbed(r)' <=> Disturbed(r))
  BY <1>1 DEF Alone, Disturbed
<1>8. QueuesInv'
  <2>1. \A r \in Runs : OpenOf(r)' BY <1>1, <1>7, QueuesAre DEF IInv, OpenOf
  <2>2. Emptied' BY <1>1, <1>6, QueuesAre DEF IInv, Emptied
  <2>. QED BY <2>1, <2>2, QueuesAre
<1>9. PlacesInv'
  <2>. SUFFICES ASSUME NEW r \in Runs, NEW c \in Children
                PROVE  \E x, m :
                         /\ m = Result(r, c) /\ x = cqd'[r][c]
                         /\ PlaceOf(Queued(m)', Counted(m)', cpc'[r][c] = "sent", x)
                         /\ cpc'[r][c] = "sent" =>
                              Placed(Queued(m)', Counted(m)') \/ ~InUse(x)'
    BY PlacesOneAfter
  <2>1. PICK x, m : x = cqd[r][c] /\ m = Result(r, c) OBVIOUS
  <2>2. /\ PlaceOf(Queued(m), Counted(m), cpc[r][c] = "sent", x)
        /\ cpc[r][c] = "sent" => Placed(Queued(m), Counted(m)) \/ ~InUse(x)
    BY <2>1, PlacesOne DEF IInv, PlaceIs
  <2>. QED BY <1>1, <1>2, <1>6, <2>1, <2>2
<1>10. MissInv' /\ OnlyFirstMisses' BY <1>1, <1>7 DEF IInv, MissInv, OnlyFirstMisses
<1>. QED BY <1>3, <1>4, <1>5, <1>8, <1>9, <1>10 DEF IInv

LEMMA StepInv == IInv /\ [Next]_vars => IInv'
<1>1. ASSUME IInv, NEW r \in Runs, Parent(r) PROVE IInv'
  BY <1>1, TypesParent, LoopParent, StaleParent, QueuesParent, PlacesParent, MissParent,
     FirstParent DEF IInv
<1>2. ASSUME IInv, NEW r \in Runs, NEW c \in Children, Child(r, c) PROVE IInv'
  BY <1>2, TypesChild, LoopChild, StaleChild, QueuesChild, PlacesChild, MissChild DEF IInv
<1>. QED BY <1>1, <1>2, Unmoved DEF Next

\* Loops, queues, descriptors and results are what IInv says, for any number of runs
\* at once, any number of children, any length of the queue and any limits: a result
\* that was sent is in the queue the child sent it to, or in a sum, or gone with a queue
\* that nobody has open any more.
THEOREM MessageQueueInvariant == Spec => []IInv
BY InitInv, StepInv, PTL DEF Spec

\* What is in a sum, as Counted sees it.
LEMMA InSum ==
  ASSUME TypeOK, LoopInv, NEW r \in Runs, NEW k \in 1..Len(got[r])
  PROVE  got[r][k] \in Results /\ <<r, k>> \in Counted(got[r][k])
<1>1. got[r] \in Seq(Results) BY DEF TypeOK
<1>2. got[r][k] \in Results BY <1>1
<1>3. k <= Len(got[r]) /\ k \in 1..Procs
  <2>1. Len(got[r]) \in Nat /\ Procs \in Nat /\ i[r] \in 1..Procs BY Numbers
  <2>2. Len(got[r]) = i[r] - 1 \/ Len(got[r]) = Procs \/ Len(got[r]) = 0 BY DEF LoopInv
  <2>. QED BY <2>1, <2>2
<1>. QED BY <1>2, <1>3, Members

\* A result that an earlier run left in the queue is never counted.
THEOREM StaleNeverCounted == Spec => []NoStaleResults
<1>1. IInv => NoStaleResults
  <2>. SUFFICES ASSUME IInv, NEW r \in Runs, NEW k \in 1..Len(got[r]), got[r][k].run = Earlier
                PROVE  FALSE
    BY DEF NoStaleResults
  <2>1. got[r][k] \in Results /\ <<r, k>> \in Counted(got[r][k]) BY InSum DEF IInv
  <2>. QED BY <2>1 DEF IInv, StaleInv
<1>. QED BY <1>1, MessageQueueInvariant, PTL

LEMMA OneOrNone ==
  ASSUME NEW A, \A p, o \in A : p = o
  PROVE  Cardinality(A) = IF A = {} THEN 0 ELSE 1
<1>1. CASE A = {} BY <1>1, FS_EmptySet
<1>2. CASE A # {}
  <2>1. PICK a : a \in A BY <1>2
  <2>2. A = {a} BY <2>1
  <2>. QED BY <1>2, <2>2, FS_Singleton
<1>. QED BY <1>1, <1>2

\* Runs may take each other's results, but none is in two places or counted twice, and
\* one that was sent is lost only with its queue, after another run took the name from it
\* and the last process that had it open is gone.
THEOREM ResultsAreOnce == Spec => []EachResultOnce
<1>1. IInv => EachResultOnce
  <2>. SUFFICES ASSUME IInv, NEW r \in Runs, NEW c \in Children
                PROVE  LET m == Result(r, c)
                           places == Cardinality(Queued(m)) + Cardinality(Counted(m))
                       IN IF cpc[r][c] = "sent"
                          THEN places = 1 \/ (places = 0 /\ ~InUse(cqd[r][c]) /\ Disturbed(r))
                          ELSE places = 0
    BY DEF EachResultOnce
  <2>. DEFINE m == Result(r, c)
              A == Queued(m)
              B == Counted(m)
  <2>1. /\ Placed(A, B) => cpc[r][c] = "sent"
        /\ AtOnce(A, B)
        /\ cpc[r][c] = "sent" => Placed(A, B) \/ ~InUse(cqd[r][c])
    BY PlacesOne DEF IInv, PlaceIs, PlaceOf
  <2>2. Cardinality(A) = IF A = {} THEN 0 ELSE 1 BY <2>1, OneOrNone DEF AtOnce
  <2>3. Cardinality(B) = IF B = {} THEN 0 ELSE 1 BY <2>1, OneOrNone DEF AtOnce
  <2>4. /\ Placed(A, B) => Cardinality(A) + Cardinality(B) = 1
        /\ ~Placed(A, B) => Cardinality(A) + Cardinality(B) = 0
    <3>1. Placed(A, B) => (A = {} /\ B # {}) \/ (A # {} /\ B = {})
      BY <2>1 DEF Placed, AtOnce
    <3>2. ~Placed(A, B) => A = {} /\ B = {} BY DEF Placed
    <3>. QED BY <2>2, <2>3, <3>1, <3>2
  <2>5. ASSUME cpc[r][c] = "sent", ~Placed(A, B)
        PROVE  ~InUse(cqd[r][c]) /\ Disturbed(r)
    <3>1. ~InUse(cqd[r][c]) BY <2>1, <2>5
    <3>2. cqd[r][c] # name BY <3>1 DEF InUse
    <3>3. cqd[r][c] # NoQueue BY <2>5 DEF IInv, TypeOK
    <3>4. cqd[r][c] \in {NoQueue, name} \/ Disturbed(r) BY DEF IInv, QueuesInv
    <3>. QED BY <3>1, <3>2, <3>3, <3>4
  <2>. QED BY <2>1, <2>4, <2>5
<1>. QED BY <1>1, MessageQueueInvariant, PTL

\* As many different children as there are are all of them.
LEMMA AllChildren ==
  ASSUME NEW s \in [1..Procs -> Children], \A j, k \in 1..Procs : s[j] = s[k] => j = k
  PROVE  \A c \in Children : \E k \in 1..Procs : s[k] = c
<1>1. Procs \in Nat BY ProcsAssumption
<1>2. IsFiniteSet(1..Procs) BY <1>1, FS_Interval
<1>3. Children = 1..Procs BY DEF Children
<1>4. s \in Injection(1..Procs, 1..Procs) BY <1>3 DEF Injection, IsInjective
<1>5. s \in Surjection(1..Procs, 1..Procs) BY <1>2, <1>4, FS_Injection
<1>. QED BY <1>3, <1>5 DEF Surjection

\* A run alone that ends has counted the result of each of its children.
THEOREM AloneCountsAll == Spec => []AloneAddsUp
<1>1. IInv => AloneAddsUp
  <2>. SUFFICES ASSUME IInv, NEW r \in Runs, Alone(r), pc[r] = "done"
                PROVE  /\ ToSet(got[r]) = {Result(r, c) : c \in Children}
                       /\ \A c \in Children : cpc[r][c] = "sent"
    BY DEF AloneAddsUp
  <2>. USE DEF IInv
  <2>1. Len(got[r]) = Procs /\ got[r] \in Seq(Results) BY DEF LoopInv, TypeOK
  <2>2. ASSUME NEW k \in 1..Procs
        PROVE  /\ got[r][k].child \in Children /\ got[r][k] = Result(r, got[r][k].child)
               /\ cpc[r][got[r][k].child] = "sent"
               /\ <<r, k>> \in Counted(got[r][k])
    <3>. DEFINE m == got[r][k]
    <3>1. m \in Results /\ <<r, k>> \in Counted(m) BY <2>1, InSum
    <3>2. m.run # Earlier BY <3>1 DEF StaleInv
    <3>3. m.run \in Runs /\ m.child \in Children /\ m = Result(m.run, m.child)
      BY <3>1, <3>2 DEF Results, Result
    <3>4. Placed(Queued(m), Counted(m)) BY <3>1 DEF Placed
    <3>5. cpc[m.run][m.child] = "sent" BY <3>3, <3>4, PlacesOne DEF PlaceIs, PlaceOf
    <3>6. pc[m.run] # "not run" BY <3>3, <3>5 DEF LoopInv
    <3>7. m.run = r BY <3>3, <3>6, Lonely DEF AloneIs
    <3>. QED BY <3>1, <3>3, <3>5, <3>7
  <2>. DEFINE s == [k \in 1..Procs |-> got[r][k].child]
  <2>3. s \in [1..Procs -> Children] BY <2>2
  <2>4. \A j, k \in 1..Procs : s[j] = s[k] => j = k
    <3>. SUFFICES ASSUME NEW j \in 1..Procs, NEW k \in 1..Procs, s[j] = s[k] PROVE j = k
      OBVIOUS
    <3>1. got[r][j] = got[r][k] BY <2>2
    <3>2. <<r, j>> \in Counted(got[r][k]) /\ <<r, k>> \in Counted(got[r][k]) BY <2>2, <3>1
    <3>3. AtOnce(Queued(got[r][k]), Counted(got[r][k])) BY <2>2, PlacesOne DEF PlaceIs, PlaceOf
    <3>4. <<r, j>> = <<r, k>> BY <3>2, <3>3, Zenon DEF AtOnce
    <3>. QED BY <3>4
  <2>. HIDE DEF s
  <2>5. \A c \in Children : \E k \in 1..Procs : s[k] = c BY <2>3, <2>4, AllChildren
  <2>. USE DEF s
  <2>6. \A c \in Children : \E k \in 1..Procs : got[r][k].child = c BY <2>5
  <2>7. \A c \in Children : cpc[r][c] = "sent"
    <3>. SUFFICES ASSUME NEW c \in Children PROVE cpc[r][c] = "sent" OBVIOUS
    <3>1. PICK k \in 1..Procs : got[r][k].child = c BY <2>6
    <3>2. cpc[r][got[r][k].child] = "sent" BY <2>2
    <3>. QED BY <3>1, <3>2
  <2>8. ToSet(got[r]) = {got[r][k] : k \in 1..Procs}
    <3>1. DOMAIN got[r] = 1..Procs BY <2>1, LenProperties
    <3>. QED BY <3>1, Zenon DEF ToSet
  <2>9. \A k \in 1..Procs : \E c \in Children : got[r][k] = Result(r, c) BY <2>2
  <2>10. \A c \in Children : \E k \in 1..Procs : got[r][k] = Result(r, c)
    <3>. SUFFICES ASSUME NEW c \in Children
                  PROVE  \E k \in 1..Procs : got[r][k] = Result(r, c)
      OBVIOUS
    <3>1. PICK k \in 1..Procs : got[r][k].child = c BY <2>6
    <3>2. got[r][k] = Result(r, got[r][k].child) BY <2>2
    <3>. QED BY <3>1, <3>2
  <2>11. ToSet(got[r]) = {Result(r, c) : c \in Children} BY <2>8, <2>9, <2>10
  <2>. QED BY <2>7, <2>11
<1>. QED BY <1>1, MessageQueueInvariant, PTL

\* Only the first child of a run alone can come before the queue was created.
THEOREM OnlyFirstIsEarly == Spec => []OnlyFirstMisses
<1>1. IInv => OnlyFirstMisses BY DEF IInv
<1>. QED BY <1>1, MessageQueueInvariant, PTL

=============================================================================
