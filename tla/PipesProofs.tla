---------------------------- MODULE PipesProofs ----------------------------
(***************************************************************************)
(* The pipe programs, for any number of children, any capacity of the pipe *)
(* and any number of kills.                                                *)
(***************************************************************************)
EXTENDS Pipes, FiniteSetTheorems, SequenceTheorems, TLAPS

-----------------------------------------------------------------------------
\* Types

Places == {"none", "failed", "start", "write", "close", "done", "killed", "broken pipe"}

\* The numbers in it.
LEMMA Numbers ==
  ASSUME TypeOK
  PROVE  /\ Procs \in Nat \ {0} /\ i \in 1..Procs
         /\ capacity \in Nat /\ Len(pipe) \in Nat /\ Len(pipe) <= capacity
         /\ Len(added) \in Nat
<1>1. capacity \in Capacities /\ pipe \in Seq(Children) /\ Len(pipe) <= capacity
      /\ added \in Seq(Children \cup {Unset}) /\ i \in 1..Procs
  BY DEF TypeOK, Children
<1>2. capacity \in Nat BY <1>1, CapacityAssumption
<1>3. Len(pipe) \in Nat /\ Len(added) \in Nat BY <1>1, LenProperties
<1>. QED BY <1>1, <1>2, <1>3, ProcsAssumption

\* A child's place is the only one its step changes.
LEMMA Moved ==
  ASSUME TypeOK, NEW c \in Children, NEW to \in Places,
         child' = [child EXCEPT ![c] = to]
  PROVE  /\ child' \in [Children -> Places]
         /\ child'[c] = to
         /\ \A d \in Children : d # c => child'[d] = child[d]
BY DEF TypeOK, Places

\* The parent's loop counter stays within its loop.
LEMMA Advances ==
  ASSUME TypeOK, NEW again, NEW after, Advance(again, after)
  PROVE  /\ i' \in Children
         /\ \/ i < Procs /\ i' = i + 1 /\ pc' = again
            \/ i = Procs /\ i' = 1 /\ pc' = after
<1>1. Procs \in Nat \ {0} /\ i \in 1..Procs BY Numbers
<1>2. CASE i < Procs
  <2>1. i' = i + 1 /\ pc' = again BY <1>2 DEF Advance
  <2>. QED BY <1>1, <1>2, <2>1 DEF Children
<1>3. CASE ~ (i < Procs)
  <2>1. i' = 1 /\ pc' = after BY <1>3 DEF Advance
  <2>2. i = Procs BY <1>1, <1>3
  <2>. QED BY <1>1, <2>1, <2>2 DEF Children
<1>. QED BY <1>2, <1>3

LEMMA TypesParent == TypeOK /\ Parent => TypeOK'
<1>. SUFFICES ASSUME TypeOK, Parent PROVE TypeOK' OBVIOUS
<1>. USE DEF Parent
<1>1. CASE Fork
  <2>1. child' = [child EXCEPT ![i] = "start"] BY <1>1 DEF Fork
  <2>2. child' \in [Children -> Places] BY <2>1, Moved DEF TypeOK, Places
  <2>3. i' \in Children /\ pc' \in {"fork", "wait", "read", "ended", "exited"}
    BY <1>1, Advances DEF Fork, TypeOK
  <2>. QED BY <1>1, <2>2, <2>3 DEF Fork, TypeOK, Places
<1>2. CASE ForkFails
  <2>1. child' = [child EXCEPT ![i] = "failed"] BY <1>2 DEF ForkFails
  <2>2. child' \in [Children -> Places] BY <2>1, Moved DEF TypeOK, Places
  <2>3. i' \in Children /\ pc' \in {"fork", "wait", "read", "ended", "exited"}
    BY <1>2, Advances DEF ForkFails, TypeOK
  <2>. QED BY <1>2, <2>2, <2>3 DEF ForkFails, TypeOK, Places
<1>3. CASE Wait
  <2>1. i' \in Children /\ pc' \in {"fork", "wait", "read", "ended", "exited"}
    BY <1>3, Advances DEF Wait, TypeOK
  <2>. QED BY <1>3, <2>1 DEF Wait, TypeOK
<1>4. CASE Read
  <2>1. i' \in Children /\ pc' \in {"fork", "wait", "read", "ended", "exited"}
    BY <1>4, Advances DEF Read, TypeOK
  <2>2. it' \in Children \cup {Unset} /\ pipe' \in Seq(Children) /\ Len(pipe') <= capacity
    <3>1. CASE pipe # <<>>
      <4>1. it' = Head(pipe) /\ pipe' = Tail(pipe) BY <1>4, <3>1 DEF Read
      <4>2. Head(pipe) \in Children /\ Tail(pipe) \in Seq(Children)
            /\ Len(Tail(pipe)) = Len(pipe) - 1
        BY <3>1, HeadTailProperties DEF TypeOK
      <4>3. capacity \in Nat /\ Len(pipe) \in Nat /\ Len(pipe) <= capacity
        BY Numbers
      <4>. QED BY <4>1, <4>2, <4>3
    <3>2. CASE pipe = <<>> BY <1>4, <3>2 DEF Read, TypeOK
    <3>. QED BY <3>1, <3>2
  <2>3. added' \in Seq(Children \cup {Unset})
    <3>1. added' = Append(added, it') /\ added \in Seq(Children \cup {Unset})
      BY <1>4 DEF Read, TypeOK
    <3>. QED BY <2>2, <3>1
  <2>. QED BY <1>4, <2>1, <2>2, <2>3 DEF Read, TypeOK
<1>. QED BY <1>1, <1>2, <1>3, <1>4

LEMMA TypesChild ==
  ASSUME TypeOK, NEW c \in Children, Child(c) \/ Kill(c)
  PROVE  TypeOK'
<1>1. \E to \in Places : child' = [child EXCEPT ![c] = to]
  BY DEF Child, Kill, CloseReadEnd, Write, WriteBroken, CloseWriteEnd, ChildStep, Places
<1>2. child' \in [Children -> Places] BY <1>1, Moved
<1>3. pipe' \in Seq(Children) /\ Len(pipe') <= capacity
  <2>1. CASE Write(c)
    <3>1. Len(pipe) \in Nat /\ Len(pipe) < capacity /\ capacity \in Nat
      BY <2>1, Numbers DEF Write
    <3>2. pipe' = Append(pipe, c) /\ pipe \in Seq(Children) BY <2>1 DEF Write, TypeOK
    <3>3. Len(pipe') = Len(pipe) + 1 /\ pipe' \in Seq(Children) BY <3>2
    <3>. QED BY <3>1, <3>3
  <2>2. CASE ~ Write(c)
    <3>1. pipe' = pipe BY <2>2 DEF Child, Kill, CloseReadEnd, WriteBroken, CloseWriteEnd
    <3>. QED BY <3>1 DEF TypeOK
  <2>. QED BY <2>1, <2>2
<1>4. kills' \in 0..MaxKills
  <2>1. kills' = kills \/ (kills < MaxKills /\ kills' = kills + 1) BY DEF Child, Kill
  <2>2. kills \in 0..MaxKills BY DEF TypeOK
  <2>. QED BY <2>1, <2>2, KillsAssumption
<1>5. UNCHANGED <<prog, capacity, parentVars>> BY DEF Child, Kill
<1>. QED BY <1>2, <1>3, <1>4, <1>5 DEF TypeOK, Places, parentVars

LEMMA Stutters == TypeOK /\ UNCHANGED vars => TypeOK'
BY DEF TypeOK, vars, parentVars

-----------------------------------------------------------------------------
\* The parent's loop


LEMMA LoopParent == TypeOK /\ LoopInv /\ Parent => LoopInv'
<1>. SUFFICES ASSUME TypeOK, LoopInv, Parent PROVE LoopInv' OBVIOUS
<1>0. Procs \in Nat \ {0} /\ i \in 1..Procs /\ Len(added) \in Nat BY Numbers
<1>. DEFINE Others == \A c \in Children : c # i => child'[c] = child[c]
<1>1. CASE Fork \/ ForkFails
  <2>1. pc = "fork" /\ added' = added BY <1>1 DEF Fork, ForkFails
  <2>2. Others /\ child'[i] # "none"
    <3>1. \E to \in Places \ {"none"} : child' = [child EXCEPT ![i] = to]
      BY <1>1 DEF Fork, ForkFails, Places
    <3>. QED BY <3>1, <1>0, Moved DEF Children
  <2>3. Len(added) = 0 BY <2>1 DEF LoopInv
  <2>4. \A c \in Children : child[c] = "none" <=> c >= i BY <2>1 DEF LoopInv
  <2>5. \A c \in Children : child'[c] = "none" <=> c > i
    BY <1>0, <2>2, <2>4 DEF Children
  <2>6. \/ pc' = "wait" /\ i' = i
        \/ pc' = "exited"
        \/ i < Procs /\ i' = i + 1 /\ pc' = "fork"
        \/ i = Procs /\ i' = 1 /\ pc' = "read"
    BY <1>1, Advances DEF Fork, ForkFails
  <2>7. CASE pc' = "wait" /\ i' = i BY <2>1, <2>3, <2>5, <2>7 DEF LoopInv
  <2>8. CASE pc' = "exited" BY <2>1, <2>3, <2>8 DEF LoopInv
  <2>9. CASE i < Procs /\ i' = i + 1 /\ pc' = "fork"
    <3>1. \A c \in Children : c > i <=> c >= i + 1 BY <1>0 DEF Children
    <3>2. \A c \in Children : child'[c] = "none" <=> c >= i' BY <2>5, <2>9, <3>1
    <3>. QED BY <2>1, <2>3, <2>9, <3>2 DEF LoopInv
  <2>10. CASE i = Procs /\ i' = 1 /\ pc' = "read"
    <3>1. \A c \in Children : ~ (c > i) BY <1>0, <2>10 DEF Children
    <3>2. \A c \in Children : child'[c] # "none" BY <2>5, <3>1
    <3>3. Len(added') = i' - 1 BY <2>1, <2>3, <2>10
    <3>. QED BY <2>10, <3>2, <3>3 DEF LoopInv
  <2>. QED BY <2>6, <2>7, <2>8, <2>9, <2>10
<1>2. CASE Wait
  <2>1. pc = "wait" /\ added' = added /\ child' = child BY <1>2 DEF Wait
  <2>2. Len(added) = 0 BY <2>1 DEF LoopInv
  <2>3. \A c \in Children : child[c] = "none" <=> c > i BY <2>1 DEF LoopInv
  <2>4. \/ i < Procs /\ i' = i + 1 /\ pc' = "fork"
        \/ i = Procs /\ i' = 1 /\ pc' = "read"
    BY <1>2, Advances DEF Wait
  <2>5. CASE i < Procs /\ i' = i + 1 /\ pc' = "fork"
    <3>1. \A c \in Children : c > i <=> c >= i + 1 BY <1>0 DEF Children
    <3>2. \A c \in Children : child'[c] = "none" <=> c >= i' BY <2>1, <2>3, <2>5, <3>1
    <3>. QED BY <2>1, <2>2, <2>5, <3>2 DEF LoopInv
  <2>6. CASE i = Procs /\ i' = 1 /\ pc' = "read"
    <3>1. \A c \in Children : ~ (c > i) BY <1>0, <2>6 DEF Children
    <3>2. \A c \in Children : child'[c] # "none" BY <2>1, <2>3, <3>1
    <3>3. Len(added') = i' - 1 BY <2>1, <2>2, <2>6
    <3>. QED BY <2>6, <3>2, <3>3 DEF LoopInv
  <2>. QED BY <2>4, <2>5, <2>6
<1>3. CASE Read
  <2>1. pc = "read" /\ child' = child /\ added' = Append(added, it') BY <1>3 DEF Read
  <2>2. Len(added) = i - 1 /\ \A c \in Children : child[c] # "none" BY <2>1 DEF LoopInv
  <2>3. Len(added') = i
    <3>1. added \in Seq(Children \cup {Unset}) BY DEF TypeOK
    <3>2. Len(Append(added, it')) = Len(added) + 1 BY <3>1
    <3>. QED BY <1>0, <2>1, <2>2, <3>2
  <2>4. \/ i < Procs /\ i' = i + 1 /\ pc' = "read"
        \/ i = Procs /\ i' = 1 /\ pc' = "ended"
    BY <1>3, Advances DEF Read
  <2>5. CASE i < Procs /\ i' = i + 1 /\ pc' = "read"
    <3>1. Len(added') = i' - 1 BY <1>0, <2>3, <2>5
    <3>. QED BY <2>1, <2>2, <2>5, <3>1 DEF LoopInv
  <2>6. CASE i = Procs /\ i' = 1 /\ pc' = "ended"
    BY <2>1, <2>2, <2>3, <2>6 DEF LoopInv
  <2>. QED BY <2>4, <2>5, <2>6
<1>. QED BY <1>1, <1>2, <1>3 DEF Parent

\* A child's step leaves the loop alone: only the parent makes children.
LEMMA LoopChild ==
  ASSUME TypeOK, LoopInv, NEW c \in Children, Child(c) \/ Kill(c)
  PROVE  LoopInv'
<1>1. child[c] # "none" /\ \E to \in Places \ {"none"} : child' = [child EXCEPT ![c] = to]
  BY DEF Child, Kill, CloseReadEnd, Write, WriteBroken, CloseWriteEnd, ChildStep, Places
<1>2. \A d \in Children : child'[d] = "none" <=> child[d] = "none" BY <1>1, Moved
<1>3. pc' = pc /\ i' = i /\ added' = added BY DEF Child, Kill, parentVars
<1>. QED BY <1>2, <1>3 DEF LoopInv

-----------------------------------------------------------------------------
\* The results

\* What the first n values read and the pipe hold, as a fact about lists.
LEMMA ResultsInit == Init => ResultsInv
<1>. SUFFICES ASSUME Init PROVE ResultsInv OBVIOUS
<1>1. added = <<>> /\ pipe = <<>> /\ it = Unset /\ \A c \in Children : child[c] = "none"
  BY DEF Init
<1>2. Len(added) = 0 /\ Len(pipe) = 0 BY <1>1
<1>3. 1..0 = {} /\ (0 + 1)..0 = {} OBVIOUS
<1>4. FirstRead(0) BY <1>1, <1>2, <1>3 DEF FirstRead
<1>5. \A c \in Children : c \notin Wrote BY <1>1 DEF Wrote
<1>6. OneWay(0) BY <1>2, <1>3, <1>5 DEF OneWay
<1>. QED BY <1>2, <1>4, <1>6 DEF ResultsInv

\* A step that writes and reads nothing: nobody becomes a writer after all results
\* are read.
LEMMA ResultsKept ==
  ASSUME TypeOK, ResultsInv, UNCHANGED <<pipe, it, added>>, Wrote' = Wrote,
         (~WriteEndOpen /\ Len(added) > 0) => (~WriteEndOpen)'
  PROVE  ResultsInv'
<1>1. PICK n \in 0..Len(added) : FirstRead(n) /\ OneWay(n) BY DEF ResultsInv
<1>2. Len(added) \in Nat BY Numbers
<1>3. n < Len(added) => Len(added) > 0 BY <1>2
<1>4. FirstRead(n)' BY <1>1 DEF FirstRead
<1>5. OneWay(n)' BY <1>1, <1>3 DEF OneWay
<1>. QED BY <1>1, <1>4, <1>5 DEF ResultsInv

\* While a child may write, every value added was read from the pipe.
LEMMA AllRead ==
  ASSUME TypeOK, NEW n \in 0..Len(added), OneWay(n), WriteEndOpen \/ pipe # <<>>
  PROVE  n = Len(added)
<1>1. Len(added) \in Nat BY Numbers
<1>2. ~ (n < Len(added)) BY DEF OneWay
<1>. QED BY <1>1, <1>2

LEMMA ResultsWrite ==
  ASSUME TypeOK, ResultsInv, NEW c \in Children, Write(c), UNCHANGED parentVars
  PROVE  ResultsInv'
<1>1. PICK n \in 0..Len(added) : FirstRead(n) /\ OneWay(n) BY DEF ResultsInv
<1>2. child[c] = "write" /\ child' = [child EXCEPT ![c] = "close"] /\ pipe' = Append(pipe, c)
  BY DEF Write, ChildStep
<1>3. n = Len(added) BY <1>1, <1>2, AllRead DEF WriteEndOpen
<1>4. added' = added /\ it' = it BY DEF parentVars
<1>5. FirstRead(n)' BY <1>1, <1>4 DEF FirstRead
<1>6. c \notin Wrote BY <1>2 DEF Wrote
<1>7. Wrote' = Wrote \cup {c}
  <2>1. child'[c] = "close" /\ \A d \in Children : d # c => child'[d] = child[d]
    BY <1>2, Moved DEF Places
  <2>. QED BY <2>1 DEF Wrote
<1>. DEFINE l == Len(pipe)
<1>8. /\ l \in Nat /\ Len(pipe') = l + 1 /\ pipe'[l + 1] = c
      /\ \A j \in 1..l : pipe'[j] = pipe[j]
  <2>1. pipe \in Seq(Children) BY DEF TypeOK
  <2>. QED BY <2>1, <1>2
<1>9. \A j \in 1..Len(pipe') : j \in 1..l \/ j = l + 1 BY <1>8
<1>10. \A j \in 1..l : pipe[j] # c
  <2>1. pipe \in Seq(Children) BY DEF TypeOK
  <2>2. \A j \in 1..l : pipe[j] \in Children BY <2>1
  <2>. QED BY <1>1, <1>6, <2>2 DEF OneWay
<1>11. \A k \in 1..n : added[k] # c
  <2>1. \A k \in 1..n : added[k] \in Children BY <1>1 DEF FirstRead
  <2>. QED BY <1>1, <1>6, <2>1 DEF OneWay
<1>12. \A j, k \in 1..Len(pipe') : pipe'[j] = pipe'[k] => j = k
  BY <1>1, <1>8, <1>9, <1>10 DEF OneWay
<1>13. \A j \in 1..Len(pipe') : \A k \in 1..n : pipe'[j] # added'[k]
  BY <1>1, <1>4, <1>8, <1>9, <1>11 DEF OneWay
<1>14. \A d \in Children : d \in Wrote' <=> \/ \E k \in 1..n : added'[k] = d
                                            \/ \E j \in 1..Len(pipe') : pipe'[j] = d
  <2>1. \A d : (\E j \in 1..Len(pipe') : pipe'[j] = d)
                 <=> (d = c \/ \E j \in 1..l : pipe[j] = d)
    <3>1. l + 1 \in 1..Len(pipe') /\ 1..l \subseteq 1..Len(pipe') BY <1>8
    <3>. QED BY <3>1, <1>8, <1>9
  <2>2. \A d \in Children : d \in Wrote <=> \/ \E k \in 1..n : added[k] = d
                                            \/ \E j \in 1..l : pipe[j] = d
    BY <1>1 DEF OneWay
  <2>. QED BY <1>4, <1>7, <2>1, <2>2
<1>15. ~ (n < Len(added')) BY <1>3, <1>4, Numbers
<1>16. OneWay(n)' BY <1>12, <1>13, <1>14, <1>15 DEF OneWay
<1>. QED BY <1>3, <1>4, <1>5, <1>16 DEF ResultsInv

\* A value read from the pipe joins those read before.
LEMMA ResultsRead ==
  ASSUME TypeOK, ResultsInv, Read, pipe # <<>>
  PROVE  ResultsInv'
<1>1. PICK n \in 0..Len(added) : FirstRead(n) /\ OneWay(n) BY DEF ResultsInv
<1>2. it' = Head(pipe) /\ pipe' = Tail(pipe) /\ added' = Append(added, it') /\ child' = child
  BY DEF Read
<1>3. n = Len(added) /\ n \in Nat BY <1>1, AllRead, Numbers
<1>. DEFINE h == pipe[1]
            l == Len(pipe)
<1>4. /\ l \in Nat \ {0} /\ it' = h /\ h \in Children /\ Len(pipe') = l - 1
      /\ \A j \in 1..(l - 1) : pipe'[j] = pipe[j + 1]
  <2>1. pipe \in Seq(Children) BY DEF TypeOK
  <2>2. l \in Nat \ {0} /\ Head(pipe) = h /\ h \in Children BY <2>1
  <2>3. Len(Tail(pipe)) = l - 1 /\ \A j \in 1..Len(Tail(pipe)) : Tail(pipe)[j] = pipe[j + 1]
    BY <2>1, HeadTailProperties
  <2>. QED BY <1>2, <2>2, <2>3
<1>5. /\ Len(added') = n + 1 /\ added'[n + 1] = h
      /\ \A k \in 1..n : added'[k] = added[k]
  <2>1. added \in Seq(Children \cup {Unset}) BY DEF TypeOK
  <2>. QED BY <2>1, <1>2, <1>3, <1>4
<1>6. \A k \in 1..(n + 1) : k \in 1..n \/ k = n + 1 BY <1>3
<1>7. \A k \in 1..n : added[k] # h
  <2>1. 1 \in 1..l BY <1>4
  <2>. QED BY <2>1, <1>1 DEF OneWay
<1>8. FirstRead(n + 1)'
  <2>1. \A k \in 1..(n + 1) : added'[k] \in Children BY <1>1, <1>4, <1>5, <1>6 DEF FirstRead
  <2>2. \A j, k \in 1..(n + 1) : added'[j] = added'[k] => j = k
    BY <1>1, <1>5, <1>6, <1>7 DEF FirstRead
  <2>3. it' = added'[n + 1] /\ n + 1 # 0 BY <1>3, <1>4, <1>5
  <2>4. ((n + 1) + 1)..Len(added') = {} BY <1>3, <1>5
  <2>. QED BY <2>1, <2>2, <2>3, <2>4 DEF FirstRead
<1>9. \A j \in 1..(l - 1) : j + 1 \in 1..l /\ j + 1 # 1 BY <1>4
<1>10. 1 \in 1..l BY <1>4
<1>11. \A j \in 1..(l - 1) : pipe'[j] # h BY <1>1, <1>4, <1>9, <1>10 DEF OneWay
<1>12. \A j, k \in 1..(l - 1) : pipe'[j] = pipe'[k] => j = k
  <2>. SUFFICES ASSUME NEW j \in 1..(l - 1), NEW k \in 1..(l - 1), pipe'[j] = pipe'[k]
                PROVE  j = k
    OBVIOUS
  <2>1. pipe[j + 1] = pipe[k + 1] BY <1>4
  <2>2. j + 1 = k + 1 BY <1>1, <1>9, <2>1 DEF OneWay
  <2>. QED BY <1>4, <2>2
<1>13. \A j \in 1..(l - 1) : \A k \in 1..(n + 1) : pipe'[j] # added'[k]
  <2>. SUFFICES ASSUME NEW j \in 1..(l - 1), NEW k \in 1..(n + 1), pipe'[j] = added'[k]
                PROVE  FALSE
    OBVIOUS
  <2>1. CASE k = n + 1 BY <2>1, <1>5, <1>11
  <2>2. CASE k \in 1..n
    <3>1. pipe[j + 1] = added[k] BY <2>2, <1>4, <1>5
    <3>. QED BY <1>1, <1>9, <2>2, <3>1 DEF OneWay
  <2>. QED BY <1>6, <2>1, <2>2
<1>14. Wrote' = Wrote BY <1>2 DEF Wrote
<1>15. \A c : (\E k \in 1..(n + 1) : added'[k] = c) <=> (c = h \/ \E k \in 1..n : added[k] = c)
  <2>1. n + 1 \in 1..(n + 1) /\ 1..n \subseteq 1..(n + 1) BY <1>3
  <2>. QED BY <2>1, <1>5, <1>6
<1>16. \A c : (c = h \/ \E j \in 1..(l - 1) : pipe'[j] = c) <=> (\E j \in 1..l : pipe[j] = c)
  <2>1. \A j \in 1..l : j = 1 \/ (j - 1 \in 1..(l - 1) /\ (j - 1) + 1 = j) BY <1>4
  <2>2. \A c : (\E j \in 1..l : pipe[j] = c) => (c = h \/ \E j \in 1..(l - 1) : pipe'[j] = c)
    <3>. SUFFICES ASSUME NEW c, NEW j \in 1..l, pipe[j] = c, c # h
                  PROVE  \E k \in 1..(l - 1) : pipe'[k] = c
      OBVIOUS
    <3>1. j - 1 \in 1..(l - 1) /\ (j - 1) + 1 = j BY <2>1
    <3>2. pipe'[j - 1] = pipe[j] BY <1>4, <3>1
    <3>. QED BY <3>1, <3>2
  <2>3. \A c : (c = h \/ \E j \in 1..(l - 1) : pipe'[j] = c) => (\E j \in 1..l : pipe[j] = c)
    BY <1>4, <1>9, <1>10
  <2>. QED BY <2>2, <2>3
<1>17. \A c \in Children : c \in Wrote' <=> \/ \E k \in 1..(n + 1) : added'[k] = c
                                            \/ \E j \in 1..(l - 1) : pipe'[j] = c
  <2>1. \A c \in Children : c \in Wrote <=> \/ \E k \in 1..n : added[k] = c
                                            \/ \E j \in 1..l : pipe[j] = c
    BY <1>1 DEF OneWay
  <2>. QED BY <1>14, <1>15, <1>16, <2>1
<1>18. ~ (n + 1 < Len(added')) BY <1>3, <1>5
<1>19. OneWay(n + 1)' BY <1>4, <1>12, <1>13, <1>17, <1>18 DEF OneWay
<1>20. n + 1 \in 0..Len(added') BY <1>3, <1>5
<1>. QED BY <1>8, <1>19, <1>20 DEF ResultsInv

\* At the end of the file the last value is added again.
LEMMA ResultsAgain ==
  ASSUME TypeOK, ResultsInv, Read, pipe = <<>>
  PROVE  ResultsInv'
<1>1. PICK n \in 0..Len(added) : FirstRead(n) /\ OneWay(n) BY DEF ResultsInv
<1>2. /\ it' = it /\ pipe' = pipe /\ added' = Append(added, it) /\ child' = child
      /\ ~WriteEndOpen
  BY DEF Read
<1>. DEFINE m == Len(added)
<1>3. n \in Nat /\ m \in Nat /\ n <= m BY <1>1, Numbers
<1>4. Len(added') = m + 1 /\ added'[m + 1] = it /\ \A k \in 1..m : added'[k] = added[k]
  <2>1. added \in Seq(Children \cup {Unset}) BY DEF TypeOK
  <2>. QED BY <2>1, <1>2
<1>5. /\ \A k \in 1..n : k \in 1..m
      /\ \A k \in (n + 1)..(m + 1) : k = m + 1 \/ (k \in 1..m /\ k \in (n + 1)..m)
  BY <1>3
<1>6. \A k \in 1..n : added'[k] = added[k] BY <1>4, <1>5
<1>7. FirstRead(n)'
  <2>1. \A k \in (n + 1)..(m + 1) : added'[k] = it BY <1>1, <1>4, <1>5 DEF FirstRead
  <2>2. n # 0 => n \in 1..n BY <1>3
  <2>3. it = IF n = 0 THEN Unset ELSE added'[n] BY <1>1, <1>6, <2>2 DEF FirstRead
  <2>4. \A k \in 1..n : added'[k] \in Children BY <1>1, <1>6 DEF FirstRead
  <2>5. \A j, k \in 1..n : added'[j] = added'[k] => j = k BY <1>1, <1>6 DEF FirstRead
  <2>. QED BY <1>2, <1>4, <2>1, <2>3, <2>4, <2>5 DEF FirstRead
<1>8. OneWay(n)'
  <2>1. Wrote' = Wrote /\ WriteEndOpen' = WriteEndOpen BY <1>2 DEF Wrote, WriteEndOpen
  <2>2. Len(pipe') = Len(pipe) BY <1>2
  <2>3. \A j, k \in 1..Len(pipe) : pipe[j] = pipe[k] => j = k BY <1>1 DEF OneWay
  <2>4. \A j \in 1..Len(pipe) : \A k \in 1..n : pipe[j] # added'[k]
    BY <1>1, <1>6 DEF OneWay
  <2>5. \A c \in Children : c \in Wrote <=> \/ \E k \in 1..n : added'[k] = c
                                            \/ \E j \in 1..Len(pipe) : pipe[j] = c
    BY <1>1, <1>6 DEF OneWay
  <2>. QED BY <1>2, <2>1, <2>2, <2>3, <2>4, <2>5 DEF OneWay
<1>9. n \in 0..Len(added') BY <1>3, <1>4
<1>. QED BY <1>7, <1>8, <1>9 DEF ResultsInv

LEMMA ResultsParent == TypeOK /\ LoopInv /\ ResultsInv /\ Parent => ResultsInv'
<1>. SUFFICES ASSUME TypeOK, LoopInv, ResultsInv, Parent PROVE ResultsInv' OBVIOUS
<1>1. CASE Fork \/ ForkFails
  <2>1. pc = "fork" /\ UNCHANGED <<pipe, it, added>> BY <1>1 DEF Fork, ForkFails
  <2>2. Len(added) = 0 /\ child[i] = "none"
    <3>1. i \in Children /\ i >= i BY Numbers DEF Children
    <3>. QED BY <2>1, <3>1 DEF LoopInv
  <2>3. Wrote' = Wrote
    <3>1. i \in Children BY Numbers DEF Children
    <3>2. child'[i] \in {"start", "failed"}
          /\ \A c \in Children : c # i => child'[c] = child[c]
      <4>1. \E to \in {"start", "failed"} : child' = [child EXCEPT ![i] = to]
        BY <1>1 DEF Fork, ForkFails
      <4>2. {"start", "failed"} \subseteq Places BY DEF Places
      <4>. QED BY <3>1, <4>1, <4>2, Moved
    <3>. QED BY <2>2, <3>1, <3>2 DEF Wrote
  <2>. QED BY <2>1, <2>2, <2>3, ResultsKept
<1>2. CASE Wait
  <2>1. UNCHANGED <<pipe, it, added, child>> BY <1>2 DEF Wait
  <2>2. Wrote' = Wrote /\ WriteEndOpen' = WriteEndOpen BY <2>1 DEF Wrote, WriteEndOpen
  <2>. QED BY <2>1, <2>2, ResultsKept
<1>. QED BY <1>1, <1>2, ResultsRead, ResultsAgain DEF Parent

LEMMA ResultsChild ==
  ASSUME TypeOK, ResultsInv, NEW c \in Children, Child(c) \/ Kill(c)
  PROVE  ResultsInv'
<1>1. UNCHANGED parentVars BY DEF Child, Kill
<1>2. CASE Write(c) BY <1>1, <1>2, ResultsWrite
<1>3. CASE ~ Write(c)
  <2>1. UNCHANGED <<pipe, it, added>>
    BY <1>1, <1>3 DEF Child, Kill, CloseReadEnd, WriteBroken, CloseWriteEnd, parentVars
  <2>2. \E to \in Places : child' = [child EXCEPT ![c] = to]
        /\ (child[c] \in {"close", "done"} <=> to \in {"close", "done"})
        /\ child[c] \in {"start", "write", "close"}
    BY <1>3 DEF Child, Kill, CloseReadEnd, WriteBroken, CloseWriteEnd, ChildStep, Places
  <2>3. /\ child'[c] \in {"close", "done"} <=> child[c] \in {"close", "done"}
        /\ \A d \in Children : d # c => child'[d] = child[d]
    BY <2>2, Moved
  <2>4. Wrote' = Wrote BY <2>3 DEF Wrote
  <2>5. ~WriteEndOpen => FALSE BY <2>2 DEF WriteEndOpen
  <2>. QED BY <2>1, <2>4, <2>5, ResultsKept
<1>. QED BY <1>2, <1>3

-----------------------------------------------------------------------------
\* The end

\* Numbers of children that differ are at most Procs many, and Procs of them are all.
LEMMA AllChildren ==
  ASSUME NEW n \in Nat, NEW s \in [1..n -> Children],
         \A j, k \in 1..n : s[j] = s[k] => j = k
  PROVE  n <= Procs /\ (n = Procs => \A c \in Children : \E j \in 1..n : s[j] = c)
<1>1. Procs \in Nat \ {0} BY ProcsAssumption
<1>2. IsFiniteSet(Children) /\ Cardinality(Children) = Procs
  BY <1>1, FS_Interval DEF Children
<1>3. Cardinality(1..n) = n BY FS_Interval
<1>4. s \in Injection(1..n, Children) BY DEF Injection, IsInjective
<1>5. n <= Procs /\ (n = Procs => s \in Surjection(1..n, Children))
  BY <1>2, <1>3, <1>4, FS_Injection
<1>. QED BY <1>5 DEF Surjection

\* The parent has read whatever was written when it has added Procs values: either the
\* file ended before, or each value came from another child.
LEMMA AllTaken ==
  ASSUME TypeOK, LoopInv, NEW n \in 0..Len(added), FirstRead(n), OneWay(n), pc = "ended"
  PROVE  pipe = <<>> /\ (~WriteEndOpen \/ Wrote = Children)
<1>1. n \in Nat /\ n <= Procs /\ Procs \in Nat /\ Len(added) = Procs
  BY Numbers DEF LoopInv
<1>2. CASE n < Procs BY <1>1, <1>2 DEF OneWay
<1>3. CASE n = Procs
  <2>. DEFINE s == [k \in 1..n |-> added[k]]
  <2>1. s \in [1..n -> Children] BY DEF FirstRead
  <2>2. \A j, k \in 1..n : s[j] = s[k] => j = k BY DEF FirstRead
  <2>. HIDE DEF s
  <2>3. \A c \in Children : \E j \in 1..n : s[j] = c
    BY <1>1, <1>3, <2>1, <2>2, AllChildren, ZenonT(30)
  <2>. USE DEF s
  <2>4. \A c \in Children : \E j \in 1..n : added[j] = c BY <2>3
  <2>5. Wrote = Children BY <2>4 DEF OneWay, Wrote
  <2>6. pipe = <<>>
    <3>. SUFFICES ASSUME pipe # <<>> PROVE FALSE OBVIOUS
    <3>1. pipe \in Seq(Children) BY DEF TypeOK
    <3>2. 1 \in 1..Len(pipe) /\ pipe[1] \in Children BY <3>1
    <3>. QED BY <3>2, <2>4 DEF OneWay
  <2>. QED BY <2>5, <2>6
<1>. QED BY <1>1, <1>2, <1>3

LEMMA BrokenStep ==
  ASSUME TypeOK, LoopInv, ResultsInv, BrokenOnlyByExit, [Next]_vars
  PROVE  BrokenOnlyByExit'
<1>1. CASE UNCHANGED vars BY <1>1 DEF vars, parentVars, BrokenOnlyByExit
<1>2. CASE Parent
  <2>1. pc # "exited" BY <1>2 DEF Parent, Fork, ForkFails, Wait, Read
  <2>2. \A c \in Children : child[c] # "broken pipe" BY <2>1 DEF BrokenOnlyByExit
  <2>3. CASE Fork \/ ForkFails
    <3>1. \E to \in {"start", "failed"} : child' = [child EXCEPT ![i] = to]
      BY <2>3 DEF Fork, ForkFails
    <3>2. {"start", "failed"} \subseteq Places /\ i \in Children
      BY DEF TypeOK, Places
    <3>3. child'[i] # "broken pipe" /\ \A c \in Children : c # i => child'[c] = child[c]
      BY <3>1, <3>2, Moved
    <3>. QED BY <2>2, <3>3 DEF BrokenOnlyByExit
  <2>4. CASE Wait \/ Read BY <2>2, <2>4 DEF Wait, Read, BrokenOnlyByExit
  <2>. QED BY <1>2, <2>3, <2>4 DEF Parent
<1>3. ASSUME NEW c \in Children, Child(c) \/ Kill(c) PROVE BrokenOnlyByExit'
  <2>1. pc' = pc BY <1>3 DEF Child, Kill, parentVars
  <2>2. CASE pc = "exited" BY <2>1, <2>2 DEF BrokenOnlyByExit
  <2>3. CASE pc # "exited"
    <3>1. \A d \in Children : child[d] # "broken pipe" BY <2>3 DEF BrokenOnlyByExit
    <3>2. ~ WriteBroken(c)
      <4>. SUFFICES ASSUME WriteBroken(c) PROVE FALSE OBVIOUS
      <4>1. child[c] = "write" /\ ~ReadEndOpen BY DEF WriteBroken, ChildStep
      <4>2. pc = "ended" BY <2>3, <4>1 DEF ReadEndOpen, TypeOK
      <4>3. PICK n \in 0..Len(added) : FirstRead(n) /\ OneWay(n) BY DEF ResultsInv
      <4>4. ~WriteEndOpen \/ Wrote = Children BY <4>2, <4>3, AllTaken
      <4>. QED BY <4>1, <4>4 DEF WriteEndOpen, Wrote
    <3>3. \E to \in Places \ {"broken pipe"} : child' = [child EXCEPT ![c] = to]
      BY <1>3, <3>2 DEF Child, Kill, CloseReadEnd, Write, CloseWriteEnd, ChildStep, Places
    <3>4. \A d \in Children : child'[d] # "broken pipe" BY <3>1, <3>3, Moved
    <3>. QED BY <3>4 DEF BrokenOnlyByExit
  <2>. QED BY <2>2, <2>3
<1>. QED BY <1>1, <1>2, <1>3 DEF Next

LEMMA InitInv == Init => IInv
<1>. SUFFICES ASSUME Init PROVE IInv OBVIOUS
<1>1. TypeOK
  <2>1. 1 \in Children BY ProcsAssumption DEF Children
  <2>2. capacity \in Nat /\ capacity \in Capacities BY CapacityAssumption DEF Init
  <2>3. kills \in 0..MaxKills BY KillsAssumption DEF Init
  <2>4. pipe \in Seq(Children) /\ Len(pipe) <= capacity /\ added \in Seq(Children \cup {Unset})
    BY <2>2 DEF Init
  <2>. QED BY <2>1, <2>2, <2>3, <2>4 DEF Init, TypeOK
<1>2. LoopInv
  <2>1. Len(added) = 0 BY DEF Init
  <2>2. \A c \in Children : child[c] = "none" /\ c >= 1 BY DEF Init, Children
  <2>. QED BY <2>1, <2>2 DEF Init, LoopInv
<1>3. BrokenOnlyByExit BY DEF Init, BrokenOnlyByExit
<1>. QED BY <1>1, <1>2, <1>3, ResultsInit DEF IInv

LEMMA StepInv == IInv /\ [Next]_vars => IInv'
<1>. SUFFICES ASSUME IInv, [Next]_vars PROVE IInv' OBVIOUS
<1>. USE DEF IInv
<1>1. TypeOK' BY TypesParent, TypesChild, Stutters DEF Next
<1>2. LoopInv'
  <2>1. CASE UNCHANGED vars BY <2>1 DEF vars, parentVars, LoopInv
  <2>. QED BY <2>1, LoopParent, LoopChild DEF Next
<1>3. ResultsInv'
  <2>1. CASE UNCHANGED vars
    <3>1. Wrote' = Wrote /\ WriteEndOpen' = WriteEndOpen /\ UNCHANGED <<pipe, it, added>>
      BY <2>1 DEF vars, parentVars, Wrote, WriteEndOpen
    <3>. QED BY <3>1, ResultsKept
  <2>. QED BY <2>1, ResultsParent, ResultsChild DEF Next
<1>4. BrokenOnlyByExit' BY BrokenStep
<1>. QED BY <1>1, <1>2, <1>3, <1>4

\* The parent's loops and the results in and out of the pipe are what IInv says, for
\* any number of children and any capacity.
THEOREM PipesInvariant == Spec => []IInv
BY InitInv, StepInv, PTL DEF Spec

\* The parent closes its read end early only when it exits on a failed fork: no child
\* of a parent that ends dies of a broken pipe.
THEOREM BrokenPipesMeanExit == Spec => []BrokenOnlyByExit
<1>1. IInv => BrokenOnlyByExit BY DEF IInv
<1>. QED BY <1>1, PipesInvariant, PTL

\* Every result that was written is added once, before a repeated one, and the repeated
\* ones stand for the results that were not written.
THEOREM RepeatsAreLast == Spec => []MissingRepeatsLast
<1>1. IInv => MissingRepeatsLast
  <2>. SUFFICES ASSUME IInv, pc = "ended" PROVE MissingRepeatsLast
    BY DEF MissingRepeatsLast
  <2>. USE DEF IInv
  <2>1. PICK n \in 0..Len(added) : FirstRead(n) /\ OneWay(n) BY DEF ResultsInv
  <2>2. n \in Nat /\ n <= Procs /\ Procs \in Nat /\ Len(added) = Procs
    BY Numbers DEF LoopInv
  <2>3. pipe = <<>> BY <2>1, AllTaken
  <2>. DEFINE s == [k \in 1..n |-> added[k]]
  <2>4. 1..Len(pipe) = {}
    <3>1. Len(pipe) = 0 BY <2>3
    <3>. QED BY <3>1
  <2>5. \A c \in Children : c \in Wrote <=> \E k \in 1..n : added[k] = c
    BY <2>1, <2>4 DEF OneWay
  <2>6. \A k \in 1..n : added[k] \in Children BY <2>1 DEF FirstRead
  <2>7. Wrote \subseteq Children BY DEF Wrote
  <2>8. Cardinality(Wrote) = n
    <3>1. s \in [1..n -> Wrote] BY <2>5, <2>6
    <3>2. \A j, k \in 1..n : s[j] = s[k] => j = k BY <2>1 DEF FirstRead
    <3>3. \A c \in Wrote : \E k \in 1..n : s[k] = c BY <2>5, <2>7
    <3>4. s \in Injection(1..n, Wrote) /\ s \in Surjection(1..n, Wrote)
      BY <3>1, <3>2, <3>3 DEF Injection, IsInjective, Surjection
    <3>5. IsFiniteSet(1..n) /\ Cardinality(1..n) = n BY FS_Interval
    <3>. QED BY <3>4, <3>5, FS_Surjection, ZenonT(30)
  <2>9. ToSet(SubSeq(added, 1, n)) = Wrote
    <3>1. \A k \in 1..n : added[k] \in Children BY <2>6
    <3>2. SubSeq(added, 1, n) \in Seq(Children) /\ Len(SubSeq(added, 1, n)) = n
          /\ \A k \in 1..n : SubSeq(added, 1, n)[k] = added[k]
      <4>1. IF 1 <= n THEN n - 1 + 1 = n ELSE n = 0 BY <2>2
      <4>2. n - 1 + 1 = n /\ \A k \in 1..n : 1 + k - 1 = k BY <2>2
      <4>. QED BY <3>1, <4>1, <4>2, <2>2, SubSeqProperties
    <3>3. DOMAIN SubSeq(added, 1, n) = 1..n BY <3>2, LenProperties
    <3>4. ToSet(SubSeq(added, 1, n)) = {added[k] : k \in 1..n}
      BY <3>2, <3>3, Zenon DEF ToSet
    <3>. QED BY <3>4, <2>5, <2>6, <2>7
  <2>10. \A k \in (n + 1)..Procs : added[k] = IF n = 0 THEN Unset ELSE added[n]
    BY <2>1, <2>2 DEF FirstRead
  <2>. QED BY <2>2, <2>8, <2>9, <2>10 DEF MissingRepeatsLast
<1>. QED BY <1>1, PipesInvariant, PTL

=============================================================================
