---------------------------- MODULE UserAddProofs ----------------------------
(***************************************************************************)
(* What usgen guarantees for any number of instances, any lists of users   *)
(* and any number of kills and lost lines.                                 *)
(***************************************************************************)
EXTENDS UserAdd, SequenceTheorems, TLAPS

-----------------------------------------------------------------------------
\* Files and sequences.

LEMMA FileNames ==
  /\ Files = {"passwd", "group", "gshadow", "shadow"}
  /\ ToSet(Locked) = {"passwd", "group", "gshadow"}
  /\ Len(Written) = 4 /\ Len(Locked) = 3
  /\ Written[1] = "passwd" /\ Written[2] = "group"
  /\ Written[3] = "gshadow" /\ Written[4] = "shadow"
  /\ Locked[1] = "passwd" /\ Locked[2] = "group" /\ Locked[3] = "gshadow"
<1>1. Files = {Written[k] : k \in 1..4}
  <2>1. DOMAIN Written = 1..4 BY DEF Written
  <2>. QED BY <2>1, Zenon DEF Files, ToSet
<1>2. ToSet(Locked) = {Locked[k] : k \in 1..3}
  <2>1. DOMAIN Locked = 1..3 BY DEF Locked
  <2>. QED BY <2>1, Zenon DEF ToSet
<1>3. /\ Len(Written) = 4 /\ Len(Locked) = 3
      /\ Written[1] = "passwd" /\ Written[2] = "group" /\ Written[3] = "gshadow"
      /\ Written[4] = "shadow"
      /\ Locked[1] = "passwd" /\ Locked[2] = "group" /\ Locked[3] = "gshadow"
  BY DEF Written, Locked
<1>4. 1..4 = {1, 2, 3, 4} /\ 1..3 = {1, 2, 3} OBVIOUS
<1>5. Files = {"passwd", "group", "gshadow", "shadow"} BY <1>1, <1>3, <1>4
<1>6. ToSet(Locked) = {"passwd", "group", "gshadow"} BY <1>2, <1>3, <1>4
<1>. QED BY <1>3, <1>5, <1>6

LEMMA FileIndex ==
  /\ \A k \in 1..4 : Written[k] \in Files
  /\ \A j, k \in 1..4 : Written[j] = Written[k] => j = k
  /\ \A k \in 1..3 : Locked[k] \in ToSet(Locked)
  /\ \A j, k \in 1..3 : Locked[j] = Locked[k] => j = k
  /\ \A f \in Files : \E k \in 1..4 : f = Written[k]
  /\ \A f \in ToSet(Locked) : \E k \in 1..3 : f = Locked[k]
<1>1. /\ \A k \in 1..4 : k = 1 \/ k = 2 \/ k = 3 \/ k = 4
      /\ \A k \in 1..3 : k = 1 \/ k = 2 \/ k = 3
      /\ 1 \in 1..4 /\ 2 \in 1..4 /\ 3 \in 1..4 /\ 4 \in 1..4
      /\ 1 \in 1..3 /\ 2 \in 1..3 /\ 3 \in 1..3
  OBVIOUS
<1>. QED BY <1>1, FileNames

LEMMA Appended ==
  ASSUME NEW S, NEW s \in Seq(S), NEW x \in S
  PROVE  /\ Append(s, x) \in Seq(S) /\ Len(Append(s, x)) = Len(s) + 1 /\ Append(s, x) # <<>>
         /\ \A k \in 1..Len(s) : Append(s, x)[k] = s[k]
         /\ Append(s, x)[Len(s) + 1] = x /\ Last(Append(s, x)) = x
         /\ ToSet(Append(s, x)) = ToSet(s) \cup {x}
<1>1. /\ Append(s, x) \in Seq(S) /\ Len(Append(s, x)) = Len(s) + 1
      /\ \A k \in 1..Len(s) : Append(s, x)[k] = s[k]
      /\ Append(s, x)[Len(s) + 1] = x
  BY AppendProperties
<1>2. Len(s) \in Nat /\ DOMAIN s = 1..Len(s) /\ DOMAIN Append(s, x) = 1 .. Len(s) + 1
  BY <1>1, LenProperties
<1>3. \A k \in 1 .. Len(s) + 1 : k \in 1..Len(s) \/ k = Len(s) + 1 BY <1>2
<1>4. (\A k \in 1..Len(s) : k \in 1 .. Len(s) + 1) /\ Len(s) + 1 \in 1 .. Len(s) + 1 BY <1>2
<1>5. ToSet(Append(s, x)) = ToSet(s) \cup {x} BY <1>1, <1>2, <1>3, <1>4, Zenon DEF ToSet
<1>6. Append(s, x) # <<>> BY AppendProperties
<1>7. Last(Append(s, x)) = x BY <1>1, Zenon DEF Last
<1>. QED BY <1>1, <1>5, <1>6, <1>7

LEMMA Members ==
  ASSUME NEW S, NEW s \in Seq(S)
  PROVE  /\ \A k \in 1..Len(s) : s[k] \in ToSet(s)
         /\ \A x \in ToSet(s) : x \in S /\ \E k \in 1..Len(s) : s[k] = x
<1>1. DOMAIN s = 1..Len(s) BY LenProperties
<1>2. ToSet(s) = {s[k] : k \in 1..Len(s)} BY <1>1, Zenon DEF ToSet
<1>3. \A k \in 1..Len(s) : s[k] \in S BY ElementOfSeq
<1>. QED BY <1>2, <1>3, Zenon

-----------------------------------------------------------------------------
\* Types.

LEMMA Sourced ==
  ASSUME TypeOK, NEW p \in Procs
  PROVE  /\ source[p] \in Seq(Users) /\ Len(source[p]) \in Nat
         /\ user[p] <= Len(source[p]) =>
               /\ Request(p) \in Users /\ Line(p) \in Lines
               /\ Line(p).by = p /\ Line(p).login = Request(p).login
               /\ Line(p).uid = Request(p).uid /\ Line(p).spelt = Request(p).spelt
<1>1. source[p] \in Seq(Users) BY SourcesAssumption DEF TypeOK
<1>2. Len(source[p]) \in Nat BY <1>1
<1>3. ASSUME user[p] <= Len(source[p]) PROVE Request(p) \in Users
  BY <1>1, <1>2, <1>3, ElementOfSeq DEF TypeOK, Request
<1>4. seen[p] \in Nat BY DEF TypeOK
<1>. QED BY <1>1, <1>2, <1>3, <1>4 DEF Line, Lines, Users

\* A step of p leaves the other instances where they are.
LEMMA Others ==
  ASSUME TypeOK, NEW p \in Procs, Proc(p) \/ Crash(p)
  PROVE  /\ UNCHANGED <<source, root, writable>>
         /\ \A q \in Procs : q # p => /\ pc'[q] = pc[q] /\ stage'[q] = stage[q]
                                      /\ user'[q] = user[q] /\ results'[q] = results[q]
                                      /\ seen'[q] = seen[q]
                                      /\ Request(q)' = Request(q) /\ Line(q)' = Line(q)
<1>1. UNCHANGED <<source, root, writable>> BY DEF Proc, Crash, envVars
<1>2. ASSUME NEW r, Report(p, r)
      PROVE  \A q \in Procs : q # p => /\ pc'[q] = pc[q] /\ stage'[q] = stage[q]
                                       /\ user'[q] = user[q] /\ results'[q] = results[q]
  BY <1>2 DEF TypeOK, Report, Goto
<1>3. ASSUME NEW l, Continue(p, l)
      PROVE  \A q \in Procs : q # p => /\ pc'[q] = pc[q] /\ stage'[q] = stage[q]
                                       /\ user'[q] = user[q] /\ results'[q] = results[q]
  BY <1>3 DEF TypeOK, Continue, Goto
<1>4. ASSUME stage' = [stage EXCEPT ![p] = @ + 1], UNCHANGED <<pc, user, results>>
      PROVE  \A q \in Procs : q # p => /\ pc'[q] = pc[q] /\ stage'[q] = stage[q]
                                       /\ user'[q] = user[q] /\ results'[q] = results[q]
  BY <1>4 DEF TypeOK
<1>5. \A q \in Procs : q # p => /\ pc'[q] = pc[q] /\ stage'[q] = stage[q]
                                /\ user'[q] = user[q] /\ results'[q] = results[q]
  <2>1. CASE NoPassword(p) BY <1>2, <2>1 DEF NoPassword
  <2>2. CASE Finish(p) BY <1>3, <2>2 DEF Finish
  <2>3. CASE Check(p) BY <1>2, <1>3, <2>3 DEF Check
  <2>4. CASE Lock(p) BY <1>3, <1>4, <2>4 DEF Lock
  <2>5. CASE LockFails(p) BY <1>2, <2>5 DEF LockFails
  <2>6. CASE Open(p) BY <1>3, <2>6 DEF Open
  <2>7. CASE OpenFails(p) BY <1>2, <2>7 DEF OpenFails
  <2>8. CASE Flush(p) \/ FlushLost(p) BY <1>3, <1>4, <2>8 DEF Flush, FlushLost, NextFlush
  <2>9. CASE Unlock(p) BY <1>3, <1>4, <2>9 DEF Unlock
  <2>10. CASE Verify(p) BY <1>2, <1>3, <2>10 DEF Verify
  <2>11. CASE MakeHome(p) BY <1>2, <2>11 DEF MakeHome
  <2>12. CASE Crash(p) BY <2>12 DEF TypeOK, Crash, Goto
  <2>. QED BY <2>1, <2>2, <2>3, <2>4, <2>5, <2>6, <2>7, <2>8, <2>9, <2>10, <2>11, <2>12
              DEF Proc, AddUser, AfterCheck
<1>6. \A q \in Procs : q # p => Request(q)' = Request(q) BY <1>1, <1>5 DEF Request
<1>7. \A q \in Procs : q # p => seen'[q] = seen[q]
  BY DEF TypeOK, Proc, AddUser, Check, Crash
<1>. QED BY <1>1, <1>5, <1>6, <1>7 DEF Line

\* What a step does to p itself.
LEMMA Reported ==
  ASSUME TypeOK, NEW p \in Procs, NEW r \in Results, Report(p, r)
  PROVE  /\ pc'[p] = "next" /\ stage'[p] = 1 /\ user'[p] = user[p] + 1
         /\ results'[p] = Append(results[p], r)
         /\ pc' \in [Procs -> Labels] /\ stage' \in [Procs -> 1..4]
         /\ user' \in [Procs -> Nat \ {0}] /\ results' \in [Procs -> Seq(Results)]
<1>1. Append(results[p], r) \in Seq(Results) BY DEF TypeOK
<1>. QED BY <1>1 DEF TypeOK, Report, Goto, Labels

LEMMA Continued ==
  ASSUME TypeOK, NEW p \in Procs, NEW l \in Labels, Continue(p, l)
  PROVE  /\ pc'[p] = l /\ stage'[p] = 1 /\ user'[p] = user[p] /\ results'[p] = results[p]
         /\ pc' \in [Procs -> Labels] /\ stage' \in [Procs -> 1..4]
         /\ UNCHANGED <<user, results>>
BY DEF TypeOK, Continue, Goto

LEMMA Advanced ==
  ASSUME TypeOK, NEW p \in Procs, stage[p] < 4,
         stage' = [stage EXCEPT ![p] = @ + 1], UNCHANGED <<pc, user, results>>
  PROVE  /\ pc'[p] = pc[p] /\ stage'[p] = stage[p] + 1 /\ stage' \in [Procs -> 1..4]
<1>1. stage[p] \in 1..4 BY DEF TypeOK
<1>2. stage[p] + 1 \in 1..4 BY <1>1
<1>. QED BY <1>2 DEF TypeOK

LEMMA TypesStep ==
  ASSUME TypeOK, NEW p \in Procs, Proc(p) \/ Crash(p)
  PROVE  TypeOK'
<1>. DEFINE Own(q) == /\ user[q] <= Len(source[q]) + 1 /\ Len(results[q]) = user[q] - 1
                      /\ pc[q] \notin {"next", "done"} => user[q] <= Len(source[q])
                      /\ pc[q] \in {"lock", "unlock"} => stage[q] <= Len(Locked)
                      /\ pc[q] \notin {"lock", "flush", "unlock"} => stage[q] = 1
<1>1. /\ source' = source /\ root' = root /\ writable' = writable
      /\ \A q \in Procs : q # p => (Own(q))'
  BY Others DEF TypeOK
<1>2. /\ user[p] \in Nat \ {0} /\ Len(source[p]) \in Nat /\ Len(results[p]) = user[p] - 1
      /\ results[p] \in Seq(Results) /\ stage[p] \in 1..4 /\ pc[p] \in Labels
      /\ Own(p) /\ Len(Locked) = 3 /\ Len(Written) = 4
  BY Sourced, FileNames DEF TypeOK
<1>. DEFINE Moved == /\ pc' \in [Procs -> Labels] /\ stage' \in [Procs -> 1..4]
                     /\ user' \in [Procs -> Nat \ {0}] /\ results' \in [Procs -> Seq(Results)]
                     /\ (Own(p))'
<1>3. ASSUME NEW r \in Results, Report(p, r), user[p] <= Len(source[p]) PROVE Moved
  <2>1. /\ pc'[p] = "next" /\ stage'[p] = 1 /\ user'[p] = user[p] + 1
        /\ results'[p] = Append(results[p], r)
        /\ pc' \in [Procs -> Labels] /\ stage' \in [Procs -> 1..4]
        /\ user' \in [Procs -> Nat \ {0}] /\ results' \in [Procs -> Seq(Results)]
    BY <1>3, Reported
  <2>2. Len(results'[p]) = user'[p] - 1 BY <1>2, <2>1
  <2>. QED BY <1>1, <1>2, <1>3, <2>1, <2>2
<1>4. ASSUME NEW l \in Labels, Continue(p, l), l # "done" => user[p] <= Len(source[p])
      PROVE  Moved
  BY <1>1, <1>2, <1>4, Continued DEF TypeOK
<1>5. ASSUME pc[p] \in {"lock", "flush", "unlock"}, stage[p] < (IF pc[p] = "flush" THEN 4 ELSE 3),
             stage' = [stage EXCEPT ![p] = @ + 1], UNCHANGED <<pc, user, results>>
      PROVE  Moved
  <2>1. stage[p] < 4 BY <1>2, <1>5
  <2>2. /\ pc'[p] = pc[p] /\ stage'[p] = stage[p] + 1 /\ stage' \in [Procs -> 1..4]
        /\ UNCHANGED <<pc, user, results>>
    BY <1>5, <2>1, Advanced
  <2>3. pc[p] \in {"lock", "unlock"} => stage'[p] <= Len(Locked) BY <1>2, <1>5, <2>2
  <2>4. (Own(p))' BY <1>1, <1>2, <1>5, <2>2, <2>3
  <2>. QED BY <2>2, <2>4 DEF TypeOK
<1>6. ASSUME Moved, file' \in [Files -> Seq(Lines)],
             holder' \in [ToSet(Locked) -> Procs \cup {None}], homes' \subseteq Logins,
             crashes' \in Nat, lost' \in Nat, crashes' + lost' <= MaxFaults
      PROVE  TypeOK'
  <2>1. \A q \in Procs : (Own(q))' BY <1>1, <1>6
  <2>2. seen' \in [Procs -> Nat]
    <3>1. Len(file["passwd"]) \in Nat
      <4>1. file["passwd"] \in Seq(Lines) BY FileNames DEF TypeOK
      <4>. QED BY <4>1
    <3>. QED BY <3>1 DEF TypeOK, Proc, AddUser, Check, Crash
  <2>. QED BY <1>1, <1>6, <2>1, <2>2 DEF TypeOK
<1>7. \A k \in 1..3 : [holder EXCEPT ![Locked[k]] = p] \in [ToSet(Locked) -> Procs \cup {None}]
                   /\ [holder EXCEPT ![Locked[k]] = None] \in [ToSet(Locked) -> Procs \cup {None}]
  BY DEF TypeOK
<1>8. DropLocks(p) => holder' \in [ToSet(Locked) -> Procs \cup {None}]
  BY DEF TypeOK, DropLocks
<1>9. ASSUME Moved, UNCHANGED <<file, homes, crashes, lost>>,
             holder' \in [ToSet(Locked) -> Procs \cup {None}]
      PROVE  TypeOK'
  BY <1>6, <1>9 DEF TypeOK
<1>. USE DEF TypeOK, fileVars
<1>. HIDE DEF Moved, Own
<1>10. Proc(p) => UNCHANGED crashes BY DEF Proc
<1>11. pc[p] \notin {"next", "done"} => user[p] <= Len(source[p]) OBVIOUS
<1>12. "failed" \in Results /\ "failed with locks" \in Results /\ "unverified" \in Results
       /\ "success" \in Results BY DEF Results
<1>13. \A l \in {"next", "lock", "open", "flush", "unlock", "verify", "home", "done"} : l \in Labels
  BY DEF Labels
<1>14. CASE Proc(p) /\ NoPassword(p) BY <1>3, <1>9, <1>10, <1>12, <1>14 DEF NoPassword
<1>15. CASE Proc(p) /\ Finish(p) BY <1>4, <1>8, <1>9, <1>10, <1>13, <1>15 DEF Finish
<1>16. CASE Proc(p) /\ Check(p)
  BY <1>3, <1>4, <1>9, <1>10, <1>12, <1>13, <1>16 DEF Check
<1>17. CASE Proc(p) /\ Lock(p)
  <2>1. Moved BY <1>2, <1>4, <1>5, <1>11, <1>13, <1>17 DEF Lock
  <2>2. stage[p] \in 1..3 BY <1>2, <1>17 DEF Lock
  <2>. QED BY <1>7, <1>9, <1>10, <1>17, <2>1, <2>2 DEF Lock
<1>18. CASE Proc(p) /\ LockFails(p) BY <1>3, <1>9, <1>10, <1>11, <1>12, <1>18 DEF LockFails
<1>19. CASE Proc(p) /\ Open(p) BY <1>4, <1>9, <1>10, <1>11, <1>13, <1>19 DEF Open
<1>20. CASE Proc(p) /\ OpenFails(p) BY <1>3, <1>9, <1>10, <1>11, <1>12, <1>20 DEF OpenFails
<1>21. ASSUME pc[p] = "flush", NextFlush(p) PROVE Moved
  BY <1>2, <1>4, <1>5, <1>11, <1>13, <1>21 DEF NextFlush
<1>22. CASE Proc(p) /\ Flush(p)
  <2>1. Moved BY <1>21, <1>22 DEF Flush
  <2>2. Line(p) \in Lines BY <1>11, <1>22, Sourced DEF Flush
  <2>3. file' \in [Files -> Seq(Lines)]
    <3>1. Written[stage[p]] \in Files BY <1>2, FileIndex
    <3>2. Append(file[Written[stage[p]]], Line(p)) \in Seq(Lines) BY <2>2, <3>1
    <3>. QED BY <1>22, <3>2 DEF Flush
  <2>. QED BY <1>6, <1>10, <1>22, <2>1, <2>3 DEF Flush
<1>23. CASE Proc(p) /\ FlushLost(p)
  <2>1. Moved BY <1>21, <1>23 DEF FlushLost
  <2>2. lost' \in Nat /\ crashes + lost' <= MaxFaults BY <1>23, FaultsAssumption DEF FlushLost
  <2>. QED BY <1>6, <1>10, <1>23, <2>1, <2>2 DEF FlushLost
<1>24. CASE Proc(p) /\ Unlock(p)
  <2>1. Moved BY <1>2, <1>4, <1>5, <1>11, <1>13, <1>24 DEF Unlock
  <2>2. stage[p] \in 1..3 BY <1>2, <1>24 DEF Unlock
  <2>. QED BY <1>7, <1>9, <1>10, <1>24, <2>1, <2>2 DEF Unlock
<1>25. CASE Proc(p) /\ Verify(p)
  BY <1>3, <1>4, <1>9, <1>10, <1>11, <1>12, <1>13, <1>25 DEF Verify
<1>26. CASE Proc(p) /\ MakeHome(p)
  <2>1. Moved BY <1>3, <1>11, <1>12, <1>26 DEF MakeHome
  <2>2. homes' \subseteq Logins
    <3>1. Request(p).login \in Logins BY <1>11, <1>26, Sourced DEF MakeHome, Users
    <3>2. homes' = homes \/ homes' = homes \cup {Request(p).login} BY <1>26 DEF MakeHome
    <3>. QED BY <3>1, <3>2
  <2>. QED BY <1>6, <1>10, <1>26, <2>1, <2>2 DEF MakeHome
<1>27. CASE Crash(p)
  <2>1. Moved
    <3>1. <<>> \in Seq(Results) /\ Len(<<>>) = 0 OBVIOUS
    <3>. QED BY <1>1, <1>2, <1>13, <1>27, <3>1 DEF Crash, Goto, Moved, Own
  <2>2. crashes' \in Nat /\ crashes' + lost <= MaxFaults BY <1>27, FaultsAssumption DEF Crash
  <2>. QED BY <1>6, <1>8, <1>27, <2>1, <2>2 DEF Crash
<1>. QED BY <1>14, <1>15, <1>16, <1>17, <1>18, <1>19, <1>20, <1>22, <1>23, <1>24, <1>25, <1>26,
            <1>27 DEF Proc, AddUser, AfterCheck

-----------------------------------------------------------------------------
\* The locks.

LEMMA LeakedStep ==
  ASSUME TypeOK, NEW p \in Procs
  PROVE  /\ \A r \in Results :
               Report(p, r) => (Leaked(p)' <=> Leaked(p) \/ r = "failed with locks")
         /\ results'[p] = results[p] => (Leaked(p)' <=> Leaked(p))
         /\ results'[p] = <<>> => ~Leaked(p)'
<1>1. ASSUME NEW r \in Results, Report(p, r)
      PROVE  Leaked(p)' <=> Leaked(p) \/ r = "failed with locks"
  <2>1. results'[p] = Append(results[p], r) BY <1>1, Reported
  <2>2. results[p] \in Seq(Results) BY DEF TypeOK
  <2>3. ToSet(Append(results[p], r)) = ToSet(results[p]) \cup {r} BY <2>2, Appended
  <2>. QED BY <2>1, <2>3 DEF Leaked
<1>2. ToSet(<<>>) = {}
  <2>1. DOMAIN <<>> = {} OBVIOUS
  <2>. QED BY <2>1, Zenon DEF ToSet
<1>. QED BY <1>1, <1>2 DEF Leaked

LEMMA OthersLocks ==
  ASSUME TypeOK, LocksInv, NEW p \in Procs, NEW q \in Procs, q # p, Proc(p) \/ Crash(p)
  PROVE  \A k \in 1..3 : holder'[Locked[k]] = q <=> holder[Locked[k]] = q
<1>1. /\ holder \in [ToSet(Locked) -> Procs \cup {None}] /\ None # q /\ None # p
      /\ \A k \in 1..3 : Locked[k] \in ToSet(Locked)
      /\ Len(Locked) = 3 /\ stage[p] \in 1..4
  BY NoneAssumption, FileIndex, FileNames DEF TypeOK
<1>2. CASE UNCHANGED holder BY <1>2
<1>3. CASE DropLocks(p) BY <1>1, <1>3 DEF DropLocks
<1>4. CASE Lock(p)
  <2>1. pc[p] = "lock" => stage[p] <= 3 BY <1>1 DEF TypeOK
  <2>2. stage[p] \in 1..3 /\ holder[Locked[stage[p]]] = None
    BY <1>1, <1>4, <2>1 DEF Lock, CanLock
  <2>. QED BY <1>1, <1>4, <2>2 DEF Lock
<1>5. CASE Unlock(p)
  <2>1. pc[p] = "unlock" => stage[p] <= 3 BY <1>1 DEF TypeOK
  <2>2. stage[p] \in 1..3 BY <1>1, <1>5, <2>1 DEF Unlock
  <2>3. ~Leaked(p) BY <1>5 DEF Unlock, LocksInv
  <2>4. Holds(p, stage[p]) BY <1>5, <2>2 DEF Unlock, Holds
  <2>5. holder[Locked[stage[p]]] = p BY <2>2, <2>3, <2>4 DEF LocksInv
  <2>. QED BY <1>1, <1>5, <2>2, <2>5 DEF Unlock
<1>. QED BY <1>2, <1>3, <1>4, <1>5 DEF Proc, AddUser, AfterCheck, NoPassword, Finish, Check,
            LockFails, Open, OpenFails, Flush, FlushLost, Verify, MakeHome, Crash

LEMMA LocksStep ==
  ASSUME TypeOK, LocksInv, NEW p \in Procs, Proc(p) \/ Crash(p)
  PROVE  LocksInv'
<1>. DEFINE Own(q) ==
        /\ ~Leaked(q) => \A k \in 1..3 : holder[Locked[k]] = q <=> Holds(q, k)
        /\ Leaked(q) /\ pc[q] # "done" => /\ holder["passwd"] = q
                                          /\ pc[q] \in {"next", "lock"} /\ stage[q] = 1
<1>1. ASSUME NEW q \in Procs, q # p PROVE (Own(q))'
  <2>1. /\ pc'[q] = pc[q] /\ stage'[q] = stage[q] /\ results'[q] = results[q]
    BY <1>1, Others
  <2>2. \A k \in 1..3 : holder'[Locked[k]] = q <=> holder[Locked[k]] = q BY <1>1, OthersLocks
  <2>3. (Leaked(q)' <=> Leaked(q)) /\ \A k \in 1..3 : Holds(q, k)' <=> Holds(q, k)
    BY <2>1 DEF Leaked, Holds
  <2>4. Own(q) BY DEF LocksInv
  <2>5. holder'["passwd"] = q <=> holder["passwd"] = q BY <2>2, FileNames
  <2>. QED BY <2>1, <2>2, <2>3, <2>4, <2>5
<1>. SUFFICES (Own(p))'
  <2>. HIDE DEF Own
  <2>1. ASSUME (Own(p))' PROVE \A q \in Procs : (Own(q))' BY <1>1, <2>1
  <2>. QED BY <2>1 DEF LocksInv, Own
<1>2. /\ holder \in [ToSet(Locked) -> Procs \cup {None}] /\ None # p
      /\ \A k \in 1..3 : Locked[k] \in ToSet(Locked)
      /\ \A j, k \in 1..3 : Locked[j] = Locked[k] => j = k
      /\ Len(Locked) = 3 /\ Len(Written) = 4 /\ Locked[1] = "passwd" /\ stage[p] \in 1..4
      /\ pc[p] \in {"lock", "unlock"} => stage[p] <= 3
  <2>1. holder \in [ToSet(Locked) -> Procs \cup {None}] /\ stage[p] \in 1..4 BY DEF TypeOK
  <2>2. pc[p] \in {"lock", "unlock"} => stage[p] <= Len(Locked) BY DEF TypeOK
  <2>3. Len(Locked) = 3 /\ Len(Written) = 4 /\ Locked[1] = "passwd" BY FileNames
  <2>4. /\ \A k \in 1..3 : Locked[k] \in ToSet(Locked)
        /\ \A j, k \in 1..3 : Locked[j] = Locked[k] => j = k
    BY FileIndex
  <2>. QED BY <2>1, <2>2, <2>3, <2>4, NoneAssumption
<1>3. Own(p) BY SMTT(30) DEF LocksInv
<1>4. "failed" \in Results /\ "failed with locks" \in Results /\ "unverified" \in Results
      /\ "success" \in Results BY DEF Results
<1>5. \A l \in {"next", "lock", "open", "flush", "unlock", "verify", "home", "done"} : l \in Labels
  BY DEF Labels
\* A return that adds no lock to an instance that has none, or that leaked.
<1>6. ASSUME NEW r \in Results, Report(p, r), r # "failed with locks", UNCHANGED holder,
             Leaked(p) => pc[p] # "done",
             ~Leaked(p) => \A k \in 1..3 : ~Holds(p, k)
      PROVE  (Own(p))'
  <2>1. pc'[p] = "next" /\ stage'[p] = 1 BY <1>6, Reported
  <2>2. Leaked(p)' <=> Leaked(p) BY <1>6, LeakedStep
  <2>3. \A k \in 1..3 : ~Holds(p, k)' BY <2>1 DEF Holds
  <2>. QED BY <1>3, <1>6, <2>1, <2>2, <2>3
\* A return that leaves passwd locked.
<1>7. ASSUME Report(p, "failed with locks"), UNCHANGED holder, holder["passwd"] = p
      PROVE  (Own(p))'
  <2>1. pc'[p] = "next" /\ stage'[p] = 1 BY <1>4, <1>7, Reported
  <2>2. Leaked(p)' BY <1>4, <1>7, LeakedStep
  <2>. QED BY <1>7, <2>1, <2>2
\* A move of an instance that leaked nothing.
<1>8. ASSUME ~Leaked(p), UNCHANGED results,
             \A k \in 1..3 : holder'[Locked[k]] = p <=> Holds(p, k)'
      PROVE  (Own(p))'
  <2>1. ~Leaked(p)' BY <1>8, LeakedStep
  <2>. QED BY <1>8, <2>1
<1>9. CASE NoPassword(p) BY <1>4, <1>6, <1>9 DEF NoPassword, Holds
<1>10. CASE Finish(p)
  <2>1. pc'[p] = "done" /\ UNCHANGED results BY <1>5, <1>10, Continued DEF Finish
  <2>2. \A k \in 1..3 : holder'[Locked[k]] # p BY <1>2, <1>10 DEF Finish, DropLocks
  <2>3. \A k \in 1..3 : ~Holds(p, k)' BY <2>1 DEF Holds
  <2>. QED BY <2>1, <2>2, <2>3
<1>11. CASE Check(p)
  <2>1. CASE Report(p, "failed") BY <1>4, <1>6, <1>11, <2>1 DEF Check, Holds
  <2>2. CASE Continue(p, "lock")
    <3>1. pc'[p] = "lock" /\ stage'[p] = 1 /\ UNCHANGED <<results, holder>>
      BY <1>5, <1>11, <2>2, Continued DEF Check
    <3>2. \A k \in 1..3 : ~Holds(p, k)' /\ ~Holds(p, k) BY <1>11, <3>1 DEF Holds, Check
    <3>3. Leaked(p)' <=> Leaked(p) BY <3>1, LeakedStep
    <3>. QED BY <1>3, <1>11, <3>1, <3>2, <3>3 DEF Check
  <2>. QED BY <1>11, <2>1, <2>2 DEF Check
<1>12. CASE Lock(p)
  <2>1. stage[p] \in 1..3 /\ holder[Locked[stage[p]]] = None /\ pc[p] = "lock"
    BY <1>2, <1>12 DEF Lock, CanLock
  <2>2. ~Leaked(p) BY <1>2, <1>3, <2>1
  <2>3. \A k \in 1..3 : holder[Locked[k]] = p <=> k < stage[p] BY <1>3, <2>1, <2>2 DEF Holds
  <2>4. \A k \in 1..3 : holder'[Locked[k]] = p <=> k < stage[p] \/ k = stage[p]
    BY <1>2, <1>12, <2>1, <2>3 DEF Lock
  <2>5. CASE stage[p] < 3
    <3>1. stage[p] < 4 /\ stage' = [stage EXCEPT ![p] = @ + 1] /\ UNCHANGED <<pc, user, results>>
      BY <1>2, <1>12, <2>1, <2>5 DEF Lock
    <3>2. pc'[p] = "lock" /\ stage'[p] = stage[p] + 1 BY <2>1, <3>1, Advanced
    <3>3. \A k \in 1..3 : Holds(p, k)' <=> k < stage[p] + 1 BY <3>2 DEF Holds
    <3>4. \A k \in 1..3 : k < stage[p] + 1 <=> k < stage[p] \/ k = stage[p] BY <2>1
    <3>. QED BY <1>8, <2>2, <2>4, <3>1, <3>3, <3>4
  <2>6. CASE ~(stage[p] < 3)
    <3>1. pc'[p] = "open" /\ UNCHANGED results BY <1>2, <1>5, <1>12, <2>6, Continued DEF Lock
    <3>2. \A k \in 1..3 : Holds(p, k)' BY <3>1 DEF Holds
    <3>3. \A k \in 1..3 : k < stage[p] \/ k = stage[p] BY <2>1, <2>6
    <3>. QED BY <1>8, <2>2, <2>4, <3>1, <3>2, <3>3
  <2>. QED BY <2>5, <2>6
<1>13. CASE LockFails(p)
  <2>1. CASE stage[p] = 1
    <3>1. \A k \in 1..3 : ~Holds(p, k) BY <1>13, <2>1 DEF LockFails, Holds
    <3>. QED BY <1>4, <1>6, <1>13, <2>1, <3>1 DEF LockFails
  <2>2. CASE stage[p] # 1
    <3>1. 1 \in 1..3 /\ 1 < stage[p] BY <1>2, <2>2
    <3>2. ~Leaked(p) /\ Holds(p, 1) BY <1>3, <1>13, <2>2, <3>1 DEF LockFails, Holds
    <3>3. holder["passwd"] = p BY <1>2, <1>3, <3>1, <3>2
    <3>. QED BY <1>7, <1>13, <2>2, <3>3 DEF LockFails
  <2>. QED BY <2>1, <2>2
<1>14. CASE Open(p)
  <2>1. ~Leaked(p) /\ pc'[p] = "flush" /\ UNCHANGED <<results, holder>>
    BY <1>3, <1>5, <1>14, Continued DEF Open
  <2>2. \A k \in 1..3 : Holds(p, k) /\ Holds(p, k)' BY <1>14, <2>1 DEF Open, Holds
  <2>. QED BY <1>3, <1>8, <2>1, <2>2
<1>15. CASE OpenFails(p)
  <2>1. 1 \in 1..3 OBVIOUS
  <2>2. ~Leaked(p) /\ Holds(p, 1) BY <1>3, <1>15 DEF OpenFails, Holds
  <2>3. holder["passwd"] = p BY <1>2, <1>3, <2>1, <2>2
  <2>. QED BY <1>7, <1>15, <2>3 DEF OpenFails
<1>16. CASE Flush(p) \/ FlushLost(p)
  <2>1. ~Leaked(p) /\ UNCHANGED holder /\ pc[p] = "flush"
    BY <1>3, <1>16 DEF Flush, FlushLost
  <2>2. UNCHANGED results /\ \A k \in 1..3 : Holds(p, k)'
    <3>1. CASE stage[p] < 4
      <4>1. stage' = [stage EXCEPT ![p] = @ + 1] /\ UNCHANGED <<pc, user, results>>
        BY <1>2, <1>16, <3>1 DEF Flush, FlushLost, NextFlush
      <4>. QED BY <2>1, <4>1 DEF Holds
    <3>2. CASE ~(stage[p] < 4)
      <4>1. pc'[p] = "unlock" /\ stage'[p] = 1 /\ UNCHANGED results
        BY <1>2, <1>5, <1>16, <3>2, Continued DEF Flush, FlushLost, NextFlush
      <4>. QED BY <4>1 DEF Holds
    <3>. QED BY <3>1, <3>2
  <2>3. \A k \in 1..3 : Holds(p, k) BY <2>1 DEF Holds
  <2>. QED BY <1>3, <1>8, <2>1, <2>2, <2>3
<1>17. CASE Unlock(p)
  <2>1. stage[p] \in 1..3 /\ ~Leaked(p) /\ pc[p] = "unlock" BY <1>2, <1>3, <1>17 DEF Unlock
  <2>2. \A k \in 1..3 : holder[Locked[k]] = p <=> k >= stage[p] BY <1>3, <2>1 DEF Holds
  <2>3. \A k \in 1..3 : holder'[Locked[k]] = p <=> k >= stage[p] /\ k # stage[p]
    BY <1>2, <1>17, <2>1, <2>2 DEF Unlock
  <2>4. CASE stage[p] < 3
    <3>1. stage[p] < 4 /\ stage' = [stage EXCEPT ![p] = @ + 1] /\ UNCHANGED <<pc, user, results>>
      BY <1>2, <1>17, <2>1, <2>4 DEF Unlock
    <3>2. pc'[p] = "unlock" /\ stage'[p] = stage[p] + 1 BY <2>1, <3>1, Advanced
    <3>3. \A k \in 1..3 : Holds(p, k)' <=> k >= stage[p] + 1 BY <3>2 DEF Holds
    <3>4. \A k \in 1..3 : k >= stage[p] + 1 <=> k >= stage[p] /\ k # stage[p] BY <2>1
    <3>. QED BY <1>8, <2>1, <2>3, <3>1, <3>3, <3>4
  <2>5. CASE ~(stage[p] < 3)
    <3>1. pc'[p] = "verify" /\ UNCHANGED results BY <1>2, <1>5, <1>17, <2>5, Continued DEF Unlock
    <3>2. \A k \in 1..3 : ~Holds(p, k)' BY <3>1 DEF Holds
    <3>3. \A k \in 1..3 : ~(k >= stage[p] /\ k # stage[p]) BY <2>1, <2>5
    <3>. QED BY <1>8, <2>1, <2>3, <3>1, <3>2, <3>3
  <2>. QED BY <2>4, <2>5
<1>18. CASE Verify(p)
  <2>1. ~Leaked(p) /\ UNCHANGED holder /\ \A k \in 1..3 : ~Holds(p, k)
    BY <1>3, <1>18 DEF Verify, Holds
  <2>2. CASE Report(p, "unverified") BY <1>4, <1>6, <2>1, <2>2
  <2>3. CASE Continue(p, "home")
    <3>1. pc'[p] = "home" /\ UNCHANGED results BY <1>5, <2>3, Continued
    <3>2. \A k \in 1..3 : ~Holds(p, k)' BY <3>1 DEF Holds
    <3>. QED BY <1>3, <1>8, <2>1, <3>1, <3>2
  <2>. QED BY <1>18, <2>2, <2>3 DEF Verify
<1>19. CASE MakeHome(p)
  <2>1. ~Leaked(p) /\ UNCHANGED holder /\ \A k \in 1..3 : ~Holds(p, k)
    BY <1>3, <1>19 DEF MakeHome, Holds
  <2>. QED BY <1>4, <1>6, <1>19, <2>1 DEF MakeHome
<1>20. CASE Crash(p)
  <2>1. pc'[p] = "next" /\ results'[p] = <<>> BY <1>20 DEF Crash, Goto, TypeOK
  <2>2. \A k \in 1..3 : holder'[Locked[k]] # p BY <1>2, <1>20 DEF Crash, DropLocks
  <2>3. \A k \in 1..3 : ~Holds(p, k)' BY <2>1 DEF Holds
  <2>. QED BY <2>1, <2>2, <2>3, LeakedStep
<1>. QED
  BY <1>9, <1>10, <1>11, <1>12, <1>13, <1>14, <1>15, <1>16, <1>17, <1>18, <1>19, <1>20
     DEF Proc, AddUser, AfterCheck

-----------------------------------------------------------------------------
\* The results.

\* A result is added to the end; after a leak it is "failed", and "success"
\* comes from MakeHome alone.
LEMMA ResultsStep ==
  ASSUME TypeOK, LocksInv, NEW p \in Procs, Proc(p) \/ Crash(p)
  PROVE  \/ results'[p] = results[p] \/ results'[p] = <<>>
         \/ \E r \in Results : /\ results'[p] = Append(results[p], r)
                               /\ Leaked(p) => r = "failed"
                               /\ r = "success" => MakeHome(p)
<1>1. "failed" \in Results /\ "failed with locks" \in Results /\ "unverified" \in Results
      /\ "success" \in Results BY DEF Results
<1>2. \A r \in Results : Report(p, r) => results'[p] = Append(results[p], r) BY Reported
<1>3. \A l : Continue(p, l) => results'[p] = results[p] BY DEF Continue
<1>4. Leaked(p) /\ pc[p] # "done" => pc[p] \in {"next", "lock"} /\ stage[p] = 1
  BY DEF LocksInv
<1>5. CASE NoPassword(p) BY <1>1, <1>2, <1>5 DEF NoPassword
<1>6. CASE Finish(p) BY <1>3, <1>6 DEF Finish
<1>7. CASE Check(p) BY <1>1, <1>2, <1>3, <1>7 DEF Check
<1>8. CASE Lock(p) BY <1>3, <1>8 DEF Lock
<1>9. CASE LockFails(p) BY <1>1, <1>2, <1>4, <1>9 DEF LockFails
<1>10. CASE Open(p) BY <1>3, <1>10 DEF Open
<1>11. CASE OpenFails(p) BY <1>1, <1>2, <1>4, <1>11 DEF OpenFails
<1>12. CASE Flush(p) \/ FlushLost(p) BY <1>3, <1>12 DEF Flush, FlushLost, NextFlush
<1>13. CASE Unlock(p) BY <1>3, <1>13 DEF Unlock
<1>14. CASE Verify(p) BY <1>1, <1>2, <1>3, <1>4, <1>14 DEF Verify
<1>15. CASE MakeHome(p) BY <1>1, <1>2, <1>4, <1>15 DEF MakeHome
<1>16. CASE Crash(p) BY <1>16 DEF Crash, TypeOK
<1>. QED BY <1>5, <1>6, <1>7, <1>8, <1>9, <1>10, <1>11, <1>12, <1>13, <1>14, <1>15, <1>16
            DEF Proc, AddUser, AfterCheck

LEMMA LeakedOnceStep ==
  ASSUME TypeOK, LocksInv, LeakedOnce, NEW p \in Procs, Proc(p) \/ Crash(p)
  PROVE  LeakedOnce'
<1>. DEFINE Own(s) == \A k, m \in 1..Len(s) : k < m /\ s[k] = "failed with locks" => s[m] = "failed"
<1>1. \A q \in Procs : Own(results[q]) BY DEF LeakedOnce
<1>2. ASSUME NEW q \in Procs, q # p PROVE Own(results'[q])
  <2>1. results'[q] = results[q] BY <1>2, Others
  <2>. QED BY <1>1, <2>1
<1>3. Own(results'[p])
  <2>1. CASE results'[p] = results[p] BY <1>1, <2>1
  <2>2. CASE results'[p] = <<>>
    <3>1. 1..Len(<<>>) = {} OBVIOUS
    <3>2. Own(<<>>) BY <3>1
    <3>. QED BY <2>2, <3>2
  <2>3. ASSUME NEW r \in Results, results'[p] = Append(results[p], r), Leaked(p) => r = "failed"
        PROVE  Own(results'[p])
    <3>1. results[p] \in Seq(Results) BY DEF TypeOK
    <3>. DEFINE s == results[p]
    <3>2. Len(s) \in Nat /\ Len(Append(s, r)) = Len(s) + 1
          /\ (\A k \in 1..Len(s) : Append(s, r)[k] = s[k]) /\ Append(s, r)[Len(s) + 1] = r
      BY <3>1, Appended, LenProperties
    <3>3. \A k \in 1..Len(s) : s[k] = "failed with locks" => r = "failed"
      <4>1. \A k \in 1..Len(s) : s[k] \in ToSet(s) BY <3>1, Members
      <4>. QED BY <2>3, <4>1 DEF Leaked
    <3>4. Own(s) BY <1>1
    <3>. HIDE DEF s
    <3>5. \A k, m \in 1..Len(s) + 1 :
             k < m => k \in 1..Len(s) /\ (m \in 1..Len(s) \/ m = Len(s) + 1)
      BY <3>2
    <3>6. Own(Append(s, r)) BY <3>2, <3>3, <3>4, <3>5
    <3>. QED BY <2>3, <3>6 DEF s
  <2>. QED BY <2>1, <2>2, <2>3, ResultsStep
<1>. HIDE DEF Own
<1>4. \A q \in Procs : Own(results'[q]) BY <1>2, <1>3
<1>. QED BY <1>4 DEF LeakedOnce, Own

-----------------------------------------------------------------------------
\* The lines in the files.

\* A step appends at most p's line, to the file p has come to.
LEMMA FileStep ==
  ASSUME TypeOK, NEW p \in Procs, Proc(p) \/ Crash(p)
  PROVE  \/ UNCHANGED file
         \/ /\ Flush(p) /\ pc[p] = "flush" /\ Line(p) \in Lines
            /\ file'[Written[stage[p]]] = Append(file[Written[stage[p]]], Line(p))
            /\ \A k \in 1..4 : k # stage[p] => file'[Written[k]] = file[Written[k]]
<1>1. CASE Flush(p)
  <2>1. stage[p] \in 1..4 /\ pc[p] = "flush" /\ user[p] <= Len(source[p])
    BY <1>1 DEF Flush, TypeOK
  <2>2. Line(p) \in Lines BY <2>1, Sourced
  <2>. QED BY <1>1, <2>1, <2>2, FileIndex DEF Flush, TypeOK
<1>2. CASE ~Flush(p)
  BY <1>2 DEF Proc, AddUser, AfterCheck, NoPassword, Finish, Check, Lock, LockFails, Open,
     OpenFails, FlushLost, Unlock, Verify, MakeHome, Crash, fileVars
<1>. QED BY <1>1, <1>2

\* The same for the sets of lines.
LEMMA LinesStep ==
  ASSUME TypeOK, NEW p \in Procs, Proc(p) \/ Crash(p), NEW k \in 1..4
  PROVE  /\ file[Written[k]] \in Seq(Lines) /\ file'[Written[k]] \in Seq(Lines)
         /\ \/ ToSet(file'[Written[k]]) = ToSet(file[Written[k]])
            \/ /\ Flush(p) /\ pc[p] = "flush" /\ k = stage[p]
               /\ ToSet(file'[Written[k]]) = ToSet(file[Written[k]]) \cup {Line(p)}
<1>1. file[Written[k]] \in Seq(Lines) BY FileIndex DEF TypeOK
<1>2. TypeOK' BY TypesStep
<1>3. file'[Written[k]] \in Seq(Lines) BY <1>2, FileIndex DEF TypeOK
<1>4. CASE UNCHANGED file BY <1>1, <1>3, <1>4
<1>5. CASE ~UNCHANGED file
  <2>1. CASE k # stage[p] BY <1>1, <1>3, <1>5, <2>1, FileStep
  <2>2. CASE k = stage[p]
    <3>1. /\ Flush(p) /\ pc[p] = "flush" /\ Line(p) \in Lines
          /\ file'[Written[k]] = Append(file[Written[k]], Line(p))
      BY <1>5, <2>2, FileStep
    <3>2. ToSet(Append(file[Written[k]], Line(p))) = ToSet(file[Written[k]]) \cup {Line(p)}
      BY <1>1, <3>1, Appended
    <3>. QED BY <1>1, <1>3, <2>2, <3>1, <3>2
  <2>. QED BY <2>1, <2>2
<1>. QED BY <1>4, <1>5

\* passwd keeps its lines and gets at most p's, at its end.
LEMMA PasswdStep ==
  ASSUME TypeOK, NEW p \in Procs, Proc(p) \/ Crash(p)
  PROVE  /\ file["passwd"] \in Seq(Lines) /\ file'["passwd"] \in Seq(Lines)
         /\ Len(file["passwd"]) \in Nat /\ Len(file'["passwd"]) \in Nat
         /\ Len(file["passwd"]) <= Len(file'["passwd"])
         /\ \A k \in 1..Len(file["passwd"]) : file'["passwd"][k] = file["passwd"][k]
         /\ \A k \in 1..Len(file'["passwd"]) :
               \/ k \in 1..Len(file["passwd"])
               \/ /\ k = Len(file["passwd"]) + 1 /\ file'["passwd"][k] = Line(p)
                  /\ pc[p] = "flush" /\ stage[p] = 1
         /\ ToSet(file["passwd"]) \subseteq ToSet(file'["passwd"])
<1>1. "passwd" = Written[1] /\ 1 \in 1..4 BY FileNames
<1>2. file["passwd"] \in Seq(Lines) /\ file'["passwd"] \in Seq(Lines) BY <1>1, LinesStep
<1>3. Len(file["passwd"]) \in Nat /\ Len(file'["passwd"]) \in Nat BY <1>2, LenProperties
<1>4. CASE file'["passwd"] = file["passwd"] BY <1>2, <1>3, <1>4
<1>5. CASE file'["passwd"] # file["passwd"]
  <2>1. /\ pc[p] = "flush" /\ stage[p] = 1 /\ Line(p) \in Lines
        /\ file'["passwd"] = Append(file["passwd"], Line(p))
    BY <1>1, <1>5, FileStep
  <2>. DEFINE s == file["passwd"]  l == Line(p)
  <2>2. /\ Len(Append(s, l)) = Len(s) + 1 /\ Append(s, l)[Len(s) + 1] = l
        /\ \A k \in 1..Len(s) : Append(s, l)[k] = s[k]
        /\ ToSet(Append(s, l)) = ToSet(s) \cup {l}
    BY <1>2, <2>1, Appended
  <2>3. Len(s) \in Nat BY <1>3
  <2>. HIDE DEF s, l
  <2>4. /\ Len(s) <= Len(Append(s, l)) /\ ToSet(s) \subseteq ToSet(Append(s, l))
        /\ \A k \in 1..Len(Append(s, l)) :
              k \in 1..Len(s) \/ (k = Len(s) + 1 /\ Append(s, l)[k] = l)
    BY <2>2, <2>3
  <2>. QED BY <1>2, <1>3, <2>1, <2>2, <2>4 DEF s, l
<1>. QED BY <1>4, <1>5

LEMMA LostGrows ==
  ASSUME TypeOK, NEW p \in Procs, Proc(p) \/ Crash(p), lost' = 0
  PROVE  lost = 0
<1>1. lost \in Nat BY DEF TypeOK
<1>2. CASE FlushLost(p)
  <2>1. lost' = lost + 1 BY <1>2 DEF FlushLost
  <2>. QED BY <1>1, <2>1
<1>. QED BY <1>2 DEF Proc, AddUser, AfterCheck, NoPassword, Finish, Check, Lock, LockFails, Open,
            OpenFails, Flush, Unlock, Verify, MakeHome, Crash

\* Lines of another instance are neither added nor removed by a step of p.
LEMMA OthersHave ==
  ASSUME TypeOK, NEW p \in Procs, NEW q \in Procs, q # p, Proc(p) \/ Crash(p), NEW k \in 1..4
  PROVE  /\ \A l \in ToSet(file'[Written[k]]) : l.by = q => l \in ToSet(file[Written[k]])
         /\ Has(q, k)' <=> Has(q, k)
<1>1. /\ ToSet(file[Written[k]]) \subseteq ToSet(file'[Written[k]])
      /\ \A l \in ToSet(file'[Written[k]]) : l \in ToSet(file[Written[k]]) \/ l = Line(p)
  <2>1. \/ ToSet(file'[Written[k]]) = ToSet(file[Written[k]])
        \/ ToSet(file'[Written[k]]) = ToSet(file[Written[k]]) \cup {Line(p)}
    BY LinesStep
  <2>. QED BY <2>1
<1>2. Line(p).by # q BY DEF Line
<1>3. \A l \in ToSet(file'[Written[k]]) : l.by = q => l \in ToSet(file[Written[k]]) BY <1>1, <1>2
<1>4. Line(q)' = Line(q) /\ Line(q).by = q BY Others DEF Line
<1>. QED BY <1>1, <1>3, <1>4 DEF Has

\* What p's own step does to its place and to its lines.
LEMMA OwnStep ==
  ASSUME TypeOK, NEW p \in Procs, Proc(p) \/ Crash(p)
  PROVE  \/ pc'[p] \in {"next", "done"}
         \/ /\ Check(p) /\ ~InUse(Request(p)) /\ pc'[p] = "lock"
            /\ UNCHANGED <<file, user>> /\ seen'[p] = Len(file["passwd"])
         \/ /\ Lock(p) /\ pc[p] = "lock" /\ pc'[p] \in {"lock", "open"}
            /\ UNCHANGED <<file, user, seen>>
         \/ /\ Open(p) /\ pc[p] = "open" /\ pc'[p] = "flush" /\ stage'[p] = 1
            /\ UNCHANGED <<file, user, seen>>
         \/ /\ Flush(p) \/ lost' = lost + 1
            /\ pc[p] = "flush" /\ UNCHANGED <<user, seen>>
            /\ \/ stage[p] < 4 /\ pc'[p] = "flush" /\ stage'[p] = stage[p] + 1
               \/ stage[p] = 4 /\ pc'[p] = "unlock"
         \/ /\ pc[p] \in {"unlock", "verify"} /\ pc'[p] \in {"unlock", "verify", "home"}
            /\ pc'[p] = "home" => Listed(Request(p))
            /\ UNCHANGED <<file, user, seen>>
<1>0. pc[p] # "next" => UNCHANGED seen BY DEF Proc, AddUser, Check, Crash
<1>1. /\ Len(Locked) = 3 /\ Len(Written) = 4 /\ stage[p] \in 1..4
      /\ pc[p] \in {"lock", "unlock"} => stage[p] <= 3
  BY FileNames DEF TypeOK
<1>2. \A l \in {"next", "lock", "open", "flush", "unlock", "verify", "home", "done"} : l \in Labels
  BY DEF Labels
<1>3. ASSUME NEW r, Report(p, r) PROVE pc'[p] \in {"next", "done"}
  BY <1>3 DEF Report, Goto, TypeOK
<1>4. CASE NoPassword(p) BY <1>3, <1>4 DEF NoPassword
<1>5. CASE Finish(p) BY <1>2, <1>5, Continued DEF Finish
<1>6. CASE Check(p)
  <2>1. CASE InUse(Request(p)) BY <1>3, <1>6, <2>1 DEF Check
  <2>2. CASE ~InUse(Request(p))
    <3>1. seen'[p] = Len(file["passwd"]) BY <1>6, <2>2 DEF Check, TypeOK
    <3>. QED BY <1>2, <1>6, <2>2, <3>1, Continued DEF Check, fileVars
  <2>. QED BY <2>1, <2>2
<1>7. CASE Lock(p) BY <1>0, <1>1, <1>2, <1>7, Continued DEF Lock, fileVars
<1>8. CASE LockFails(p) BY <1>3, <1>8 DEF LockFails
<1>9. CASE Open(p) BY <1>0, <1>2, <1>9, Continued DEF Open, fileVars
<1>10. CASE OpenFails(p) BY <1>3, <1>10 DEF OpenFails
<1>11. CASE Flush(p) \/ FlushLost(p)
  <2>1. NextFlush(p) /\ pc[p] = "flush" /\ (Flush(p) \/ lost' = lost + 1)
    BY <1>11 DEF Flush, FlushLost
  <2>2. CASE stage[p] < 4
    <3>1. stage' = [stage EXCEPT ![p] = @ + 1] /\ UNCHANGED <<pc, user, results>>
      BY <1>1, <2>1, <2>2 DEF NextFlush
    <3>2. stage'[p] = stage[p] + 1 /\ pc'[p] = "flush" BY <2>1, <2>2, <3>1, Advanced
    <3>. QED BY <1>0, <2>1, <2>2, <3>1, <3>2
  <2>3. CASE ~(stage[p] < 4)
    <3>1. pc'[p] = "unlock" /\ UNCHANGED user BY <1>1, <1>2, <2>1, <2>3, Continued DEF NextFlush
    <3>2. stage[p] = 4 BY <1>1, <2>3
    <3>. QED BY <1>0, <2>1, <3>1, <3>2
  <2>. QED BY <2>2, <2>3
<1>12. CASE Unlock(p) BY <1>0, <1>2, <1>12, Continued DEF Unlock, fileVars
<1>13. CASE Verify(p)
  <2>1. CASE Listed(Request(p)) BY <1>0, <1>2, <1>13, <2>1, Continued DEF Verify, fileVars
  <2>2. CASE ~Listed(Request(p)) BY <1>3, <1>13, <2>2 DEF Verify
  <2>. QED BY <2>1, <2>2
<1>14. CASE MakeHome(p) BY <1>3, <1>14 DEF MakeHome
<1>15. CASE Crash(p) BY <1>15 DEF Crash, Goto, TypeOK
<1>. QED BY <1>4, <1>5, <1>6, <1>7, <1>8, <1>9, <1>10, <1>11, <1>12, <1>13, <1>14, <1>15
            DEF Proc, AddUser, AfterCheck

LEMMA SeenStep ==
  ASSUME TypeOK, SeenInv, NEW p \in Procs, Proc(p) \/ Crash(p)
  PROVE  SeenInv'
<1>1. /\ Len(file["passwd"]) \in Nat /\ Len(file'["passwd"]) \in Nat
      /\ Len(file["passwd"]) <= Len(file'["passwd"])
  BY PasswdStep
<1>2. \A q \in Procs : seen[q] \in Nat /\ seen[q] <= Len(file["passwd"])
  BY DEF TypeOK, SeenInv
<1>3. \A q \in Procs : seen'[q] = seen[q] \/ seen'[q] = Len(file["passwd"])
  BY DEF TypeOK, Proc, AddUser, Check, Crash
<1>4. \A q \in Procs : seen'[q] <= Len(file'["passwd"]) BY <1>1, <1>2, <1>3
<1>5. ASSUME NEW k \in 1..Len(file'["passwd"]) PROVE file'["passwd"][k].seen < k
  <2>1. CASE k \in 1..Len(file["passwd"]) BY <2>1, PasswdStep DEF SeenInv
  <2>2. CASE k = Len(file["passwd"]) + 1 /\ file'["passwd"][k] = Line(p)
    <3>1. file'["passwd"][k].seen = seen[p] BY <2>2 DEF Line
    <3>. QED BY <1>1, <1>2, <2>2, <3>1
  <2>. QED BY <2>1, <2>2, PasswdStep
<1>. QED BY <1>4, <1>5 DEF SeenInv

LEMMA CheckedStep ==
  ASSUME TypeOK, SeenInv, CheckedInv, NEW p \in Procs, Proc(p) \/ Crash(p)
  PROVE  CheckedInv'
<1>. DEFINE Own(q) == pc[q] \in {"lock", "open"} \/ (pc[q] = "flush" /\ stage[q] = 1) => Fresh(q)
<1>1. stage[p] \in 1..4 /\ Len(file["passwd"]) \in Nat BY PasswdStep DEF TypeOK
<1>2. ASSUME NEW q \in Procs, q # p PROVE (Own(q))'
  <2>1. /\ pc'[q] = pc[q] /\ stage'[q] = stage[q] /\ seen'[q] = seen[q]
        /\ Request(q)' = Request(q)
    BY <1>2, Others
  <2>2. seen[q] \in Nat /\ seen[q] <= Len(file["passwd"]) BY DEF SeenInv, TypeOK
  <2>3. Line(p).by # q BY <1>2 DEF Line
  <2>4. ASSUME Fresh(q), NEW k \in 1..Len(file'["passwd"])
        PROVE  LET l == file'["passwd"][k]
               IN /\ SameLogin(l, Request(q)) \/ SameUid(l, Request(q)) => k > seen[q]
                  /\ l.by = q => k <= seen[q]
    <3>1. CASE k \in 1..Len(file["passwd"]) BY <2>4, <3>1, PasswdStep DEF Fresh
    <3>2. CASE k = Len(file["passwd"]) + 1 /\ file'["passwd"][k] = Line(p)
      <4>1. k > seen[q] BY <1>1, <2>2, <3>2
      <4>. QED BY <2>3, <3>2, <4>1
    <3>. QED BY <3>1, <3>2, PasswdStep
  <2>5. Fresh(q) => Fresh(q)' BY <2>1, <2>4 DEF Fresh
  <2>6. Own(q) BY DEF CheckedInv
  <2>. QED BY <2>1, <2>5, <2>6
<1>3. (Own(p))'
  <2>1. Own(p) BY DEF CheckedInv
  <2>2. UNCHANGED user => Request(p)' = Request(p) BY Others DEF Request
  <2>3. UNCHANGED <<file, user, seen>> => (Fresh(p)' <=> Fresh(p)) BY <2>2 DEF Fresh
  <2>4. ASSUME ~InUse(Request(p)), UNCHANGED <<file, user>>, seen'[p] = Len(file["passwd"])
        PROVE  Fresh(p)'
    <3>1. \A k \in 1..Len(file["passwd"]) : file["passwd"][k] \in ToSet(file["passwd"])
      BY PasswdStep, Members
    <3>2. \A k \in 1..Len(file["passwd"]) : /\ ~SameLogin(file["passwd"][k], Request(p))
                                             /\ ~SameUid(file["passwd"][k], Request(p))
      BY <2>4, <3>1 DEF InUse
    <3>3. \A k \in 1..Len(file["passwd"]) : k <= Len(file["passwd"]) BY <1>1
    <3>. QED BY <2>2, <2>4, <3>2, <3>3 DEF Fresh
  <2>5. stage[p] + 1 # 1 BY <1>1
  <2>. QED BY <2>1, <2>3, <2>4, <2>5, OwnStep
<1>. HIDE DEF Own
<1>4. \A q \in Procs : (Own(q))' BY <1>2, <1>3
<1>. QED BY <1>4 DEF CheckedInv, Own

LEMMA RepeatsStep ==
  ASSUME TypeOK, CheckedInv, OnlyRacesRepeat, NEW p \in Procs, Proc(p) \/ Crash(p)
  PROVE  OnlyRacesRepeat'
<1>. DEFINE s == file["passwd"]  t == file'["passwd"]
            Raced(k, i, j) == SameLogin(i, j) \/ SameUid(i, j) => k > j.seen /\ i.by # j.by
<1>1. \A j \in 2..Len(s) : \A i \in 1..(j - 1) : Raced(i, s[i], s[j])
  BY DEF OnlyRacesRepeat
<1>2. /\ Len(s) \in Nat /\ Len(t) \in Nat
      /\ \A k \in 1..Len(s) : t[k] = s[k]
      /\ \A k \in 1..Len(t) : \/ k \in 1..Len(s)
                               \/ /\ k = Len(s) + 1 /\ t[k] = Line(p)
                                  /\ pc[p] = "flush" /\ stage[p] = 1
  BY PasswdStep
<1>3. ASSUME pc[p] = "flush", stage[p] = 1
      PROVE  \A k \in 1..Len(s) : Raced(k, s[k], Line(p))
  <2>1. Fresh(p) BY <1>3 DEF CheckedInv
  <2>2. ASSUME NEW l
        PROVE  /\ SameLogin(l, Line(p)) <=> SameLogin(l, Request(p))
               /\ SameUid(l, Line(p)) <=> SameUid(l, Request(p))
    BY DEF Line, SameLogin, SameUid
  <2>3. Line(p).seen = seen[p] /\ Line(p).by = p BY DEF Line
  <2>4. seen[p] \in Nat BY DEF TypeOK
  <2>5. \A k \in 1..Len(s) : k > seen[p] => ~(k <= seen[p]) BY <1>2, <2>4
  <2>. QED BY <2>1, <2>2, <2>3, <2>5 DEF Fresh
<1>. HIDE DEF Raced, s, t
<1>4. ASSUME NEW j \in 2..Len(t), NEW i \in 1..(j - 1) PROVE Raced(i, t[i], t[j])
  <2>1. j \in 1..Len(t) /\ (j \in 1..Len(s) => j \in 2..Len(s)) BY <1>2
  <2>2. j = Len(s) + 1 \/ j \in 1..Len(s) => i \in 1..Len(s) BY <1>2
  <2>3. CASE j \in 1..Len(s) BY <1>1, <1>2, <2>1, <2>2, <2>3
  <2>4. CASE j = Len(s) + 1 /\ t[j] = Line(p) /\ pc[p] = "flush" /\ stage[p] = 1
    BY <1>2, <1>3, <2>2, <2>4
  <2>. QED BY <1>2, <2>1, <2>3, <2>4
<1>. QED BY <1>4 DEF OnlyRacesRepeat, Raced, t

LEMMA HomesStep ==
  ASSUME TypeOK, HomesInv, NEW p \in Procs, Proc(p) \/ Crash(p)
  PROVE  HomesInv'
<1>1. ToSet(file["passwd"]) \subseteq ToSet(file'["passwd"]) BY PasswdStep
<1>2. homes' = homes \/ (pc[p] = "home" /\ homes' = homes \cup {Request(p).login})
  BY DEF Proc, AddUser, AfterCheck, NoPassword, Finish, Check, Lock, LockFails, Open, OpenFails,
     Flush, FlushLost, Unlock, Verify, MakeHome, Crash, fileVars
<1>3. pc[p] = "home" => \E l \in ToSet(file["passwd"]) : Readable(l) /\ l.login = Request(p).login
  BY DEF HomesInv, Listed, SameLogin
<1>4. \A h \in homes' : \E l \in ToSet(file'["passwd"]) : Readable(l) /\ l.login = h
  BY <1>1, <1>2, <1>3 DEF HomesInv
<1>5. ASSUME NEW q \in Procs, Listed(Request(q)), Request(q)' = Request(q)
      PROVE  Listed(Request(q))'
  BY <1>1, <1>5 DEF Listed
<1>6. ASSUME NEW q \in Procs, q # p, pc'[q] = "home" PROVE Listed(Request(q))'
  <2>1. pc[q] = "home" /\ Request(q)' = Request(q) BY <1>6, Others
  <2>. QED BY <1>5, <2>1 DEF HomesInv
<1>7. ASSUME pc'[p] = "home" PROVE Listed(Request(p))'
  <2>1. Listed(Request(p)) /\ UNCHANGED user BY <1>7, OwnStep
  <2>2. Request(p)' = Request(p) BY <2>1, Others DEF Request
  <2>. QED BY <1>5, <2>1, <2>2
<1>8. \A q \in Procs : pc'[q] = "home" => Listed(Request(q))' BY <1>6, <1>7
<1>. QED BY <1>4, <1>8 DEF HomesInv

-----------------------------------------------------------------------------
\* The order of the files.

LEMMA PartGrown ==
  ASSUME NEW S, NEW f \in Seq(S), NEW g \in Seq(S), NEW x \in S, PartOf(g, f)
  PROVE  PartOf(g, Append(f, x))
<1>1. PICK skipped \in [1..Len(g) -> 0..(Len(f) - Len(g))] :
         \A k \in 1..Len(g) : /\ g[k] = f[k + skipped[k]]
                              /\ \A j \in 1..Len(g) : j < k => skipped[j] <= skipped[k]
  BY DEF PartOf
<1>2. Len(f) \in Nat /\ Len(g) \in Nat /\ Len(Append(f, x)) = Len(f) + 1
      /\ \A k \in 1..Len(f) : Append(f, x)[k] = f[k]
  BY Appended, LenProperties
<1>3. \A n \in 0..(Len(f) - Len(g)) : n \in 0..(Len(f) + 1 - Len(g)) BY <1>2
<1>4. skipped \in [1..Len(g) -> 0..(Len(Append(f, x)) - Len(g))] BY <1>2, <1>3
<1>5. \A k \in 1..Len(g) : \A n \in 0..(Len(f) - Len(g)) : k + n \in 1..Len(f) BY <1>2
<1>6. \A k \in 1..Len(g) : g[k] = Append(f, x)[k + skipped[k]] BY <1>1, <1>2, <1>5
<1>. QED BY <1>1, <1>4, <1>6, Zenon DEF PartOf

\* The last line of f can be added to a part of f that does not have it yet.
LEMMA PartExtended ==
  ASSUME NEW S, NEW f \in Seq(S), NEW g \in Seq(S), f # <<>>, PartOf(g, f),
         \A k \in 1..Len(g) : g[k] # Last(f)
  PROVE  PartOf(Append(g, Last(f)), f)
<1>1. PICK skipped \in [1..Len(g) -> 0..(Len(f) - Len(g))] :
         \A k \in 1..Len(g) : /\ g[k] = f[k + skipped[k]]
                              /\ \A j \in 1..Len(g) : j < k => skipped[j] <= skipped[k]
  BY DEF PartOf
<1>. DEFINE x == Last(f)  m == Len(g)  n == Len(f)
            rest == [k \in 1..(m + 1) |-> IF k = m + 1 THEN n - (m + 1) ELSE skipped[k]]
<1>2. n \in Nat /\ n # 0 /\ m \in Nat /\ n \in 1..n
  <2>1. n \in Nat /\ m \in Nat BY LenProperties
  <2>2. n # 0 BY EmptySeq, <2>1
  <2>. QED BY <2>1, <2>2
<1>3. x = f[n] /\ x \in S BY <1>2, ElementOfSeq DEF Last
<1>4. Len(Append(g, x)) = m + 1 /\ Append(g, x)[m + 1] = x
      /\ \A k \in 1..m : Append(g, x)[k] = g[k]
  BY <1>3, Appended
<1>5. \A k \in 1..m : skipped[k] \in 0..(n - m) /\ k + skipped[k] # n BY <1>1, <1>3
\* The last line of g is before the last of f, and so all are.
<1>6. m + 1 <= n /\ \A k \in 1..m : skipped[k] \in 0..(n - (m + 1))
  <2>1. CASE m = 0 BY <1>2, <2>1
  <2>2. CASE m # 0
    <3>1. m \in 1..m BY <1>2, <2>2
    <3>2. skipped[m] \in 0..(n - m) /\ m + skipped[m] # n BY <1>5, <3>1
    <3>3. skipped[m] \in 0..(n - (m + 1)) /\ m + 1 <= n BY <1>2, <3>2
    <3>4. \A k \in 1..m : k < m => skipped[k] <= skipped[m] BY <1>1, <3>1
    <3>5. \A k \in 1..m : k < m \/ k = m BY <1>2
    <3>6. ASSUME NEW k \in 1..m PROVE skipped[k] \in 0..(n - (m + 1))
      <4>1. skipped[k] \in 0..(n - m) BY <1>5
      <4>2. skipped[k] <= skipped[m] BY <3>2, <3>4, <3>5
      <4>. QED BY <1>2, <3>3, <4>1, <4>2
    <3>. QED BY <3>3, <3>6
  <2>. QED BY <2>1, <2>2
<1>7. \A k \in 1..(m + 1) : (k \in 1..m /\ k # m + 1) \/ k = m + 1 BY <1>2
<1>8. n - (m + 1) \in 0..(n - (m + 1)) /\ m + 1 + (n - (m + 1)) = n BY <1>2, <1>6
<1>9. rest \in [1..(m + 1) -> 0..(n - (m + 1))] BY <1>6, <1>7, <1>8
<1>10. ASSUME NEW k \in 1..(m + 1) PROVE Append(g, x)[k] = f[k + rest[k]]
  BY <1>1, <1>3, <1>4, <1>7, <1>8
<1>11. ASSUME NEW k \in 1..(m + 1), NEW j \in 1..(m + 1), j < k PROVE rest[j] <= rest[k]
  <2>1. j \in 1..m /\ j # m + 1 BY <1>2, <1>11
  <2>2. CASE k = m + 1
    <3>1. rest[j] = skipped[j] /\ rest[k] = n - (m + 1) BY <2>1, <2>2
    <3>2. skipped[j] \in 0..(n - (m + 1)) BY <1>6, <2>1
    <3>. QED BY <1>2, <3>1, <3>2
  <2>3. CASE k \in 1..m /\ k # m + 1 BY <1>1, <1>11, <2>1, <2>3
  <2>. QED BY <1>7, <2>2, <2>3
<1>. HIDE DEF x, rest
<1>12. /\ rest \in [1..Len(Append(g, x)) -> 0..(Len(f) - Len(Append(g, x)))]
       /\ \A k \in 1..Len(Append(g, x)) :
             /\ Append(g, x)[k] = f[k + rest[k]]
             /\ \A j \in 1..Len(Append(g, x)) : j < k => rest[j] <= rest[k]
  BY <1>4, <1>9, <1>10, <1>11
<1>13. PartOf(Append(g, x), f) BY <1>12, Zenon DEF PartOf
<1>. QED BY <1>13 DEF x

LEMMA NestedStep ==
  ASSUME TypeOK, FlushInv, FilesNested, NEW p \in Procs, Proc(p) \/ Crash(p)
  PROVE  FilesNested'
<1>. SUFFICES ASSUME lost' = 0, NEW k \in 1..3
              PROVE  PartOf(file'[Written[k + 1]], file'[Written[k]])
  BY DEF FilesNested
<1>1. k \in 1..4 /\ k + 1 \in 1..4 /\ k # k + 1 /\ stage[p] \in 1..4 BY DEF TypeOK
<1>2. lost = 0 BY LostGrows
<1>3. PartOf(file[Written[k + 1]], file[Written[k]]) BY <1>2 DEF FilesNested
<1>4. file[Written[k]] \in Seq(Lines) /\ file[Written[k + 1]] \in Seq(Lines) BY <1>1, LinesStep
<1>5. CASE UNCHANGED file BY <1>3, <1>5
<1>6. CASE ~UNCHANGED file
  <2>1. /\ pc[p] = "flush" /\ Line(p) \in Lines
        /\ file'[Written[stage[p]]] = Append(file[Written[stage[p]]], Line(p))
        /\ \A m \in 1..4 : m # stage[p] => file'[Written[m]] = file[Written[m]]
    BY <1>6, FileStep
  <2>2. CASE stage[p] = k
    <3>1. /\ file'[Written[k]] = Append(file[Written[k]], Line(p))
          /\ file'[Written[k + 1]] = file[Written[k + 1]]
      BY <1>1, <2>1, <2>2
    <3>. QED BY <1>3, <1>4, <2>1, <3>1, PartGrown
  <2>3. CASE stage[p] = k + 1
    <3>1. /\ file'[Written[k]] = file[Written[k]]
          /\ file'[Written[k + 1]] = Append(file[Written[k + 1]], Line(p))
      BY <1>1, <2>1, <2>3
    <3>2. file[Written[k]] # <<>> /\ Last(file[Written[k]]) = Line(p) /\ ~Has(p, k + 1)
      <4>1. k + 1 >= stage[p] BY <1>1, <2>3
      <4>. QED BY <1>1, <1>2, <2>1, <2>3, <4>1 DEF FlushInv
    <3>3. \A m \in 1..Len(file[Written[k + 1]]) : file[Written[k + 1]][m] # Line(p)
      <4>1. \A m \in 1..Len(file[Written[k + 1]]) :
               file[Written[k + 1]][m] \in ToSet(file[Written[k + 1]])
        BY <1>4, Members
      <4>2. Line(p) \notin ToSet(file[Written[k + 1]]) BY <3>2 DEF Has
      <4>. QED BY <4>1, <4>2
    <3>. QED BY <1>3, <1>4, <3>1, <3>2, <3>3, PartExtended
  <2>4. CASE stage[p] # k /\ stage[p] # k + 1
    <3>1. /\ file'[Written[k]] = file[Written[k]]
          /\ file'[Written[k + 1]] = file[Written[k + 1]]
      BY <1>1, <2>1, <2>4
    <3>. QED BY <1>3, <3>1
  <2>. QED BY <2>2, <2>3, <2>4
<1>. QED BY <1>5, <1>6

\* While no write fails passwd has every line of the other files.
LEMMA NestedLines ==
  ASSUME TypeOK, FilesNested, lost = 0
  PROVE  \A k \in 1..4 : ToSet(file[Written[k]]) \subseteq ToSet(file["passwd"])
<1>1. ASSUME NEW k \in 1..3
      PROVE  ToSet(file[Written[k + 1]]) \subseteq ToSet(file[Written[k]])
  <2>1. k \in 1..4 /\ k + 1 \in 1..4 OBVIOUS
  <2>2. file[Written[k]] \in Seq(Lines) /\ file[Written[k + 1]] \in Seq(Lines)
    BY <2>1, FileIndex DEF TypeOK
  <2>. DEFINE f == file[Written[k]]  g == file[Written[k + 1]]
  <2>3. \A m \in 1..Len(g) : \E j \in 1..Len(f) : g[m] = f[j]
    <3>1. PICK skipped \in [1..Len(g) -> 0..(Len(f) - Len(g))] :
             \A m \in 1..Len(g) : g[m] = f[m + skipped[m]]
      BY DEF FilesNested, PartOf
    <3>2. Len(f) \in Nat /\ Len(g) \in Nat BY <2>2, LenProperties
    <3>. HIDE DEF f, g
    <3>3. \A m \in 1..Len(g) : m + skipped[m] \in 1..Len(f)
      <4>1. \A m \in 1..Len(g) : skipped[m] \in 0..(Len(f) - Len(g)) BY <3>1
      <4>. QED BY <3>2, <4>1
    <3>. QED BY <3>1, <3>3
  <2>4. \A x \in ToSet(g) : \E m \in 1..Len(g) : g[m] = x BY <2>2, Members
  <2>5. \A m \in 1..Len(f) : f[m] \in ToSet(f) BY <2>2, Members
  <2>. QED BY <2>3, <2>4, <2>5
<1>2. 1 \in 1..3 /\ 2 \in 1..3 /\ 3 \in 1..3 /\ 1 + 1 = 2 /\ 2 + 1 = 3 /\ 3 + 1 = 4
      /\ (\A k \in 1..4 : k = 1 \/ k = 2 \/ k = 3 \/ k = 4)
  OBVIOUS
<1>3. /\ ToSet(file[Written[2]]) \subseteq ToSet(file[Written[1]])
      /\ ToSet(file[Written[3]]) \subseteq ToSet(file[Written[2]])
      /\ ToSet(file[Written[4]]) \subseteq ToSet(file[Written[3]])
  BY <1>1, <1>2
<1>. QED BY <1>2, <1>3, FileNames

LEMMA FlushStep ==
  ASSUME TypeOK, LocksInv, SeenInv, FlushInv, FilesNested, NEW p \in Procs, Proc(p) \/ Crash(p)
  PROVE  FlushInv'
<1>. DEFINE Own(q, k) ==
        /\ pc[q] \in {"lock", "open"} \/ (pc[q] = "flush" /\ k >= stage[q]) => ~Has(q, k)
        /\ pc[q] \in {"unlock", "verify", "home"} \/ (pc[q] = "flush" /\ k < stage[q]) => Has(q, k)
        /\ pc[q] = "flush" /\ k + 1 = stage[q]
              => file[Written[k]] # <<>> /\ Last(file[Written[k]]) = Line(q)
<1>. SUFFICES ASSUME lost' = 0, NEW q \in Procs, NEW k \in 1..4 PROVE (Own(q, k))'
  BY DEF FlushInv
<1>1. lost = 0 /\ lost' # lost + 1 BY LostGrows
<1>2. Own(q, k) BY <1>1 DEF FlushInv
<1>3. CASE q # p
  <2>1. pc'[q] = pc[q] /\ stage'[q] = stage[q] /\ Line(q)' = Line(q) BY <1>3, Others
  <2>2. Has(q, k)' <=> Has(q, k) BY <1>3, OthersHave
  <2>3. pc[q] = "flush" => UNCHANGED file
    <3>1. ASSUME pc[q] = "flush", pc[p] = "flush" PROVE FALSE
      <4>1. 1 \in 1..3 OBVIOUS
      <4>2. ~Leaked(p) /\ ~Leaked(q) /\ Holds(p, 1) /\ Holds(q, 1)
        BY <3>1 DEF LocksInv, Holds
      <4>3. holder[Locked[1]] = p /\ holder[Locked[1]] = q BY <4>1, <4>2 DEF LocksInv
      <4>. QED BY <1>3, <4>3
    <3>. QED BY <3>1, FileStep
  <2>. QED BY <1>2, <2>1, <2>2, <2>3
<1>4. CASE q = p
  <2>1. UNCHANGED <<user, seen>> => Request(p)' = Request(p) /\ Line(p)' = Line(p)
    <3>1. UNCHANGED source BY Others
    <3>. QED BY <3>1 DEF Line, Request
  <2>2. UNCHANGED <<file, user, seen>> => (Has(p, k)' <=> Has(p, k)) BY <2>1 DEF Has
  <2>3. CASE pc'[p] \in {"next", "done"} BY <1>4, <2>3
  <2>4. CASE pc'[p] = "lock" /\ UNCHANGED <<file, user>> /\ seen'[p] = Len(file["passwd"])
    <3>1. ToSet(file[Written[k]]) \subseteq ToSet(file["passwd"]) BY <1>1, NestedLines
    <3>2. Line(p)'.seen = Len(file["passwd"]) BY <2>4 DEF Line
    <3>3. \A l \in ToSet(file["passwd"]) : l.seen # Len(file["passwd"])
      <4>1. file["passwd"] \in Seq(Lines) /\ Len(file["passwd"]) \in Nat BY PasswdStep
      <4>2. \A j \in 1..Len(file["passwd"]) : file["passwd"][j].seen # Len(file["passwd"])
        <5>1. \A j \in 1..Len(file["passwd"]) : file["passwd"][j] \in Lines
          BY <4>1, ElementOfSeq
        <5>2. \A l \in Lines : l.seen \in Nat BY DEF Lines
        <5>3. \A j \in 1..Len(file["passwd"]) : file["passwd"][j].seen < j BY DEF SeenInv
        <5>. QED BY <4>1, <5>1, <5>2, <5>3
      <4>. QED BY <4>1, <4>2, Members
    <3>4. ~Has(p, k)' BY <2>4, <3>1, <3>2, <3>3 DEF Has
    <3>. QED BY <1>4, <2>4, <3>4
  <2>5. CASE pc[p] = "lock" /\ pc'[p] \in {"lock", "open"} /\ UNCHANGED <<file, user, seen>>
    BY <1>2, <1>4, <2>2, <2>5
  <2>6. CASE /\ pc[p] = "open" /\ pc'[p] = "flush" /\ stage'[p] = 1
             /\ UNCHANGED <<file, user, seen>>
    <3>1. ~(k < 1) /\ k + 1 # 1 OBVIOUS
    <3>. QED BY <1>2, <1>4, <2>2, <2>6, <3>1
  <2>7. CASE /\ Flush(p) /\ pc[p] = "flush" /\ UNCHANGED <<user, seen>>
             /\ \/ stage[p] < 4 /\ pc'[p] = "flush" /\ stage'[p] = stage[p] + 1
                \/ stage[p] = 4 /\ pc'[p] = "unlock"
    <3>1. stage[p] \in 1..4 /\ Line(p) \in Lines /\ file[Written[k]] \in Seq(Lines)
      <4>1. user[p] <= Len(source[p]) BY <2>7 DEF TypeOK
      <4>. QED BY <4>1, Sourced, LinesStep DEF TypeOK
    <3>2. CASE k = stage[p]
      <4>1. file'[Written[k]] = Append(file[Written[k]], Line(p))
        BY <2>7, <3>1, <3>2, FileIndex DEF Flush, TypeOK
      <4>2. /\ file'[Written[k]] # <<>> /\ Last(file'[Written[k]]) = Line(p)
            /\ Line(p) \in ToSet(file'[Written[k]])
        <5>1. /\ Append(file[Written[k]], Line(p)) # <<>>
              /\ Last(Append(file[Written[k]], Line(p))) = Line(p)
              /\ ToSet(Append(file[Written[k]], Line(p)))
                 = ToSet(file[Written[k]]) \cup {Line(p)}
          BY <3>1, Appended
        <5>. QED BY <4>1, <5>1
      <4>3. Has(p, k)' BY <2>1, <2>7, <3>1, <4>2 DEF Has
      <4>4. ~(k >= stage[p] + 1) BY <3>1, <3>2
      <4>. QED BY <1>4, <2>1, <2>7, <4>2, <4>3, <4>4
    <3>3. CASE k # stage[p]
      <4>1. UNCHANGED file \/ file'[Written[k]] = file[Written[k]] BY <3>3, FileStep
      <4>2. file'[Written[k]] = file[Written[k]] BY <4>1
      <4>3. Has(p, k)' <=> Has(p, k) BY <2>1, <2>7, <4>2 DEF Has
      <4>4. /\ k >= stage[p] + 1 => k >= stage[p]
            /\ k < stage[p] + 1 \/ stage[p] = 4 => k < stage[p]
            /\ k + 1 # stage[p] + 1
        BY <3>1, <3>3
      <4>. QED BY <1>2, <1>4, <2>7, <4>3, <4>4
    <3>. QED BY <3>2, <3>3
  <2>8. CASE /\ pc[p] \in {"unlock", "verify"} /\ pc'[p] \in {"unlock", "verify", "home"}
             /\ UNCHANGED <<file, user, seen>>
    BY <1>2, <1>4, <2>2, <2>8
  <2>. HIDE DEF Own
  <2>. QED BY <1>1, <2>3, <2>4, <2>5, <2>6, <2>7, <2>8, OwnStep
<1>. QED BY <1>3, <1>4

-----------------------------------------------------------------------------
\* The successes.

LEMMA SuccessStep ==
  ASSUME TypeOK, FlushInv, LocksInv, HomesInv, SuccessMeansComplete,
         NEW p \in Procs, Proc(p) \/ Crash(p)
  PROVE  SuccessMeansComplete'
<1>. DEFINE In(q, k) == /\ Listed(source[q][k])
                        /\ lost = 0 => \A f \in Files : \E l \in ToSet(file[f]) :
                                          l.by = q /\ l.login = source[q][k].login
<1>1. ASSUME NEW q \in Procs, NEW k, In(q, k) PROVE (In(q, k))'
  <2>1. UNCHANGED source BY Others
  <2>2. ToSet(file["passwd"]) \subseteq ToSet(file'["passwd"]) BY PasswdStep
  <2>3. lost' = 0 => lost = 0 BY LostGrows
  <2>4. ASSUME NEW f \in Files PROVE ToSet(file[f]) \subseteq ToSet(file'[f])
    <3>1. PICK m \in 1..4 : f = Written[m] BY FileIndex
    <3>2. \/ ToSet(file'[Written[m]]) = ToSet(file[Written[m]])
          \/ ToSet(file'[Written[m]]) = ToSet(file[Written[m]]) \cup {Line(p)}
      BY LinesStep
    <3>. QED BY <3>1, <3>2
  <2>5. Listed(source[q][k])' BY <1>1, <2>1, <2>2 DEF Listed
  <2>6. lost = 0 => \A f \in Files : \E l \in ToSet(file[f]) :
                       l.by = q /\ l.login = source[q][k].login
    BY <1>1
  <2>. QED BY <2>1, <2>3, <2>4, <2>5, <2>6
<1>2. ASSUME MakeHome(p), NEW k, k = user[p] PROVE (In(p, k))'
  <2>1. In(p, k)
    <3>1. pc[p] = "home" BY <1>2 DEF MakeHome
    <3>2. Listed(source[p][k]) BY <1>2, <3>1 DEF HomesInv, Request
    <3>3. lost = 0 => \A m \in 1..4 : Line(p) \in ToSet(file[Written[m]])
      BY <3>1 DEF FlushInv, Has
    <3>4. Line(p).by = p /\ Line(p).login = source[p][k].login BY <1>2 DEF Line, Request
    <3>. QED BY <3>2, <3>3, <3>4, FileIndex
  <2>. HIDE DEF In
  <2>. QED BY <1>1, <2>1
<1>. HIDE DEF In
<1>3. \A q \in Procs : \A k \in 1..Len(results[q]) : results[q][k] = "success" => In(q, k)
  BY DEF SuccessMeansComplete, In
<1>4. ASSUME NEW q \in Procs, NEW k \in 1..Len(results'[q]), results'[q][k] = "success"
      PROVE  (In(q, k))'
  <2>1. CASE results'[q] = results[q] BY <1>1, <1>3, <1>4, <2>1
  <2>2. CASE results'[q] = <<>>
    <3>1. 1..Len(<<>>) = {} OBVIOUS
    <3>. QED BY <2>2, <3>1
  <2>3. ASSUME NEW r \in Results, q = p, results'[p] = Append(results[p], r),
               r = "success" => MakeHome(p)
        PROVE  (In(q, k))'
    <3>1. /\ Len(results[p]) \in Nat /\ Len(results'[p]) = Len(results[p]) + 1
          /\ \A m \in 1..Len(results[p]) : results'[p][m] = results[p][m]
          /\ results'[p][Len(results[p]) + 1] = r
      <4>1. results[p] \in Seq(Results) BY DEF TypeOK
      <4>. QED BY <2>3, <4>1, Appended, LenProperties
    <3>2. user[p] \in Nat /\ Len(results[p]) = user[p] - 1 BY DEF TypeOK
    <3>3. k \in 1..Len(results[p]) \/ k = Len(results[p]) + 1 BY <2>3, <3>1
    <3>4. Len(results[p]) + 1 = user[p] BY <3>1, <3>2
    <3>5. CASE k \in 1..Len(results[p]) BY <1>1, <1>3, <1>4, <2>3, <3>1, <3>5
    <3>6. CASE k = Len(results[p]) + 1 BY <1>2, <1>4, <2>3, <3>1, <3>4, <3>6
    <3>. QED BY <3>3, <3>5, <3>6
  <2>. QED BY <2>1, <2>2, <2>3, ResultsStep, Others
<1>. QED BY <1>4 DEF SuccessMeansComplete, In

-----------------------------------------------------------------------------
\* The invariant.

LEMMA Beginning ==
  ASSUME Init
  PROVE  IInv
<1>1. /\ file = [f \in Files |-> <<Boot>>] /\ holder = [f \in ToSet(Locked) |-> None]
      /\ homes = {} /\ crashes = 0 /\ lost = 0
      /\ pc = [p \in Procs |-> "next"] /\ stage = [p \in Procs |-> 1]
      /\ user = [p \in Procs |-> 1] /\ results = [p \in Procs |-> <<>>]
      /\ seen = [p \in Procs |-> 0]
      /\ source \in Sources /\ root \subseteq Procs /\ writable \in BOOLEAN
  BY DEF Init
<1>2. /\ Boot \in Lines /\ <<Boot>> \in Seq(Lines) /\ Len(<<Boot>>) = 1
      /\ <<>> \in Seq(Results) /\ Len(<<>>) = 0
  <2>1. Boot \in Lines BY LoginsAssumption DEF Boot, Lines, Spellings
  <2>. QED BY <2>1
<1>3. \A p \in Procs : source[p] \in Seq(Users) BY <1>1, SourcesAssumption
<1>4. \A p \in Procs : Len(source[p]) \in Nat BY <1>3, LenProperties
<1>5. TypeOK
  <2>1. "next" \in Labels /\ 1 \in 1..4 /\ 1 \in Nat \ {0} BY DEF Labels
  <2>2. \A p \in Procs : 1 <= Len(source[p]) + 1 /\ Len(<<>>) = 1 - 1 BY <1>2, <1>4
  <2>. QED BY <1>1, <1>2, <2>1, <2>2, FaultsAssumption DEF TypeOK
<1>6. \A p \in Procs : ~Leaked(p)
  <2>1. DOMAIN <<>> = {} OBVIOUS
  <2>2. ToSet(<<>>) = {} BY <2>1, Zenon DEF ToSet
  <2>. QED BY <1>1, <2>2 DEF Leaked
<1>7. LocksInv
  <2>1. \A p \in Procs : \A k \in 1..3 : holder[Locked[k]] # p /\ ~Holds(p, k)
    BY <1>1, FileIndex, NoneAssumption DEF Holds
  <2>. QED BY <1>6, <2>1 DEF LocksInv
<1>8. SeenInv /\ CheckedInv /\ FlushInv /\ HomesInv
  <2>1. file["passwd"] = <<Boot>> /\ Boot.seen = 0 BY <1>1, FileNames DEF Boot
  <2>2. SeenInv BY <1>1, <1>2, <2>1 DEF SeenInv
  <2>. QED BY <1>1, <2>2 DEF CheckedInv, FlushInv, HomesInv
<1>9. LeakedOnce /\ SuccessMeansComplete
  <2>1. 1..Len(<<>>) = {} OBVIOUS
  <2>. QED BY <1>1, <2>1 DEF LeakedOnce, SuccessMeansComplete
<1>10. FilesNested
  <2>1. \A k \in 1..3 : k \in 1..4 /\ k + 1 \in 1..4 OBVIOUS
  <2>2. \A k \in 1..3 : file[Written[k]] = <<Boot>> /\ file[Written[k + 1]] = <<Boot>>
    BY <1>1, <2>1, FileIndex
  <2>3. PartOf(<<Boot>>, <<Boot>>)
    <3>. DEFINE none == [k \in 1..1 |-> 0]
    <3>1. /\ none \in [1..1 -> 0..(1 - 1)]
          /\ \A k \in 1..1 : /\ <<Boot>>[k] = <<Boot>>[k + none[k]]
                             /\ \A j \in 1..1 : j < k => none[j] <= none[k]
      OBVIOUS
    <3>. HIDE DEF none
    <3>. QED BY <1>2, <3>1, Zenon DEF PartOf
  <2>. QED BY <2>2, <2>3 DEF FilesNested
<1>11. OnlyRacesRepeat
  <2>1. file["passwd"] = <<Boot>> BY <1>1, FileNames
  <2>2. 2..Len(<<Boot>>) = {} BY <1>2
  <2>. QED BY <2>1, <2>2 DEF OnlyRacesRepeat
<1>. QED BY <1>5, <1>7, <1>8, <1>9, <1>10, <1>11 DEF IInv

\* The files, the locks, the results and the progress of every instance fit
\* together in every reachable state.
THEOREM UserAddInvariant == Spec => []IInv
<1>1. Init => IInv BY Beginning
<1>2. IInv /\ [Next]_vars => IInv'
  <2>1. ASSUME IInv, NEW p \in Procs, Proc(p) \/ Crash(p) PROVE IInv'
    <3>1. TypeOK' BY <2>1, TypesStep DEF IInv
    <3>2. LocksInv' BY <2>1, LocksStep DEF IInv
    <3>3. SeenInv' BY <2>1, SeenStep DEF IInv
    <3>4. CheckedInv' BY <2>1, CheckedStep DEF IInv
    <3>5. FlushInv' BY <2>1, FlushStep DEF IInv
    <3>6. LeakedOnce' BY <2>1, LeakedOnceStep DEF IInv
    <3>7. HomesInv' BY <2>1, HomesStep DEF IInv
    <3>8. FilesNested' BY <2>1, NestedStep DEF IInv
    <3>9. OnlyRacesRepeat' BY <2>1, RepeatsStep DEF IInv
    <3>10. SuccessMeansComplete' BY <2>1, SuccessStep DEF IInv
    <3>. QED BY <3>1, <3>2, <3>3, <3>4, <3>5, <3>6, <3>7, <3>8, <3>9, <3>10 DEF IInv
  <2>2. ASSUME IInv, UNCHANGED vars PROVE IInv'
    <3>1. /\ UNCHANGED <<file, homes, holder, pc, stage, user, results, seen>>
          /\ UNCHANGED <<source, root, writable, crashes, lost>>
      BY <2>2 DEF vars, fileVars, procVars, envVars
    <3>2. TypeOK' BY <2>2, <3>1 DEF IInv, TypeOK
    <3>3. LocksInv' BY <2>2, <3>1 DEF IInv, LocksInv, Leaked, Holds
    <3>4. SeenInv' /\ CheckedInv'
      BY <2>2, <3>1 DEF IInv, SeenInv, CheckedInv, Fresh, Request
    <3>5. FlushInv'
      <4>1. \A p \in Procs : Line(p)' = Line(p) BY <3>1 DEF Line, Request
      <4>2. \A p \in Procs : \A k \in 1..4 : Has(p, k)' <=> Has(p, k)
        BY <3>1, <4>1 DEF Has
      <4>. QED BY <2>2, <3>1, <4>1, <4>2 DEF IInv, FlushInv
    <3>6. LeakedOnce' /\ OnlyRacesRepeat' BY <2>2, <3>1 DEF IInv, LeakedOnce, OnlyRacesRepeat
    <3>7. FilesNested' BY <2>2, <3>1 DEF IInv, FilesNested
    <3>8. HomesInv' /\ SuccessMeansComplete'
      BY <2>2, <3>1 DEF IInv, HomesInv, SuccessMeansComplete, Listed, Request
    <3>. QED BY <3>2, <3>3, <3>4, <3>5, <3>6, <3>7, <3>8 DEF IInv
  <2>. QED BY <2>1, <2>2 DEF Next
<1>. QED BY <1>1, <1>2, PTL DEF Spec

\* Group, gshadow and shadow name no user that the file written before them
\* does not have, wherever instances are killed, while no write fails.
THEOREM FilesAreNested == Spec => []FilesNested
<1>1. IInv => FilesNested BY DEF IInv
<1>. QED BY <1>1, UserAddInvariant, PTL

\* A login or uid that getpwent shows is repeated in passwd only by a race of two
\* instances: the check sees every line there is, the run's own ones included, over
\* all restarts, with uids as large as they may be.
THEOREM RepeatsComeFromRaces == Spec => []OnlyRacesRepeat
<1>1. IInv => OnlyRacesRepeat BY DEF IInv
<1>. QED BY <1>1, UserAddInvariant, PTL

\* What AddUser reports as added is in passwd under login and uid, and in all four
\* files when no write failed.
THEOREM SuccessIsComplete == Spec => []SuccessMeansComplete
<1>1. IInv => SuccessMeansComplete BY DEF IInv
<1>. QED BY <1>1, UserAddInvariant, PTL

\* An early return that leaves a lock behind makes every later user of the run
\* fail, and only such a return leaves one.
THEOREM LeakedLocksAreFatal == Spec => []LeakIsFatal
<1>1. IInv => LeakIsFatal
  <2>1. ASSUME IInv, NEW p \in Procs, pc[p] = "next", ~Leaked(p), NEW f \in ToSet(Locked)
        PROVE  holder[f] # p
    <3>1. PICK k \in 1..3 : f = Locked[k] BY FileIndex
    <3>2. ~Holds(p, k) BY <2>1 DEF Holds
    <3>. QED BY <2>1, <3>1, <3>2 DEF IInv, LocksInv
  <2>. QED BY <2>1 DEF IInv, LeakIsFatal
<1>. QED BY <1>1, UserAddInvariant, PTL
=============================================================================
