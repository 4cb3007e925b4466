------------------------------ MODULE UserAdd ------------------------------
(***************************************************************************)
(* ManualUserCreation/UserGen.cpp: main's loop over the users read from    *)
(* the source file, and AddUser, which checks a user against /etc/passwd,  *)
(* locks the account files with flock, appends a line to each of the four  *)
(* of them, unlocks and verifies.  Several instances of the program may    *)
(* run at once, an instance may be killed and started again, the program   *)
(* may run without root's rights, a file may refuse to be opened for       *)
(* writing and a buffered line may be lost when it is flushed.             *)
(*                                                                         *)
(* The lines written for a user are named by one record.  Two of its       *)
(* fields are not in the files: by tells which instance wrote the line,    *)
(* and seen how many lines passwd had when that instance checked the user. *)
(***************************************************************************)
EXTENDS Integers, Sequences, SequencesExt

CONSTANTS Procs,        \* instances of the program
          None,         \* no instance
          Logins,       \* login names
          Sources,      \* which lists of users the instances may be given
          IntMax,       \* the largest int, 2^31 - 1
          MaxFaults     \* bound on kills and lost lines together

\* How a uid is spelt: as %d prints it, as the same number with leading zeros, or
\* as something that is no number at all.
Spellings == {"plain", "padded", "no number"}
Users == [login : Logins, uid : Nat, spelt : Spellings]

ASSUME NoneAssumption == None \notin Procs
ASSUME LoginsAssumption == "root" \in Logins
ASSUME SourcesAssumption == Sources \subseteq [Procs -> Seq(Users)]
ASSUME IntMaxAssumption == IntMax \in Nat
ASSUME FaultsAssumption == MaxFaults \in Nat

VARIABLES file,      \* file[f]: the lines of account file f
          holder,    \* holder[f]: the instance whose open file holds f's flock
          homes,     \* home directories that were made
          pc,        \* where an instance is
          stage,     \* the file it has come to in the flushes and unlocks
          user,      \* number of the user its main loop is at
          seen,      \* lines of passwd when it last found a user to be new
          results,   \* what main's loop reported for the users so far
          source,    \* source[p]: the list p was given
          root,      \* the instances that run with root's rights
          writable,  \* fopen(..., "a") opens all four files
          crashes, lost

fileVars == <<file, homes>>
procVars == <<pc, stage, user, results, seen>>
envVars == <<source, root, writable>>
vars == <<fileVars, holder, procVars, envVars, crashes, lost>>

Written == <<"passwd", "group", "gshadow", "shadow">>   \* in fclose's order
Locked  == <<"passwd", "group", "gshadow">>             \* in flock's order
Files == ToSet(Written)

Boot == [login |-> "root", uid |-> 0, spelt |-> "plain", by |-> None, seen |-> 0]

Init == /\ file = [f \in Files |-> <<Boot>>]
        /\ holder = [f \in ToSet(Locked) |-> None]
        /\ homes = {}
        /\ pc = [p \in Procs |-> "next"]
        /\ stage = [p \in Procs |-> 1]
        /\ user = [p \in Procs |-> 1]
        /\ seen = [p \in Procs |-> 0]
        /\ results = [p \in Procs |-> <<>>]
        /\ source \in Sources
        /\ root \in SUBSET Procs
        /\ writable \in BOOLEAN
        /\ crashes = 0 /\ lost = 0

Request(p) == source[p][user[p]]

Line(p) == [login |-> Request(p).login, uid |-> Request(p).uid,
            spelt |-> Request(p).spelt, by |-> p, seen |-> seen[p]]

Goto(p, label) == pc' = [pc EXCEPT ![p] = label] /\ stage' = [stage EXCEPT ![p] = 1]

Continue(p, label) == Goto(p, label) /\ UNCHANGED <<user, results>>

\* Mutant of Report: main's loop does not move on.
ReportStays(p, result) == /\ Goto(p, "next")
                          /\ results' = [results EXCEPT ![p] = Append(@, result)]
                          /\ UNCHANGED user

\* AddUser returns, or main skips the user: on to the next one.
Report(p, result) == /\ Goto(p, "next")
                     /\ user' = [user EXCEPT ![p] = @ + 1]
                     /\ results' = [results EXCEPT ![p] = Append(@, result)]

\* The kernel drops an instance's locks when its process ends.
DropLocks(p) == holder' = [f \in DOMAIN holder |-> IF holder[f] = p THEN None ELSE holder[f]]

-----------------------------------------------------------------------------
\* main's loop

\* PassGen returned "": the user is passed over and counted as failed.
NoPassword(p) == /\ pc[p] = "next" /\ user[p] <= Len(source[p])
                 /\ Report(p, "failed")
                 /\ UNCHANGED <<fileVars, holder, lost>>

Finish(p) == /\ pc[p] = "next" /\ user[p] > Len(source[p])
             /\ Continue(p, "done")
             /\ DropLocks(p)
             /\ UNCHANGED <<fileVars, lost>>

-----------------------------------------------------------------------------
\* AddUser

\* pw_uid is a uid_t of one bit more than an int has digits: getpwent cuts a larger
\* number down to the largest, and the cast makes one above IntMax negative.
UidMax == 2 * IntMax + 1
AsInt(uid) == IF uid <= IntMax THEN uid
              ELSE (IF uid < UidMax THEN uid ELSE UidMax) - (UidMax + 1)

\* getpwent passes over a line whose uid is no number.
Readable(l) == l.spelt # "no number"
SameLogin(l, q) == Readable(l) /\ l.login = q.login

\* The text of q's uid against sprintf("%d", (int) pw_uid): digits with leading
\* zeros equal no such text, and a negative number equals no digits.
SameUid(l, q) == Readable(l) /\ AsInt(l.uid) = q.uid /\ q.spelt = "plain"

\* Mutant of InUse: only the uid is compared.
UidInUse(q) == \E l \in ToSet(file["passwd"]) : SameUid(l, q)

\* passwd is only appended to, so the whole getpwent loop is one step: what is not
\* seen was added after it.
InUse(q) == \E l \in ToSet(file["passwd"]) : SameLogin(l, q) \/ SameUid(l, q)

Check(p) == /\ pc[p] = "next" /\ user[p] <= Len(source[p])
            /\ IF InUse(Request(p))
               THEN Report(p, "failed") /\ UNCHANGED seen
               ELSE Continue(p, "lock") /\ seen' = [seen EXCEPT ![p] = Len(file["passwd"])]
            /\ UNCHANGED <<fileVars, holder, lost>>

\* Mutant of CanLock: the result of flock is not looked at.
CanLockAlways(p, f) == f = "gshadow" => p \in root

\* Mutant of CanLock: a lock the process has already is granted again.
CanLockOwn(p, f) == holder[f] \in {None, p} /\ (f = "gshadow" => p \in root)

\* gshadow cannot be opened without root's rights, and flock fails on -1.
CanLock(p, f) == holder[f] = None /\ (f = "gshadow" => p \in root)

\* Mutant of LockFails: flock without LOCK_NB waits.
LockWaits(p) == /\ pc[p] = "lock"
                /\ Locked[stage[p]] = "gshadow" /\ p \notin root
                /\ Report(p, "failed with locks")
                /\ UNCHANGED <<fileVars, holder, lost>>

\* flock fails at once if any open file has the lock, one of the same process
\* included.  AddUser returns without closing what it has opened and locked.
LockFails(p) == /\ pc[p] = "lock"
                /\ ~CanLock(p, Locked[stage[p]])
                /\ Report(p, IF stage[p] = 1 THEN "failed" ELSE "failed with locks")
                /\ UNCHANGED <<fileVars, holder, lost>>

Lock(p) == /\ pc[p] = "lock"
           /\ CanLock(p, Locked[stage[p]])
           /\ holder' = [holder EXCEPT ![Locked[stage[p]]] = p]
           /\ IF stage[p] < Len(Locked)
              THEN stage' = [stage EXCEPT ![p] = @ + 1] /\ UNCHANGED <<pc, user, results>>
              ELSE Continue(p, "open")
           /\ UNCHANGED <<fileVars, lost>>

\* The fourth flock names gshadow's descriptor again: it succeeds and shadow
\* stays unlocked.  Then the four fopen calls, whichever of them fails first.
Open(p) == /\ pc[p] = "open"
           /\ writable
           /\ Continue(p, "flush")
           /\ UNCHANGED <<fileVars, holder, lost>>

OpenFails(p) == /\ pc[p] = "open"
                /\ ~writable
                /\ Report(p, "failed with locks")
                /\ UNCHANGED <<fileVars, holder, lost>>

\* Mutant of NextFlush: the last stream is never closed.
NextFlushShort(p) == IF stage[p] < Len(Written) - 1
                     THEN stage' = [stage EXCEPT ![p] = @ + 1] /\ UNCHANGED <<pc, user, results>>
                     ELSE Continue(p, "unlock")

\* The line reaches the file when fclose flushes the stream.
NextFlush(p) == IF stage[p] < Len(Written)
                THEN stage' = [stage EXCEPT ![p] = @ + 1] /\ UNCHANGED <<pc, user, results>>
                ELSE Continue(p, "unlock")

Flush(p) == /\ pc[p] = "flush"
            /\ file' = [file EXCEPT ![Written[stage[p]]] = Append(@, Line(p))]
            /\ NextFlush(p)
            /\ UNCHANGED <<homes, holder, lost>>

\* fclose's result is ignored.
FlushLost(p) == /\ pc[p] = "flush"
                /\ crashes + lost < MaxFaults
                /\ lost' = lost + 1
                /\ NextFlush(p)
                /\ UNCHANGED <<fileVars, holder>>

Unlock(p) == /\ pc[p] = "unlock"
             /\ holder' = [holder EXCEPT ![Locked[stage[p]]] = None]
             /\ IF stage[p] < Len(Locked)
                THEN stage' = [stage EXCEPT ![p] = @ + 1] /\ UNCHANGED <<pc, user, results>>
                ELSE Continue(p, "verify")
             /\ UNCHANGED <<fileVars, lost>>

\* The user is looked for under login and uid together.
Listed(q) == \E l \in ToSet(file["passwd"]) : SameLogin(l, q) /\ SameUid(l, q)

Verify(p) == /\ pc[p] = "verify"
             /\ IF Listed(Request(p)) THEN Continue(p, "home") ELSE Report(p, "unverified")
             /\ UNCHANGED <<fileVars, holder, lost>>

\* The result of mkdir is ignored: the user is a success without a home, too.
MakeHome(p) == /\ pc[p] = "home"
               /\ homes' \in {homes, homes \cup {Request(p).login}}
               /\ Report(p, "success")
               /\ UNCHANGED <<file, holder, lost>>

AfterCheck(p) == \/ Lock(p) \/ LockFails(p) \/ Open(p) \/ OpenFails(p) \/ Flush(p)
                 \/ FlushLost(p) \/ Unlock(p) \/ Verify(p) \/ MakeHome(p)

AddUser(p) == Check(p) \/ (AfterCheck(p) /\ UNCHANGED seen)

Proc(p) == /\ \/ (NoPassword(p) \/ Finish(p)) /\ UNCHANGED seen
              \/ AddUser(p)
           /\ UNCHANGED <<envVars, crashes>>

\* The process is killed and the program started again with the same list.
\* Lines still in a stream's buffer are gone.
Crash(p) == /\ pc[p] # "done"
            /\ crashes + lost < MaxFaults
            /\ crashes' = crashes + 1
            /\ DropLocks(p)
            /\ Goto(p, "next")
            /\ user' = [user EXCEPT ![p] = 1]
            /\ results' = [results EXCEPT ![p] = <<>>]
            /\ UNCHANGED <<fileVars, seen, envVars, lost>>

Next == \E p \in Procs : Proc(p) \/ Crash(p)

Spec == Init /\ [][Next]_vars

\* Every instance is scheduled; kills are not owed to anybody.
FairSpec == Spec /\ \A p \in Procs : WF_vars(Proc(p))

-----------------------------------------------------------------------------
\* main prints FAILED for every result but "success"; the other names tell what
\* AddUser left behind: nothing, locks, or lines it could not verify.
Results == {"success", "failed", "failed with locks", "unverified"}

Lines == [login : Logins, uid : Nat, spelt : Spellings, by : Procs \cup {None}, seen : Nat]
Labels == {"next", "lock", "open", "flush", "unlock", "verify", "home", "done"}

\* The types of the files, the locks and each instance's place in AddUser.
TypeOK == /\ file \in [Files -> Seq(Lines)]
          /\ holder \in [ToSet(Locked) -> Procs \cup {None}]
          /\ homes \subseteq Logins
          /\ pc \in [Procs -> Labels] /\ stage \in [Procs -> 1..4]
          /\ user \in [Procs -> Nat \ {0}] /\ results \in [Procs -> Seq(Results)]
          /\ seen \in [Procs -> Nat]
          /\ source \in Sources /\ root \subseteq Procs /\ writable \in BOOLEAN
          /\ \A p \in Procs :
                /\ user[p] <= Len(source[p]) + 1 /\ Len(results[p]) = user[p] - 1
                /\ pc[p] \notin {"next", "done"} => user[p] <= Len(source[p])
                /\ pc[p] \in {"lock", "unlock"} => stage[p] <= Len(Locked)
                /\ pc[p] \notin {"lock", "flush", "unlock"} => stage[p] = 1
          /\ crashes \in Nat /\ lost \in Nat /\ crashes + lost <= MaxFaults

\* Sequence g is a part of f, in the order of f: skipped[k] lines of f are passed
\* over up to the k-th line of g.
PartOf(g, f) == \E skipped \in [1..Len(g) -> 0..(Len(f) - Len(g))] :
                   \A k \in 1..Len(g) :
                      /\ g[k] = f[k + skipped[k]]
                      /\ \A j \in 1..Len(g) : j < k => skipped[j] <= skipped[k]

\* Whatever the instances do and wherever they are killed, as long as no write
\* fails each file holds a part of the file written before it, in the same
\* order: a user in shadow is in gshadow, group and passwd, never the other way.
FilesNested == lost = 0 => \A k \in 1..3 : PartOf(file[Written[k + 1]], file[Written[k]])

\* A line of passwd repeats a login or a uid that getpwent could have shown before
\* it only if two instances raced: the earlier line is another instance's, and it
\* was written after the later one's check.  No instance repeats itself, over all
\* its restarts.
OnlyRacesRepeat ==
  LET p == file["passwd"]
  IN \A j \in 2..Len(p) : \A i \in 1..(j - 1) :
        SameLogin(p[i], p[j]) \/ SameUid(p[i], p[j]) => i > p[j].seen /\ p[i].by # p[j].by

\* A user reported as a success is in passwd under login and uid, whichever writes
\* failed, and in all four files by the instance's own lines if none did.
SuccessMeansComplete ==
  \A p \in Procs : \A k \in 1..Len(results[p]) :
     results[p][k] = "success" =>
        /\ Listed(source[p][k])
        /\ lost = 0 => \A f \in Files : \E l \in ToSet(file[f]) :
                          l.by = p /\ l.login = source[p][k].login

Leaked(p) == "failed with locks" \in ToSet(results[p])

LeakedOnce == \A p \in Procs : \A k, m \in 1..Len(results[p]) :
                 k < m /\ results[p][k] = "failed with locks" => results[p][m] = "failed"

\* A return that leaves locks behind is the end of the run's usefulness: the
\* locks belong to descriptors nobody has any more, so the same instance fails
\* to lock for every user after it.  Only such a return leaves locks behind.
LeakIsFatal ==
  /\ LeakedOnce
  /\ \A p \in Procs : pc[p] = "next" /\ ~Leaked(p) => \A f \in ToSet(Locked) : holder[f] # p

-----------------------------------------------------------------------------
\* The inductive invariant.

\* The files among Locked that p's progress in AddUser gives it.
Holds(p, k) == \/ pc[p] = "lock" /\ k < stage[p]
               \/ pc[p] \in {"open", "flush"}
               \/ pc[p] = "unlock" /\ k >= stage[p]

\* An instance holds what its progress says, or leaked passwd's lock and never
\* gets past the first flock again.
LocksInv ==
  \A p \in Procs :
     /\ ~Leaked(p) => \A k \in 1..3 : holder[Locked[k]] = p <=> Holds(p, k)
     /\ Leaked(p) /\ pc[p] # "done" => /\ holder["passwd"] = p
                                       /\ pc[p] \in {"next", "lock"} /\ stage[p] = 1

\* Every line of passwd was checked against the lines before it, or fewer.
SeenInv == /\ \A p \in Procs : seen[p] <= Len(file["passwd"])
           /\ \A k \in 1..Len(file["passwd"]) : file["passwd"][k].seen < k

\* After the check and until its line is in passwd, p's user is repeated only by
\* lines written since the check, and none of these is p's.
Fresh(p) == \A k \in 1..Len(file["passwd"]) :
               LET l == file["passwd"][k]
               IN /\ SameLogin(l, Request(p)) \/ SameUid(l, Request(p)) => k > seen[p]
                  /\ l.by = p => k <= seen[p]

CheckedInv == \A p \in Procs : pc[p] \in {"lock", "open"} \/ (pc[p] = "flush" /\ stage[p] = 1)
                                  => Fresh(p)

Has(p, k) == Line(p) \in ToSet(file[Written[k]])

\* How far p's line has got: it is in the files before p's stage, at the end of
\* the last of them, and in no later one.
FlushInv ==
  lost = 0 => \A p \in Procs : \A k \in 1..4 :
     /\ pc[p] \in {"lock", "open"} \/ (pc[p] = "flush" /\ k >= stage[p]) => ~Has(p, k)
     /\ pc[p] \in {"unlock", "verify", "home"} \/ (pc[p] = "flush" /\ k < stage[p]) => Has(p, k)
     /\ pc[p] = "flush" /\ k + 1 = stage[p]
           => file[Written[k]] # <<>> /\ Last(file[Written[k]]) = Line(p)

\* A home is made only for a login that is in passwd.
HomesInv == /\ \A h \in homes : \E l \in ToSet(file["passwd"]) : Readable(l) /\ l.login = h
            /\ \A p \in Procs : pc[p] = "home" => Listed(Request(p))

IInv == /\ TypeOK /\ LocksInv /\ SeenInv /\ CheckedInv /\ FlushInv /\ LeakedOnce /\ HomesInv
        /\ FilesNested /\ OnlyRacesRepeat /\ SuccessMeansComplete

\* Nobody ever waits: even with leaked locks every instance comes to its end.
EveryRunEnds == \A p \in Procs : <>(pc[p] = "done")

\* "LOGIN ALREADY IN USE" (line 398): a login that is in passwd is not added
\* again.
UniqueLogins == LET p == file["passwd"]
                IN \A i, j \in 1..Len(p) : i # j => p[i].login # p[j].login
=============================================================================
