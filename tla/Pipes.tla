------------------------------- MODULE Pipes -------------------------------
(***************************************************************************)
(* Threading/pipe_example.c and Threading/pipe_CalcPI.c: the parent forks  *)
(* Procs children, each writes one result into a pipe, and the parent      *)
(* reads Procs results and adds them up.  The two programs differ in one   *)
(* thing that matters: pipe_example waits for each child before it forks   *)
(* the next one and treats a failed fork as a child, pipe_CalcPI waits for *)
(* nobody and exits when a fork fails.  Neither looks at what read         *)
(* returns.                                                                *)
(*                                                                         *)
(* A result is named by the child that computed it.                        *)
(***************************************************************************)
EXTENDS Integers, Sequences, SequencesExt, FiniteSetsExt

CONSTANTS Procs,        \* procs, the first argument
          Capacities,   \* how many results may fit into the pipe
          MaxKills      \* bound on children killed before they have written

ASSUME ProcsAssumption == Procs \in Nat \ {0}
ASSUME CapacityAssumption == Capacities \subseteq Nat \ {0}
ASSUME KillsAssumption == MaxKills \in Nat

Children == 1..Procs
Unset == 0              \* what the parent's variable holds before any read:
                        \* 0 in pipe_example, anything in pipe_CalcPI

VARIABLES prog, capacity,
          pipe,         \* the results in the pipe, oldest first
          pc,           \* where the parent is
          i,            \* the number its current loop has reached (its i + 1)
          it,           \* the result last read (it, or help)
          added,        \* the values it has added up, in order
          child,        \* child[c]: where child c is
          kills

parentVars == <<pc, i, it, added>>
vars == <<prog, capacity, pipe, parentVars, child, kills>>

Init == /\ prog \in {"example", "CalcPI"}
        /\ capacity \in Capacities
        /\ pipe = <<>>
        /\ pc = "fork" /\ i = 1
        /\ it = Unset
        /\ added = <<>>
        /\ child = [c \in Children |-> "none"]
        /\ kills = 0

-----------------------------------------------------------------------------
\* The pipe: both ends are inherited by every child.

\* Mutant of WriteEndOpen: the parent keeps its own write end.
WriteEndKept == TRUE

\* Once the parent reads it has closed its write end; so has a child that ended.
WriteEndOpen == \E c \in Children : child[c] \in {"start", "write", "close"}

\* Mutant of ReadEndOpen: the parent closes both ends while the children run.
ReadEndClosedEarly == \/ pc = "read"
                      \/ \E c \in Children : child[c] = "start"

\* A child closes its read end first, the parent its own at the end.
ReadEndOpen == \/ pc \in {"fork", "wait", "read"}
               \/ \E c \in Children : child[c] = "start"

-----------------------------------------------------------------------------
\* The parent

Advance(again, after) == IF i < Procs THEN i' = i + 1 /\ pc' = again
                                      ELSE i' = 1 /\ pc' = after

Fork == /\ pc = "fork"
        /\ child' = [child EXCEPT ![i] = "start"]
        /\ IF prog = "example" THEN pc' = "wait" /\ UNCHANGED i ELSE Advance("fork", "read")
        /\ UNCHANGED <<pipe, it, added>>

\* In pipe_example cpid = -1 takes the parent's branch: waitpid(-1, ...) finds
\* no child left to wait for, and the loop goes on.
ForkFails == /\ pc = "fork"
             /\ child' = [child EXCEPT ![i] = "failed"]
             /\ IF prog = "example" THEN Advance("fork", "read")
                                    ELSE pc' = "exited" /\ UNCHANGED i
             /\ UNCHANGED <<pipe, it, added>>

Wait == /\ pc = "wait"
        /\ child[i] \in {"done", "killed", "broken pipe"}
        /\ Advance("fork", "read")
        /\ UNCHANGED <<pipe, it, added, child>>

\* Mutant of Read: the loop ends at the end of the file.
ReadToEnd == /\ pc = "read"
             /\ \/ /\ pipe # <<>>
                   /\ it' = Head(pipe)
                   /\ pipe' = Tail(pipe)
                   /\ added' = Append(added, it')
                   /\ Advance("read", "ended")
                \/ /\ pipe = <<>> /\ ~WriteEndOpen
                   /\ pc' = "ended"
                   /\ UNCHANGED <<pipe, i, it, added>>
             /\ UNCHANGED child

\* read blocks while the pipe is empty and a writer is left.  At the end of the
\* file it returns 0 and the variable keeps its last value, which is added again.
Read == /\ pc = "read"
        /\ pipe # <<>> \/ ~WriteEndOpen
        /\ it' = IF pipe # <<>> THEN Head(pipe) ELSE it
        /\ pipe' = IF pipe # <<>> THEN Tail(pipe) ELSE pipe
        /\ added' = Append(added, it')
        /\ Advance("read", "ended")
        /\ UNCHANGED child

Parent == /\ Fork \/ ForkFails \/ Wait \/ Read
          /\ UNCHANGED <<prog, capacity, kills>>

-----------------------------------------------------------------------------
\* A child

ChildStep(c, from, to) == child[c] = from /\ child' = [child EXCEPT ![c] = to]

\* close(pipefd[0]); the Monte-Carlo loop touches nothing shared.
CloseReadEnd(c) == /\ ChildStep(c, "start", "write")
                   /\ UNCHANGED pipe

\* Mutant of Write: a result is written for each of two loops.
WriteTwice(c) == /\ ChildStep(c, "write", "close")
                 /\ ReadEndOpen
                 /\ Len(pipe) < capacity
                 /\ pipe' = pipe \o <<c, c>>

\* write blocks while the pipe is full; four bytes go in whole.
Write(c) == /\ ChildStep(c, "write", "close")
            /\ ReadEndOpen
            /\ Len(pipe) < capacity
            /\ pipe' = Append(pipe, c)

\* SIGPIPE ends a child that writes when nobody can read any more.
WriteBroken(c) == /\ ChildStep(c, "write", "broken pipe")
                  /\ ~ReadEndOpen
                  /\ UNCHANGED pipe

CloseWriteEnd(c) == /\ ChildStep(c, "close", "done")
                    /\ UNCHANGED pipe

Child(c) == /\ CloseReadEnd(c) \/ Write(c) \/ WriteBroken(c) \/ CloseWriteEnd(c)
            /\ UNCHANGED <<prog, capacity, parentVars, kills>>

\* A child killed after its write leaves what an ending one leaves.
Kill(c) == /\ kills < MaxKills
           /\ child[c] \in {"start", "write"}
           /\ child' = [child EXCEPT ![c] = "killed"]
           /\ kills' = kills + 1
           /\ UNCHANGED <<prog, capacity, pipe, parentVars>>

Next == Parent \/ \E c \in Children : Child(c) \/ Kill(c)

Spec == Init /\ [][Next]_vars

\* Every process is scheduled; nobody is owed a kill.
FairSpec == /\ Spec
            /\ WF_vars(Parent)
            /\ \A c \in Children : WF_vars(Child(c))

-----------------------------------------------------------------------------
\* Types; the pipe never holds more than fits.
TypeOK == /\ prog \in {"example", "CalcPI"} /\ capacity \in Capacities
          /\ pipe \in Seq(Children) /\ Len(pipe) <= capacity
          /\ pc \in {"fork", "wait", "read", "ended", "exited"}
          /\ i \in Children /\ it \in Children \cup {Unset}
          /\ added \in Seq(Children \cup {Unset})
          /\ child \in [Children -> {"none", "failed", "start", "write", "close", "done",
                                     "killed", "broken pipe"}]
          /\ kills \in 0..MaxKills

Wrote == {c \in Children : child[c] \in {"close", "done"}}

\* What a missing result costs: the parent always adds Procs values, first every
\* result that was written, each once, then the last of them again for every
\* child that failed, was killed or was never forked.  Only a run without a
\* fault adds up the results alone, and nothing tells the user which run it was.
MissingRepeatsLast ==
  pc = "ended" =>
    LET n == Cardinality(Wrote)
    IN /\ Len(added) = Procs
       /\ ToSet(SubSeq(added, 1, n)) = Wrote
       /\ \A k \in (n + 1)..Procs : added[k] = IF n = 0 THEN Unset ELSE added[n]

\* A child dies of a broken pipe only if the parent exited on a failed fork.
\* The parent does not close its end while a child may still write.
BrokenOnlyByExit == (\E c \in Children : child[c] = "broken pipe") => pc = "exited"

-----------------------------------------------------------------------------
\* The inductive invariant.

\* The parent forks its children in order, then adds up one value in each turn.
LoopInv ==
  /\ pc = "fork" => \A c \in Children : child[c] = "none" <=> c >= i
  /\ pc = "wait" => \A c \in Children : child[c] = "none" <=> c > i
  /\ pc \in {"read", "ended"} => \A c \in Children : child[c] # "none"
  /\ Len(added) = CASE pc = "read" -> i - 1 [] pc = "ended" -> Procs [] OTHER -> 0

\* The first n values were read, from n children, and the last of them is all
\* that was added since.
FirstRead(n) ==
  /\ \A k \in 1..n : added[k] \in Children
  /\ \A j, k \in 1..n : added[j] = added[k] => j = k
  /\ it = IF n = 0 THEN Unset ELSE added[n]
  /\ \A k \in (n + 1)..Len(added) : added[k] = it

\* A result that was written is among those read or in the pipe, and in one
\* place of one of them; a value is repeated only when no result can come.
OneWay(n) ==
  /\ \A j, k \in 1..Len(pipe) : pipe[j] = pipe[k] => j = k
  /\ \A j \in 1..Len(pipe) : \A k \in 1..n : pipe[j] # added[k]
  /\ \A c \in Children : c \in Wrote <=> \/ \E k \in 1..n : added[k] = c
                                         \/ \E j \in 1..Len(pipe) : pipe[j] = c
  /\ n < Len(added) => pipe = <<>> /\ ~WriteEndOpen

ResultsInv == \E n \in 0..Len(added) : FirstRead(n) /\ OneWay(n)

IInv == TypeOK /\ LoopInv /\ ResultsInv /\ BrokenOnlyByExit

\* The parent comes to its end, killed children or not, because it closed its
\* own write end and so sees the end of the file; except in pipe_example when
\* the results do not fit into the pipe.  pipe_CalcPI has no such limit.
ParentEnds == <>(pc \in {"ended", "exited"} \/ (prog = "example" /\ capacity < Procs))
=============================================================================
