------------------------------- MODULE Gather -------------------------------
(***************************************************************************)
(* Two programs that share a computation out to threads and add up what    *)
(* they found.                                                             *)
(*                                                                         *)
(* Threading/pthread_example.c makes one thread per task, joins them in    *)
(* order and adds what each returned.  A failed pthread_create is only     *)
(* reported; the join of the handle that was never set then stores no      *)
(* result, and the null pointer is read.                                   *)
(*                                                                         *)
(* Threading/omp_example.c lets a team of threads share out the rounds of  *)
(* one loop, each with a G of its own, and add to GG atomically.           *)
(*                                                                         *)
(* A task's result is named by the task's number; GG is the sequence of    *)
(* the results that were added.                                            *)
(***************************************************************************)
EXTENDS Integers, Sequences, SequencesExt

CONSTANTS N,       \* threadCounter
          Team     \* the threads of the parallel region

ASSUME NAssumption == N \in Nat \ {0}
ASSUME TeamAssumption == Team # {}

Tasks == 1..N

VARIABLES prog,    \* "pthread" or "omp"
          pc,      \* where main is
          i,       \* main's loop counter (pthread)
          run,     \* run[t]: what became of task t so far
          cur, G,  \* the task of a team's thread, or 0, and its G (omp)
          GG

vars == <<prog, pc, i, run, cur, G, GG>>

Init == /\ prog \in {"pthread", "omp"}
        /\ pc = (IF prog = "pthread" THEN "create" ELSE "parallel")
        /\ i = 1
        /\ run = [t \in Tasks |-> "none"]
        /\ cur = [w \in Team |-> 0]
        /\ G = [w \in Team |-> 0]
        /\ GG = <<>>

Set(t, to) == run' = [run EXCEPT ![t] = to]

-----------------------------------------------------------------------------
\* pthread_example.c

\* The end of a loop's round: the next one, or the first of the next loop.
Advance(to) == IF i < N THEN i' = i + 1 /\ UNCHANGED pc ELSE i' = 1 /\ pc' = to

Create == /\ pc = "create"
          /\ \E to \in {"running", "failed"} : Set(i, to)
          /\ Advance("join")
          /\ UNCHANGED <<prog, cur, G, GG>>

\* singleint returns its count.
Return(t) == /\ prog = "pthread" /\ pc # "crashed"
             /\ run[t] = "running"
             /\ Set(t, "returned")
             /\ UNCHANGED <<prog, pc, i, cur, G, GG>>

Join == /\ pc = "join"
        /\ run[i] = "returned"
        /\ Set(i, "counted")
        /\ GG' = Append(GG, i)
        /\ Advance("print")
        /\ UNCHANGED <<prog, cur, G>>

\* Nothing but the null pointer of calloc is in ret_arg[i], or the join itself
\* does not survive the unset handle.
JoinUnset == /\ pc = "join"
             /\ run[i] = "failed"
             /\ pc' = "crashed"
             /\ UNCHANGED <<prog, i, run, cur, G, GG>>

-----------------------------------------------------------------------------
\* omp_example.c.  Which thread gets which round of the loop is up to the
\* implementation.

Take(w) == /\ pc = "parallel"
           /\ cur[w] = 0
           /\ \E t \in Tasks : /\ run[t] = "none"
                               /\ Set(t, "running")
                               /\ cur' = [cur EXCEPT ![w] = t]
           /\ G' = [G EXCEPT ![w] = 0]
           /\ UNCHANGED <<prog, pc, i, GG>>

\* Mutant of Count: G is not private.
CountShared(w) == /\ cur[w] # 0 /\ G[w] = 0
                  /\ G' = [v \in Team |-> cur[w]]
                  /\ UNCHANGED <<prog, pc, i, run, cur, GG>>

\* The inner loop; G is private.
Count(w) == /\ cur[w] # 0 /\ G[w] = 0
            /\ G' = [G EXCEPT ![w] = cur[w]]
            /\ UNCHANGED <<prog, pc, i, run, cur, GG>>

\* The atomic update.
Add(w) == /\ cur[w] # 0 /\ G[w] # 0
          /\ GG' = Append(GG, G[w])
          /\ Set(cur[w], "counted")
          /\ cur' = [cur EXCEPT ![w] = 0]
          /\ UNCHANGED <<prog, pc, i, G>>

\* The region ends when the team has met at the end of the loop.
Region == /\ pc = "parallel"
          /\ \A t \in Tasks : run[t] = "counted"
          /\ pc' = "print"
          /\ UNCHANGED <<prog, i, run, cur, G, GG>>

-----------------------------------------------------------------------------
\* "TOTAL RESULT"
PrintTotal == pc = "print" /\ pc' = "end" /\ UNCHANGED <<prog, i, run, cur, G, GG>>

Next == \/ Create \/ Join \/ JoinUnset
        \/ \E t \in Tasks : Return(t)
        \/ \E w \in Team : Take(w) \/ Count(w) \/ Add(w)
        \/ Region
        \/ PrintTotal

Spec == Init /\ [][Next]_vars

-----------------------------------------------------------------------------
TypeOK == /\ prog \in {"pthread", "omp"}
          /\ pc \in (IF prog = "pthread" THEN {"create", "join", "crashed"} ELSE {"parallel"})
                    \cup {"print", "end"}
          /\ i \in Tasks
          /\ run \in [Tasks -> {"none", "failed", "running", "returned", "counted"}]
          /\ cur \in [Team -> 0..N]
          /\ G \in [Team -> 0..N]
          /\ GG \in Seq(Tasks)

\* A result is in GG exactly once, and exactly when its task was counted.
CountedOnce == /\ \A j, k \in 1..Len(GG) : j # k => GG[j] # GG[k]
               /\ \A t \in Tasks : run[t] = "counted" <=> \E j \in 1..Len(GG) : GG[j] = t

\* A team's thread adds the result of its own task, which no other has.
OwnResults ==
  \A w \in Team : cur[w] # 0 => /\ run[cur[w]] = "running"
                                /\ G[w] \in {0, cur[w]}
                                /\ \A v \in Team \ {w} : cur[v] # cur[w]

\* main joins in order.
JoinedInOrder ==
  /\ pc \in {"create", "join", "crashed"} =>
       /\ \A w \in Team : cur[w] = 0
       /\ \A t \in Tasks : run[t] = "counted" <=> pc # "create" /\ t < i
  /\ pc = "create" => \A t \in Tasks : run[t] = "none" <=> t >= i
  /\ pc \in {"join", "crashed"} => \A t \in Tasks : run[t] # "none"

\* The printed total holds every result exactly once: no total is printed when a
\* thread could not be created.
TotalIsWhole == pc \in {"print", "end"} => \A t \in Tasks : run[t] = "counted"

GatherInv == TypeOK /\ CountedOnce /\ OwnResults /\ JoinedInOrder /\ TotalIsWhole
=============================================================================
