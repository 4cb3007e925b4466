---------------------------- MODULE MessageQueue ----------------------------
(***************************************************************************)
(* Threading/mqueue_example.c: the parent unlinks the message queue        *)
(* /myqueue, forks Procs children and after each fork opens the queue,     *)
(* creating it if need be; every child opens it by name, without creating  *)
(* it, and sends one result; the parent polls for Procs results.  The name *)
(* is shared by all runs of the program, at once or one after the other.   *)
(* A queue lives as long as it has the name or a process has it open; then *)
(* the kernel destroys it together with the messages in it.                *)
(*                                                                         *)
(* A result is named by the run and the child that computed it.            *)
(***************************************************************************)
EXTENDS Integers, Sequences, SequencesExt, FiniteSetsExt

CONSTANTS Runs,       \* runs of the program that may happen
          Earlier,    \* a run that ended before them and left a result behind
          Procs,      \* procs, the first argument
          MaxMsg,     \* messages a queue can hold (10 by default)
          Limits      \* how many queues a process may be able to open

ASSUME EarlierAssumption == Earlier \notin Runs
ASSUME ProcsAssumption == Procs \in Nat \ {0}
ASSUME MaxMsgAssumption == MaxMsg \in Nat \ {0}
ASSUME LimitsAssumption == Limits \subseteq Nat

NoQueue == 0

VARIABLES queue,      \* queue[q]: the messages in queue q, oldest first
          name,       \* the queue that /myqueue names, or NoQueue
          limit,      \* the limit on open queues
          pc, i, qd,  \* where each run's parent is, its loop (its i + 1), msgq_id
          cpc, cqd,   \* where each run's children are, and their msgq_id
          fds,        \* fds[r][c]: the queues that child c of run r has open; its
                      \* parent is number 0
          got         \* got[r]: what the parent of r has added up, in order

parentVars == <<pc, i, qd, got>>
childVars == <<cpc, cqd>>
vars == <<queue, name, limit, fds, parentVars, childVars>>

Children == 1..Procs
Result(r, c) == [run |-> r, child |-> c]
Results == [run : Runs \cup {Earlier}, child : Children]

\* Any of the runs are made; an earlier one has left its queue and its result in
\* it, or nothing.
Init == /\ name \in {NoQueue, 1}
        /\ queue = IF name = 1 THEN <<<<Result(Earlier, 1)>>>> ELSE <<<<>>>>
        /\ limit \in Limits
        /\ pc \in [Runs -> {"unlink", "not run"}]
        /\ i = [r \in Runs |-> 1]
        /\ qd = [r \in Runs |-> NoQueue]
        /\ got = [r \in Runs |-> <<>>]
        /\ cpc = [r \in Runs |-> [c \in Children |-> "none"]]
        /\ cqd = [r \in Runs |-> [c \in Children |-> NoQueue]]
        /\ fds = [r \in Runs |-> [p \in 0..Procs |-> {}]]

-----------------------------------------------------------------------------
\* The kernel's part

InUse(q) == q = name \/ \E r \in Runs : \E p \in 0..Procs : q \in fds[r][p]

\* What a step leaves of the queues: one that is not in use any more is destroyed
\* and its messages are gone.
Left(queues) == [q \in DOMAIN queues |-> IF InUse(q)' THEN queues[q] ELSE <<>>]

Exits(r, p) == fds' = [fds EXCEPT ![r][p] = {}]

-----------------------------------------------------------------------------
\* The parent

Goto(r, from, to) == pc[r] = from /\ pc' = [pc EXCEPT ![r] = to]

\* Mutant of Loop: the loops end one turn early.
LoopShort(r, from, again, after) ==
  IF i[r] < Procs - 1
  THEN Goto(r, from, again) /\ i' = [i EXCEPT ![r] = @ + 1]
  ELSE Goto(r, from, after) /\ i' = [i EXCEPT ![r] = 1]

\* The loops: the next number, or what comes after the loop.
Loop(r, from, again, after) ==
  IF i[r] < Procs
  THEN Goto(r, from, again) /\ i' = [i EXCEPT ![r] = @ + 1]
  ELSE Goto(r, from, after) /\ i' = [i EXCEPT ![r] = 1]

\* Mutant of Unlink: the queue of the last run is used again.
UnlinkForgotten(r) == /\ Goto(r, "unlink", "fork")
                      /\ UNCHANGED <<queue, name, fds, i, qd, got, childVars>>

\* The name is free; the queue lives on while some process has it open.
Unlink(r) == /\ Goto(r, "unlink", "fork")
             /\ name' = NoQueue
             /\ UNCHANGED <<fds, i, qd, got, childVars>>
             /\ queue' = Left(queue)

\* The child inherits the parent's descriptors.  A failed fork takes the parent's
\* branch as well.
Fork(r) == /\ Goto(r, "fork", "open")
           /\ \/ /\ cpc' = [cpc EXCEPT ![r][i[r]] = "open"]
                 /\ fds' = [fds EXCEPT ![r][i[r]] = fds[r][0]]
              \/ cpc' = [cpc EXCEPT ![r][i[r]] = "failed"] /\ UNCHANGED fds
           /\ UNCHANGED <<queue, name, i, qd, got, cqd>>

\* Mutant of Open: the queue is created once, after the last fork.
OpenAfterLoop(r) ==
  /\ Loop(r, "open", "fork", "poll")
  /\ i[r] <= limit
  /\ IF i[r] = Procs /\ name = NoQueue
     THEN queue' = Append(queue, <<>>) /\ name' = Len(queue')
     ELSE UNCHANGED <<queue, name>>
  /\ qd' = [qd EXCEPT ![r] = name']
  /\ fds' = [fds EXCEPT ![r][0] = @ \cup ({name'} \ {NoQueue})]
  /\ UNCHANGED <<got, childVars>>

\* mq_open with O_CREAT after every fork; the descriptors are not closed, so
\* the i-th fork needs i of them.
Open(r) == /\ Loop(r, "open", "fork", "poll")
           /\ i[r] <= limit
           /\ IF name = NoQueue
              THEN queue' = Append(queue, <<>>) /\ name' = Len(queue')
              ELSE UNCHANGED <<queue, name>>
           /\ qd' = [qd EXCEPT ![r] = name']
           /\ fds' = [fds EXCEPT ![r][0] = @ \cup {name'}]
           /\ UNCHANGED <<got, childVars>>

\* exit(1); the children are left to themselves.
OpenFails(r) == /\ Goto(r, "open", "exited")
                /\ i[r] > limit
                /\ Exits(r, 0)
                /\ UNCHANGED <<name, i, qd, got, childVars>>
                /\ queue' = Left(queue)

\* Mutant of Poll: the last message is never seen.
PollMoreThanOne(r) == /\ Goto(r, "poll", "receive")
                      /\ Len(queue[qd[r]]) > 1
                      /\ UNCHANGED <<queue, name, fds, i, qd, got, childVars>>

\* mq_getattr; while there is no message the parent looks again.
Poll(r) == /\ Goto(r, "poll", "receive")
           /\ queue[qd[r]] # <<>>
           /\ UNCHANGED <<queue, name, fds, i, qd, got, childVars>>

\* mq_receive would wait if somebody else took the message meanwhile.  After the
\* last result the parent returns.
Receive(r) == /\ Loop(r, "receive", "poll", "done")
              /\ queue[qd[r]] # <<>>
              /\ got' = [got EXCEPT ![r] = Append(@, Head(queue[qd[r]]))]
              /\ IF i[r] < Procs THEN UNCHANGED fds ELSE Exits(r, 0)
              /\ UNCHANGED <<name, qd, childVars>>
              /\ queue' = Left([queue EXCEPT ![qd[r]] = Tail(@)])

Parent(r) == /\ \/ Unlink(r) \/ Fork(r) \/ Open(r) \/ OpenFails(r)
                \/ Poll(r) \/ Receive(r)
             /\ UNCHANGED limit

-----------------------------------------------------------------------------
\* A child

ChildGoto(r, c, from, to) == cpc[r][c] = from /\ cpc' = [cpc EXCEPT ![r][c] = to]

\* It has inherited the c - 1 descriptors the parent had.
ChildOpen(r, c) == /\ ChildGoto(r, c, "open", "send")
                   /\ name # NoQueue /\ c <= limit
                   /\ cqd' = [cqd EXCEPT ![r][c] = name]
                   /\ fds' = [fds EXCEPT ![r][c] = @ \cup {name}]
                   /\ UNCHANGED queue

\* There is no queue of that name (yet), or no descriptor: exit(1).
ChildOpenFails(r, c) == /\ ChildGoto(r, c, "open", "exited")
                        /\ name = NoQueue \/ c > limit
                        /\ Exits(r, c)
                        /\ UNCHANGED cqd
                        /\ queue' = Left(queue)

\* Mutant of Send: a result that finds the queue full is dropped.
SendOrDrop(r, c) ==
  /\ ChildGoto(r, c, "send", "sent")
  /\ Exits(r, c)
  /\ UNCHANGED cqd
  /\ queue' = Left(IF Len(queue[cqd[r][c]]) < MaxMsg
                   THEN [queue EXCEPT ![cqd[r][c]] = Append(@, Result(r, c))]
                   ELSE queue)

\* Mutant of Send: the queue takes one message more than it holds.
SendOverfull(r, c) == /\ ChildGoto(r, c, "send", "sent")
                      /\ Len(queue[cqd[r][c]]) <= MaxMsg
                      /\ Exits(r, c)
                      /\ UNCHANGED cqd
                      /\ queue' = Left([queue EXCEPT ![cqd[r][c]] = Append(@, Result(r, c))])

\* mq_send waits while the queue is full.  After it the child exits: if nobody
\* else has the queue, the result goes with it.
Send(r, c) == /\ ChildGoto(r, c, "send", "sent")
              /\ Len(queue[cqd[r][c]]) < MaxMsg
              /\ Exits(r, c)
              /\ UNCHANGED cqd
              /\ queue' = Left([queue EXCEPT ![cqd[r][c]] = Append(@, Result(r, c))])

Child(r, c) == /\ UNCHANGED <<name, limit, parentVars>>
               /\ ChildOpen(r, c) \/ ChildOpenFails(r, c) \/ Send(r, c)

Next == \E r \in Runs : Parent(r) \/ \E c \in Children : Child(r, c)

Spec == Init /\ [][Next]_vars

\* Every process is scheduled.
FairSpec == Spec /\ \A r \in Runs : /\ WF_vars(Parent(r))
                                    /\ \A c \in Children : WF_vars(Child(r, c))

-----------------------------------------------------------------------------
\* Types; no queue overflows and every descriptor in use is of a queue that exists.
TypeOK ==
  /\ queue \in Seq(Seq(Results)) /\ \A q \in 1..Len(queue) : Len(queue[q]) <= MaxMsg
  /\ name \in 0..Len(queue) /\ limit \in Limits
  /\ pc \in [Runs -> {"not run", "unlink", "fork", "open", "poll", "receive", "done",
                      "exited"}]
  /\ i \in [Runs -> Children]
  /\ qd \in [Runs -> 0..Len(queue)]
  /\ got \in [Runs -> Seq(Results)]
  /\ cpc \in [Runs -> [Children -> {"none", "failed", "open", "send", "sent", "exited"}]]
  /\ cqd \in [Runs -> [Children -> 0..Len(queue)]]
  /\ fds \in [Runs -> [0..Procs -> SUBSET (1..Len(queue))]]
  /\ \A r \in Runs : /\ pc[r] \in {"poll", "receive"} => qd[r] # NoQueue
                     /\ \A c \in Children : cpc[r][c] \in {"send", "sent"}
                                              => cqd[r][c] # NoQueue

\* The only run there is.
Alone(r) == \A s \in Runs : (s = r) = (pc[s] # "not run")

\* A result that an earlier run has left is never counted: the queue is
\* unlinked before the first fork, and no descriptor of the old one is left.
NoStaleResults == \A r \in Runs : \A k \in 1..Len(got[r]) : got[r][k].run # Earlier

\* Where a result is: <<queue, position>> in a queue, <<run, position>> in a sum.
Queued(m) == {p \in (1..Len(queue)) \X (1..MaxMsg) :
                p[2] <= Len(queue[p[1]]) /\ queue[p[1]][p[2]] = m}
Counted(m) == {p \in Runs \X (1..Procs) : p[2] <= Len(got[p[1]]) /\ got[p[1]][p[2]] = m}

\* Another run has unlinked the name.
Disturbed(r) == \E s \in Runs \ {r} : pc[s] \notin {"not run", "unlink"}

\* Runs that share a queue, because one unlinks the name while another is at
\* work, may count each other's results; still none is in two places or counted
\* twice.  A result that was sent is lost only with its queue, when another run
\* has taken the name from it and the last process that had it open is gone.
EachResultOnce ==
  \A r \in Runs : \A c \in Children :
     LET m == Result(r, c)
         places == Cardinality(Queued(m)) + Cardinality(Counted(m))
     IN IF cpc[r][c] = "sent"
        THEN places = 1 \/ (places = 0 /\ ~InUse(cqd[r][c]) /\ Disturbed(r))
        ELSE places = 0

\* A run with no other run beside it ends only with the result of each of its
\* children.
AloneAddsUp ==
  \A r \in Runs : Alone(r) /\ pc[r] = "done" =>
     /\ ToSet(got[r]) = {Result(r, c) : c \in Children}
     /\ \A c \in Children : cpc[r][c] = "sent"

\* Opening the queue after every fork comes too late for the first child alone:
\* any other child finds it, if it has a descriptor left.
OnlyFirstMisses ==
  \A r \in Runs : \A c \in Children :
     Alone(r) /\ cpc[r][c] = "exited" => c = 1 \/ c > limit

-----------------------------------------------------------------------------
\* The inductive invariant.

\* A parent forks only after it has unlinked the name, its children in order, and
\* adds up one result in each turn of its second loop.
LoopInv ==
  \A r \in Runs :
     /\ pc[r] \in {"not run", "unlink"} => i[r] = 1 /\ \A c \in Children : cpc[r][c] = "none"
     /\ pc[r] = "fork" => \A c \in Children : c >= i[r] => cpc[r][c] = "none"
     /\ pc[r] = "open" => \A c \in Children : c > i[r] => cpc[r][c] = "none"
     /\ pc[r] \in {"poll", "receive"} => Len(got[r]) = i[r] - 1
     /\ pc[r] = "done" => Len(got[r]) = Procs
     /\ pc[r] \notin {"poll", "receive", "done"} => Len(got[r]) = 0

\* The old queue is the first; once a run has unlinked the name nobody opens it.
StaleInv ==
  /\ Len(queue) >= 1
  /\ \A r \in Runs : pc[r] \notin {"not run", "unlink"} => name # 1
  /\ \A r \in Runs : qd[r] # 1 /\ \A c \in Children : cqd[r][c] # 1
  /\ \A m \in Results : m.run = Earlier => /\ \A p \in Queued(m) : p[1] = 1
                                           /\ Counted(m) = {}

\* The queue a process waits at or sends to is one it has open, a child has none
\* before its fork, a queue that is not in use is empty, and a child's queue has lost
\* the name only to another run.
QueuesInv ==
  /\ \A r \in Runs :
        /\ pc[r] \in {"poll", "receive"} => qd[r] \in fds[r][0]
        /\ \A c \in Children :
              /\ cpc[r][c] = "send" => cqd[r][c] \in fds[r][c]
              /\ cpc[r][c] = "none" => cqd[r][c] = NoQueue /\ fds[r][c] = {}
              /\ cqd[r][c] \in {NoQueue, name} \/ Disturbed(r)
  /\ \A q \in 1..Len(queue) : InUse(q) \/ queue[q] = <<>>

\* A result is nowhere before it was sent; after that it is in one place, which
\* is the queue the child sent it to or a sum, or it is gone with that queue.
PlacesInv ==
  \A r \in Runs : \A c \in Children :
     LET m == Result(r, c)
     IN /\ Queued(m) # {} \/ Counted(m) # {} => cpc[r][c] = "sent"
        /\ cpc[r][c] = "sent" => Queued(m) # {} \/ Counted(m) # {} \/ ~InUse(cqd[r][c])
        /\ Queued(m) = {} \/ Counted(m) = {}
        /\ \A p \in Queued(m) : p[1] = cqd[r][c]
        /\ \A p, o \in Queued(m) : p = o
        /\ \A p, o \in Counted(m) : p = o

\* A run alone has created the queue before it forks its second child.
MissInv ==
  \A r \in Runs : Alone(r) =>
     /\ pc[r] \in {"fork", "open"} /\ i[r] > 1 => name # NoQueue
     /\ \A c \in Children : c > 1 /\ cpc[r][c] # "none" => name # NoQueue

IInv == /\ TypeOK /\ LoopInv /\ StaleInv /\ QueuesInv /\ PlacesInv /\ MissInv
        /\ OnlyFirstMisses

\* A parent ends unless a fork failed, a child did not find the queue or another
\* run interfered: each of these leaves it polling for a result that never
\* comes.  The queue's limit never makes parent and children wait for each other.
ParentEnds ==
  \A r \in Runs : <>(\/ pc[r] \in {"not run", "done", "exited"}
                     \/ \E c \in Children : cpc[r][c] \in {"failed", "exited"}
                     \/ ~Alone(r))
=============================================================================
