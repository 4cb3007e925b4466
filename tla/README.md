# A verification of SUSU_Linux_Labs

TLA+ models, TLC runs and TLAPS proofs for the programs of this repository: a
set of Linux laboratory exercises on threads, processes, raw sockets, user
management and shell scripts.  Each program is small; what is hard about it is
how its threads, processes, packets or files interact, and that is what is
modelled here.

Contents: [the system](#1-the-system) |
[modules](#2-modules-and-how-they-correspond-to-the-code) |
[runs](#3-runs) | [fairness](#4-fairness) | [proofs](#5-proofs) |
[disagreements](#6-where-the-code-does-not-do-what-it-says) |
[not modelled](#7-what-is-not-modelled) | [plan](#8-plan)

## 1. The system

The programs do not call each other.  Client and server pairs meet over the
network, runs of one program meet in named kernel objects (semaphores, a
message queue) or in the account files.

| Component | State | Operations | How its parts interact |
|---|---|---|---|
| Reusable barrier, `Threading/pthread_barrier_sync_proper.cpp` | `countReady`, `currentSem`, `currentSemArray`, two named semaphores, `barMutex` | `Wait`, `singleint` (three rounds), create and join loops of `main` | N threads over shared memory |
| Barrier with the bug, `pthread_barrier_sync_with_bug.cpp` | the counter, one semaphore, the mutex | `Sync`, `singleint` | the same |
| Stack and queue, `pthread_stack_queue.cpp` | two linked lists, each with a mutex and a semaphore, and `threadMutex` | `Push`, `Pop`, `singleint`, `main` | children push, the parent pops |
| Pipe programs, `pipe_example.c`, `pipe_CalcPI.c` | the pipe, the children, the sum | fork, write, wait, read | children write, the parent reads |
| Message queue program, `mqueue_example.c` | the queue `/myqueue`, its name, who has it open, the sum | unlink, fork, open, send, poll, receive | children and parent, and other runs, through the name |
| Gather programs, `pthread_example.c`, `omp_example.c` | results per thread, the sum | create, return, join; the team's rounds and the atomic update | joins, the shared sum |
| Hello programs, `*_hello.c` | none | a line per thread | none |
| MDHCP, `RawSocket_MDHCP` | open sockets, descriptors, the client's `GOT_IT` | `Listen`, `ProcessPacket`, `SendPacket` | UDP frames read from packet sockets |
| Date and time, `RawSocket_DateTime` | as MDHCP, with a text request | the same functions | the same |
| `usgen`, reading, `ManualUserCreation` | the record being read, the list of users, `LINE` | `InputHandler`, `ReadFile` | gives `main` its list |
| `usgen`, adding | `passwd`, `group`, `gshadow`, `shadow`, their `flock`s, homes | `AddUser`, `main` | instances, over the files and locks |
| Console game, `Bash/Game` | position, direction, carried object, screen | one per key | none |
| Text transformer, password generator | files, output | conversions | fixed temporary names |
| Administration scripts | none of their own | menus over system tools | none |

What is hard in them, and makes the properties:

* **Interleaving.** A thread that leaves the barrier early can come round
  before the others have woken up.  Pushes of several children interleave with
  pops.  A child can open the message queue before the parent has created it.
  Two instances of `usgen` both check before either locks.
* **Ordering and loss.** An MDHCP frame that comes while no socket is open, or
  waits behind the one frame `Listen` takes, is never seen; nobody repeats
  anything.
* **Partial failure and crash.** A failed `pthread_create` or `fork`, a killed
  child, a line that `fclose` cannot write, a kill between two `fclose` calls,
  an early return that keeps locks.
* **Limits.** A full pipe, a full message queue, descriptors that are never
  closed, a uid that does not fit into an `int`.
* **Lifetime.** A message queue whose name was unlinked goes, with what is in
  it, when the last process that has it open ends.
* **Input that ends too early.** A last line without its line end, an option
  cut off by the end of the datagram, a text without its terminating zero.
* **Long sequences.** The game changes the screen cell by cell and must keep it
  in step with what it believes.

`PROJECT.json` lists every such hazard at its line with the properties that
cover it, or the reason why none does yet.

## 2. Modules, and how they correspond to the code

A module is a program (or a pair of programs); its actions are steps between
two accesses of shared state.  Straight-line code on local data belongs to the
step before or after.  The Monte-Carlo loops compute a number that no property
is about: a result is named by the thread or child that computed it.
Definitions whose comment begins with *Mutant of* are not part of a
specification; each is a plausible bug, used to see that a property notices it.

### `AbstractBarrier`, `SyncBarrier`, `SyncBarrierProofs`, `MCSyncBarrier`

`AbstractBarrier` says what callers of a barrier rely on: a thread arrives, and
leaves only when every thread has arrived as often.

`SyncBarrier` is the proper program.  `pc[t]` is the place of thread `t` in
`singleint` and `Wait`:

| Action | Code |
|---|---|
| `Lock` | `pthread_mutex_lock` after the computation |
| `EnterEarly`, `EnterLast` | `countReady++` and the test, the saved semaphore index or the reset |
| `Unlock`, `SemWait` | the early thread gives up the mutex and sleeps; the index is read again there |
| `Post`, `PostsDone`, `Flip`, `Release` | the last thread's loop of N - 1 posts, the switch, the unlock |
| `Create`, `CreateFails`, `Join`, `JoinUnset` | the two loops of `main` |

A failed `pthread_create` only prints, so the barrier goes on expecting N
threads.  Joining the handle that was never written is undefined behaviour:
`JoinUnset` either goes on or ends the process.  `Lock` needs a free mutex,
`SemWait` a token; both may be given to any thread that asks.  The refinement
maps `arrived[t]` to the calls of `Wait` that `t` has counted itself in, and
`left[t]` to those that returned (`yolt`).

### `BuggyBarrier`, `MCBuggyBarrier`

The other program, with one semaphore and N posts for N - 1 waiters, and the
same loops of `main`.

### `AbstractChannel`, `StackQueue`, `StackQueueProofs`, `MCStackQueue`

`AbstractChannel` is a channel of results, last in first out or first in first
out, to which each sender puts one item and from which one receiver takes.
`StackQueue` has the classes with their pointers: nodes are not freed, so
`snext`, `qnext` and `last` keep stale values, as in the code.  `StackItems`
and `QueueItems` follow the pointers and are what the abstract channel's `items`
is mapped to.  When `Pop` finds the list empty the `int` function ends without
a return: the model goes to `undefined`, and `SemaphoresCount` says it never
does.  `main` expects N results even if a thread was not created.

### `Pipes`, `PipesProofs`, `MCPipes`

Both pipe programs; the variable `prog` says which.  The pipe holds `capacity`
results (64 kilobytes of 4-byte results in Linux, so the limit is real but
large).  `ForkFails` follows each program: `pipe_CalcPI` exits, `pipe_example`
has no branch for -1 and goes on as the parent.  At the end of the file `read`
leaves its variable alone, and the old value is added again.

### `MessageQueue`, `MessageQueueProofs`, `MCMessageQueue`

`queue` is a sequence of queue objects and `name` the one that `/myqueue`
names, if any.  `fds[r][c]` are the queues that child `c` of run `r` has open,
with 0 for the parent; a child inherits what the parent has open when it is
forked.  Unlinking frees the name and keeps the object for those who have it
open; each process that ends closes what it has (`Exits`), and a queue that has
neither a name nor a descriptor (`InUse`) is destroyed by the kernel, which in
the model empties it (`Left`).  `Left` is part of every step that can take away
a queue's last use: `Unlink`, both `exit(1)`s, the parent's return and the
child's `_exit`.  So a child whose parent exited at its limit may send its
result to a queue without a name that ends with the child.  Several runs share
the name, and an earlier run may have left a queue with a message in it.
Descriptors are counted against `limit`: each fork of the parent opens the queue
once more and closes nothing.  `Poll` with an empty queue changes nothing and is
not a step.

### `UserAdd`, `UserAddProofs`, `MCUserAdd`

`main`'s loop and `AddUser` for any number of instances.  `Check` is the search
in `passwd`; one step suffices since the file is only appended to.  `Lock` and
`LockFails` are the `flock` calls with `LOCK_NB`, in the code's order; a return
after `LockFails` or `OpenFails` does not close what was opened, so the locks
stay with descriptors that nobody has any more.  The fourth `flock` names
gshadow's descriptor a second time, hence `shadow` is never locked.  A line
reaches its file when `fclose` flushes it (`Flush`), or does not (`FlushLost`:
the result is ignored).  `Crash` is a kill and a new start of the same list;
the kernel then drops the locks.

`AddUser` compares the uid of its list, which is text, with
`sprintf("%d", (int) pw_uid)`.  A uid is modelled as a number and the way it is
`spelt`: as `%d` prints it, with leading zeros, or as something that is no
number.  `AsInt` is the way of the number through `getpwent`, which cuts what
does not fit into 32 bits down to the largest `uid_t`, and through the cast to
`int`, which makes it negative from 2^31 on.  `SameUid` is then the comparison:
a padded uid and one from 2^31 on are never found in use (`InUse`) and never
verified (`Listed`).  Two users of one list with uid 3000000000 are both added,
and both reported as failed.  `getpwent` passes over a line whose uid is no
number (`Readable`), so that even its login is not found again.  `IntMax` is
2^31 - 1 in the code; the runs scale it to 2, which makes 3 a uid that turns
negative and 6 one that is cut down, and the proofs hold for any value.

`MakeHome` makes the home directory or not, since nobody looks at what `mkdir`
returns, and reports a success either way.  Whose the home is (`chown`, with 1
as its group whatever group was written) is not kept.

Two fields of a line are not in the files, for the properties only: `by`, the
instance that wrote it, and `seen`, how many lines `passwd` had when that
instance found the user to be new.

### `ReadUsers`, `ReadUsersProofs`, `MCReadUsers`

What `usgen` does before it adds anybody.  The source file is a sequence of
tokens: separators, line ends, the byte 255 (which `char c` cannot tell from
`EOF`), and fields.  `ReadLogin`, `ReadUid` and `ReadFullname` each read one
field and the character behind it and take the code's branch: `break`, or on to
the next field.  `flags` are `l_s`, `u_s` and `fn_s`; `users` are the nodes of
the list that were filled.  `AfterLoop` is the test for an error and
`N = LINE-1`.  `InputHandler` copies the file's name without a terminating
zero, hence the choice in `Open`, and with three arguments and an unknown option
it returns nothing at all.  The field `at` of a user is not in the program: it
remembers where in the file the record stood, for the properties.

`UserAdd` starts where `ReadUsers` ends, from lists of well-formed records.

### `PacketData`

What the raw-socket programs compute on bytes, as pure functions: the checksum
`csum`, and the option loop of `GetUDPData`, with the values that its callers
then take from an option.  A byte that lies behind the end of the datagram is
uninitialized memory: it may be anything, and so may the port or the lease time
made from it.

### `PacketExchange`, `PacketProofs`, `MCPacketExchange`

MDHCP and the date and time programs: a server and clients on hosts, and a lossy
network.  The two pairs share `Listen`, `ProcessPacket` and `SendPacket` almost
line by line; `prog` says which pair runs.  `Open`, `Recv`, `RecvError` and
`Close` are `Listen`; `Reply`, `ReplyFails`, `Misread`, `Ignore`, `Accept` and
`Drop` are `ProcessPacket` and `SendPacket`; `Refuse` and `Send` are the
client's `main`.  A packet socket hears everything on its host; what waits in it
when it is closed is discarded.  A frame is a record of what the receivers test;
the field `about`, which is not in the packet, names the exchange a frame
belongs to and appears only in properties and in the reply's construction.  An
MDHCP answer goes to the address and port that the request's data name, the
port through option 105 and `PacketData`; the other one goes to the source of
the packet.  `Misread` is the comparison of the unterminated copy of the
request that fails though the text is right.  `leaked` counts the sending
sockets the server never closes.  `Setups` are the ways to start the programs.

### `Game`, `MCGame`

`Bash/Game/game.sh`, one action for each key with all that its handler does.
The carried object is put into the lower right corner of the walls, which
nobody inside the field can face.  `screen` holds the
characters in the cells of the field; the script only ever draws or blanks a
single cell, so that it could leave a trace or lose a piece.  `GameInit`, `GameNext`
and `GameSpec` have the prefix because the proofs about `Game` and `Gather` are in
one module.

### `Gather`, `MCGather`, and `GatherGameProofs`

`pthread_example.c` and `omp_example.c`; `prog` says which.  In the first, main
creates and joins in order, and the null pointer of a thread that was not
created is read (`JoinUnset`).  In the second, `Take`, `Count` and `Add` are a
round of the shared loop on one of the team's threads: the round is somebody's
choice, `G` is private, the update of `GG` is atomic, and `Region` is the barrier
at the end.

## 3. Runs

Each run of a component with an inductive invariant checks that one too (`IInv`,
`ReadInv`, `GameInv` or `GatherInv`, section 5).

| Run | Bounds | What it shows |
|---|---|---|
| `barrier_proper` | 4 threads, 3 rounds | nobody leaves early (`NoEarlyLeave`); one failed creation keeps the barrier shut (`ShortHandedStaysShut`); everything is idle when it is destroyed (`CleanShutdown`); the program implements `AbstractBarrier`; with all threads created it ends (`Completion`) |
| `barrier_bug` | 3 threads, 3 rounds | violates `NoEarlyLeave`, see section 6 |
| `stack_queue` | 3 children | semaphores agree with lists (`SemaphoresCount`); the two pushes of a child stay together (`PushesPaired`); both lists implement `AbstractChannel`; the joins see only threads that exist and the end is idle (`OrderlyEnd`); `Completion` |
| `pipes` | 3 children, capacities 1 to 3, 2 kills, any forks failing | what a missing result does to the total (`MissingRepeatsLast`); who dies of a broken pipe (`BrokenOnlyByExit`); the parent sees the end of the file (`ParentEnds`) |
| `mqueue` | 2 runs of 2 children, queue of 1 message, 1 or 2 descriptors, any forks failing | no result of an earlier run is counted (`NoStaleResults`); none is in two places or counted twice, and one is lost only with its queue, after another run took the name and all who had the queue open are gone (`EachResultOnce`); a run by itself adds up its own (`AloneAddsUp`); only the first child can miss the queue (`OnlyFirstMisses`); `ParentEnds` |
| `useradd` | 2 instances, 2 users each, 3 pairs of lists, `int`s up to 2, 1 kill or lost line, with and without root and write permission | what four files written one after the other still guarantee (`FilesNested`); a line repeats a login or uid that could be found only when another instance wrote it after the check (`OnlyRacesRepeat`); a reported success is in `passwd`, and in all four files unless a write failed (`SuccessMeansComplete`); leaked locks make every later user fail, and nothing else leaks (`LeakIsFatal`); nobody waits (`EveryRunEnds`) |
| `useradd_race` | 2 instances, 1 user | violates `UniqueLogins`, see section 6 |
| `exchange` | 2 clients, 8 ways to start them (6 for MDHCP, 2 for date and time), 2 or 3 descriptors, 1 foreign packet, 1 failed `recvfrom` | an exchange is in one place and once missed it stays missed (`OnePlace`); whose answer a client can take (`AckMatchesRequest`); leaked descriptors make the server mute but not deaf (`MuteNotDeaf`); a client is served, refuses its arguments, or something was lost (`ServedOrMissed`).  The assumptions of the MC module check `PacketData`: every port survives option 105 (`PortsSurvive`), the lease time too (`LeaseSurvives`), the option loop finds just the options that start where another ends (`OptionsRight`, 3906 strings), the checksum is the complement of the ones'-complement sum (`CsumRight`, 1365 strings) |
| `read_users` | 3,346 files of up to 3 lines of 14 kinds, with and without the last line end, with the byte 255 | what the reader counts and holds at each point (`ReadInv`); main walks only filled nodes, each with the fields of one line, in order (`UsersAreRecords`); an accepted file lost no line that has its line end (`TerminatedLinesTaken`) |
| `read_users_last` | the same | violates `EveryLineCounts`, see section 6 |
| `game` | the script's own field and first places | score, object and player agree (`GameInv`); the screen shows just them (`ScreenTrue`) |
| `gather` | 4 tasks, a team of 3 | each result is added once and in place, and a printed total has all of them (`GatherInv`) |

Why these bounds are enough.  The barrier's danger needs one thread that runs
ahead, one that is asleep, one that opens the next phase and one that has yet
to call, and a third round brings the first semaphore back into use; beyond
that there are the proofs.  Three children make the lists grow, drain and be
used again.  A pipe with room for one result and one with room for all lie on
both sides of the deadlock, and a missing child can be before, between or after
others.  A second run and one descriptor are the least with which names and
limits matter, and bring about a queue that is destroyed with a result in it.  One fault reaches each inconsistent state of the four account
files, as more would only combine them; two instances contend for every lock; the
lists have a pair for each way in which two uids, or a uid and its text, differ.
Two clients are the least that can be confused; with two descriptors the
server answers once and then reaches its limit, with three it answers both.  The
reader keeps nothing of a line but its record and a count, so three lines show a
line that follows, and is followed by, any other kind.  The game is checked at
its real size.  In `gather` a team smaller than the number of tasks makes a
thread come back for more.

Deadlock checking is off in all runs because the programs end, or may wait for
ever where the liveness properties say so.  No symmetry is used, since most
runs check liveness.

## 4. Fairness

All specifications ask only for weak fairness of each thread, process or
instance as a whole: the kernel runs whatever can run.  None is asked of a
particular action, of the mutexes or of the semaphores, and none of faults.  It
suffices, without strong fairness of locks, because each thread passes each lock a
bounded number of times, so that a competitor cannot take it for ever.  In
`PacketExchange` a frame under way is eventually delivered or lost; which, is open.

Liveness holds under exceptions that are part of the statement and not of the
assumption: a failed `pthread_create` (barrier, stack and queue), a failed
fork, a missed queue or a second run (message queue), a full pipe
(`pipe_example`), a lost frame or refused arguments (MDHCP, date and time).  In each of these the code really waits for ever.

## 5. Proofs

Every safety property that a passing run checks is also a theorem of TLAPS, and
so is every refinement: for all values of the constants, under the assumptions
that the modules name.  A run checks the inductive invariant on its small
instance (`IInv`, `ReadInv`, `GameInv`, `GatherInv`, each of which contains the
type invariant), the proof shows it of all of them.

| Module | For every | Theorems |
|---|---|---|
| `SyncBarrierProofs` | number of threads and rounds from one on | `BarrierInvariant`, `BarrierTypes`, `BarrierSafe` (`NoEarlyLeave`), `ShortHanded` (`ShortHandedStaysShut`), `BarrierShutdown` (`CleanShutdown`), `BarrierRefinement` (`ImplementsBarrier`) |
| `StackQueueProofs` | number of children from one on | `StackQueueInvariant`, `SemaphoresCountElements` (`SemaphoresCount`), `PushesArePaired` (`PushesPaired`), `EndIsOrderly` (`OrderlyEnd`), `StackRefines` (`ImplementsStack`), `QueueRefines` (`ImplementsQueue`) |
| `PipesProofs` | number of children, capacities from one result on, number of kills | `PipesInvariant`, `RepeatsAreLast` (`MissingRepeatsLast`), `BrokenPipesMeanExit` (`BrokenOnlyByExit`) |
| `MessageQueueProofs` | number of runs, children, messages in a queue, limits on descriptors | `MessageQueueInvariant`, `StaleNeverCounted` (`NoStaleResults`), `ResultsAreOnce` (`EachResultOnce`), `AloneCountsAll` (`AloneAddsUp`), `OnlyFirstIsEarly` (`OnlyFirstMisses`) |
| `UserAddProofs` | number of instances, lists of users, size of an `int`, number of kills and lost lines | `UserAddInvariant`, `FilesAreNested` (`FilesNested`), `RepeatsComeFromRaces` (`OnlyRacesRepeat`), `SuccessIsComplete` (`SuccessMeansComplete`), `LeakedLocksAreFatal` (`LeakIsFatal`) |
| `ReadUsersProofs` | source file | `ReaderInvariant`, `ListHoldsRecords` (`UsersAreRecords`), `NoLineLost` (`TerminatedLinesTaken`) |
| `PacketProofs` | set of clients, hosts, ports, claimed addresses, descriptors, amount of noise and errors | `PacketInvariant`, `ExchangeInOnePlace` (`OnePlace`), `AnswersMatch` (`AckMatchesRequest`), `ServerNotDeaf` (`MuteNotDeaf`); of the pure functions `PortSurvives`, `CsumIsComplement`, `ReceiverGetsAllOnes` |
| `GatherGameProofs` | number of tasks and team; size of the field and first places inside its walls | `GatherInvariant`; `GameInvariant`, `ScreenIsTrue` |

The assumptions are those of the modules: that the numbers of threads, children and
tasks, the sizes of pipes and queues and the server's descriptors are positive,
the message queue program's limits and the bounds of the models natural numbers; that the instances' lists are lists of users (`SourcesAssumption`, which
is what `ReadUsers` yields) and root has an account to begin with
(`LoginsAssumption`); that two fields of a source file never touch
(`FilesAssumption`, which only says what a field is); and that names such as the
server's or the earlier run's are not those of clients or runs.  The bounds
`MaxFaults`, `MaxKills`, `MaxNoise` and `MaxErrors` are any numbers, so that the
theorems hold without a bound.

**The barrier.** `NoEarlyLeave` is not inductive: it says nothing of tokens.
`IInv` adds who holds the mutex (`MutexInv`), the bounds of the loops
(`RoundsInv`), that a failed thread never runs (`FailedInv`); `TokensInv`: while
nobody is posting, the current semaphore is empty and has `countReady` waiters,
and the other has exactly as many tokens as waiters; during the post loop, tokens
posted and tokens to come together equal the waiters of the current semaphore,
and the other one is empty and has none; and `PhaseInv`: the number of phases a
thread has completed, counting one whose wake-up is under way, is the same for
all.  When the last thread arrives, N - 1 threads wait on the current semaphore,
so nobody can still be waiting on the other one: its tokens are used up, and it
is free to serve the next phase.  That is why two semaphores are enough.
`Control`, the conjuncts that need no counting, is proved preserved first; then a
lemma for each action shows that it preserves the counts and either leaves all
the `Completed` values alone or raises every one of them by one.
`NoEarlyLeave` follows, because a thread's returned calls are at most its
completed phases, these are the same for all, and no thread has completed more
than it has arrived at.  For `CleanShutdown` the counts are applied to a state
in which no thread is in `Wait`, with `JoinInv` for the join loop.

**Stack and queue.** `StackInv` and `QueueInv` say that some sequence of children
is what the pointers spell (`Linked`), that it has no element twice, shares none
with what the parent popped, and has just the children that have pushed.
`CountsInv` ties `depth` and `length` to the semaphores and to who is between
counting and posting; that at most one child is there is `LocksInv`.  The
sequences `StackItems` and `QueueItems`, which the refinements map to the
abstract channel, are shown to be the `Linked` one; the queue's pointer `last`,
stale after the list was drained, is only used when the list is not empty.

**Pipes.** `ResultsInv` says that for some n the first n values added are results
that were read, each once, and that all later ones repeat the last of them, which
is possible only when the pipe is empty and nobody can write any more.

**Message queue.** `PlacesInv` says that a result is nowhere before it is sent, and
after that in one place, which is the queue its child sent it to or a sum, or
gone with that queue; `Queued` and `Counted` are sets of places, so that a result
that is in two queues, or twice in one, makes two.  It rests on `QueuesInv`: who
waits at a queue or sends to it has it open, a queue nobody uses is empty, and a
child's queue has lost its name only to another run, so that a lost result means
that one interfered.  `StaleInv` has the argument
about earlier runs: the old queue is the first one, and once a run has unlinked
the name nobody opens it.  `AloneAddsUp` follows by counting: as many values as
children, no two the same.

**Adding users.** `LocksInv` says which locks an instance holds at each place,
and that a leaked lock is one on `passwd` that keeps its run from ever getting
past the first `flock` again.  `FlushInv` says in which files an instance's line
is, and that it is the last line of the file just written.  As every writer
holds passwd's lock, the next file can be extended only by the line that ended
the one before: this keeps `FilesNested`, whose witness is the embedding of one
file into the other (`PartOf`).  For `OnlyRacesRepeat`, `SeenInv` and
`CheckedInv` follow a user from its check to its line: what repeats it in
between was written after the check, and not by the same instance, which was
busy with this user since.  A kill forgets the check together with the line.
`HomesInv` says that a home is made only for a login in `passwd`.

**Reading users.** `ReadInv` ties the character last read to the position, the
line counter to the line ends passed and the records taken, and every node to a
place in the file that holds its fields; `LoopEnd` says how the three ways out of
the loop leave it.

**Packets.** `OnePlace` counts seven places with `Cardinality`, and is proved as
the statement that exactly one of seven conditions holds (`PlaceOf`,
`CountPlaces`).  What it needs beside: no socket has a frame of an unfinished
exchange twice, and a client that has processed its answer has taken it
(`OnceInv`), so that a frame that is read or discarded is gone.  `AnswerInv`
says that an answer is about a client that was answered; `Kinds` and
`PortSurvives` then make the answer's address and port those of that client's
request, which is `AckMatchesRequest`.  `LeakInv` keeps one descriptor for the
packet socket: the reply that would take the last one fails.  `PortSurvives`
follows the option loop over the client's two options; `CsumIsComplement` and
`ReceiverGetsAllOnes` are about every sum of words below 2^32.

**Game and gather programs.** `GameInv` is inductive.  It needs
`CarriesAfterTurn`: before his first turn the player faces his own cell, and
could drop what he carried on himself.  The argument about the corner, where the
carried object is put, is `Neighbours`: nobody inside the walls is next to it.
`ScreenTrue` then follows cell by cell, since each key draws and blanks just the
cells that the player or the object leaves or enters.  That a printed total of
the gather programs is whole is not inductive by itself: for the thread program
it rests on `JoinedInOrder` (a task is counted exactly when main has come past
it, so the last join completes the sum), for the team on `OwnResults` (a thread
has a task nobody else has, and its private `G` that task's result).

Only model-checked are:

* the liveness properties of all runs (`Completion`, `ParentEnds`,
  `EveryRunEnds`, `ServedOrMissed`): they rest on fairness, which is out of the
  prover's reach;
* the option loop and the lease time for every string of bytes (`OptionsRight`,
  `LeaseSurvives`).  A recursive function can be unfolded in a proof once it is
  shown to exist (`OptionsExist`, by the least position at which it would not);
  that is done as far as `PortSurvives` needs it;
* that a datagram's words have a sum below 2^32: `WordSum` folds over a set, so
  this is a hypothesis of the two theorems about the checksum;
* the barrier with the bug, and the two other violations of section 6.

## 6. Where the code does not do what it says

* `barrier_bug`: `Sync` posts N tokens for N - 1 waiters, so a thread passes a
  phase that others have not come to, against its own message of line 52.
* `useradd_race`: `AddUser` looks for the login before it takes a lock and not
  again after it, so that two instances both add a login that line 398 refuses.
* `read_users_last`: `ReadFile` reads and stores a last line that has no line
  end and then leaves it out of N (line 349): the user of a line of the format
  that line 66 documents is silently not created.

Not a run, but met on the way: line 41 of `RawSocket_DateTime/client.c`,
`u_int16_t udp_length;4`, is a syntax error, so that this client does not
compile as it was committed.  The model takes the line as the other three files
have it, without the 4.

## 7. What is not modelled

* The hello programs: their threads print and share nothing.  The password
  generator: random draws and output, no state.  The text transformer: what it
  computes is in `sed` and `tr`, over whole files.  The administration scripts:
  menus over system tools that have all the state.
* Sums and their overflow in the Monte-Carlo programs; the models keep which
  results went into a total, and no step depends on its value.
* The id N of a thread that writes `currentSemArray[N]`, one past the end of
  the array: the model has an element N.  With glibc on 64 bits the write falls
  into the slack of the allocated block for most N, but not for all: for
  N = 6, 10, 14, ... the block has none left, and the write goes over the size
  field of the next one.
* A uid with a sign.  "-1" is the one such text that `AddUser` finds again, as
  `getpwent` cuts it to the largest `uid_t` and the cast makes that -1; "+5"
  behaves as a padded 5.
* The group that owns a home, and a home that was there before.
* Two runs of a barrier program at once: they could share a named semaphore
  only between one's unlink and the other's open.
* Which client a real network would deliver to, routing and addresses beyond
  the tests the programs make.  The UDP checksum that `SendPacket` computes over
  addresses of which one may not be set: no receiver here looks at it.
* The address that MDHCP gives away: it is the same for every client, and the
  server's comment says so.
* Memory that is not freed, and what is printed, except for the game's screen.
* Builds in which `char` is unsigned, where `usgen`'s reader would never see
  the end of the file.

## 8. Plan

Done, in this order: the barrier with its proofs, the bug, stack and queue,
`usgen`'s core, MDHCP, message queue, pipes; then the reading of `usgen`, the
date and time programs together with MDHCP, the pure functions on packets, the
game and the gather programs with their proofs, and `main` of the barrier with
the bug; then the proofs of all the other safety properties and refinements.

Left are proofs of what no run states yet, in this order:

1. What the option loop returns for every string of bytes: `OptionsExist` and
   `OptionsFrom` are the beginning.
2. Action properties that follow from the invariants: what is in an account file
   stays there, a message queue's name is only ever given to a new queue.
3. The bound on `WordSum` from the length of the datagram, if the fold over a
   set can be unfolded like the option loop.
