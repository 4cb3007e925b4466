-------------------------- MODULE AbstractChannel --------------------------
(***************************************************************************)
(* What the parent of pthread_stack_queue.cpp expects of the two channels  *)
(* its children answer through: every child's result is put once, nothing  *)
(* is lost, duplicated or made up, and results come out last-in first-out  *)
(* (class Stack) or first-in first-out (class Queue).                      *)
(***************************************************************************)
EXTENDS Sequences, SequencesExt

CONSTANTS Senders,
          Lifo        \* TRUE: a stack, FALSE: a queue

VARIABLES items,      \* what is in the channel, oldest first
          got         \* what was taken out of it, in this order

vars == <<items, got>>

Init == items = <<>> /\ got = <<>>

Put(c) == /\ c \notin ToSet(items) \cup ToSet(got)
          /\ items' = Append(items, c)
          /\ UNCHANGED got

Get == /\ items # <<>>
       /\ IF Lifo
          THEN got' = Append(got, Last(items)) /\ items' = Front(items)
          ELSE got' = Append(got, Head(items)) /\ items' = Tail(items)

Next == Get \/ \E c \in Senders : Put(c)

Spec == Init /\ [][Next]_vars
=============================================================================
