------------------------------ MODULE PrioQueue ------------------------------
(***************************************************************************)
(* What a message queue promises: messages are delivered once, unchanged,  *)
(* those of a larger priority first and those of one priority in the order *)
(* in which they were sent.  A receiver takes a message and delivers it to *)
(* its caller in a second step.                                            *)
(***************************************************************************)
EXTENDS Integers, Sequences, SequencesExt

CONSTANTS
    Client,    \* the threads
    Message,   \* messages, records with a field prio
    Capacity   \* messages the queue can hold

VARIABLES
    queue,     \* the messages in the order in which they were sent
    held       \* the message each thread has taken and not yet delivered

vars == <<queue, held>>

Init == queue = <<>> /\ held = [c \in Client |-> <<>>]

Send(m) ==
    /\ Len(queue) < Capacity
    /\ queue' = Append(queue, m)
    /\ UNCHANGED held

\* The oldest message of the largest priority.
IsNext(i) ==
    \A j \in DOMAIN queue :
        \/ queue[i].prio > queue[j].prio
        \/ queue[i].prio = queue[j].prio /\ i <= j

Take(c) ==
    /\ held[c] = <<>>
    /\ \E i \in DOMAIN queue :
          /\ IsNext(i)
          /\ held' = [held EXCEPT ![c] = <<queue[i]>>]
          /\ queue' = RemoveAt(queue, i)

Deliver(c) ==
    /\ held[c] # <<>>
    /\ held' = [held EXCEPT ![c] = <<>>]
    /\ UNCHANGED queue

Next == (\E m \in Message : Send(m)) \/ \E c \in Client : Take(c) \/ Deliver(c)

Spec == Init /\ [][Next]_vars
=============================================================================
