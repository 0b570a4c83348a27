---------------------------- MODULE HandOffLock -----------------------------
(***************************************************************************)
(* What a mutex promises: one holder at a time; a thread that finds the    *)
(* lock held may wait; a release gives the lock directly to a waiter and   *)
(* leaves it free only when nobody waits, so that no thread ever waits for *)
(* a free lock and no newcomer takes it past the waiters.                  *)
(***************************************************************************)
EXTENDS Integers

CONSTANT Thread

VARIABLES holder, waiting

Nobody == -1

Init == holder = Nobody /\ waiting = {}

Take(c) ==
    /\ holder = Nobody /\ waiting = {}
    /\ holder' = c
    /\ UNCHANGED waiting

Wait(c) ==
    /\ holder \notin {Nobody, c}
    /\ waiting' = waiting \cup {c}
    /\ UNCHANGED holder

\* Time-outs.
GiveUp ==
    /\ waiting' \in SUBSET waiting
    /\ UNCHANGED holder

Release ==
    /\ holder # Nobody
    /\ \/ waiting = {} /\ holder' = Nobody /\ UNCHANGED waiting
       \/ \E n \in waiting : holder' = n /\ waiting' = waiting \ {n}

Next == (\E c \in Thread : Take(c) \/ Wait(c)) \/ GiveUp \/ Release

Spec == Init /\ [][Next]_<<holder, waiting>>
=============================================================================
