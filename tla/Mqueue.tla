------------------------------- MODULE Mqueue --------------------------------
(***************************************************************************)
(* A message queue (mqueue.c) over the scheduler's table, used by a fixed  *)
(* set of threads: senders and receivers.                                  *)
(*                                                                         *)
(* A slot of the message table is taken and given back in privileged calls *)
(* (priv_send, priv_receive), by its size; it is filled and copied outside *)
(* of them, and so are the running age and the search for a thread to      *)
(* wake.  Senders that wait for a slot and receivers that wait for a       *)
(* message block on the same object.                                       *)
(***************************************************************************)
EXTENDS SchedTable, Sequences, FiniteSets, FiniteSetsExt, SequencesExt

CONSTANTS
    Senders,       \* threads that send; the others receive
    Slots,         \* mq->max_msgs
    NonBlocking,   \* threads that have opened the queue with O_NONBLOCK
    BasePriority,  \* the priorities of the threads
    Policies,      \* "fifo": threads run until they block; "rr": they share
    MsgPrio,       \* priorities of messages
    Lengths,       \* lengths of messages and of receivers' buffers
    TimeoutKinds,  \* times clients pass to the timed calls
    MaxSends,      \* bound: calls of mq_send() in a behaviour
    MaxTimed       \* bound: calls with a time-out in a behaviour

ASSUME MqueueAssumption ==
    /\ Senders \subseteq Task /\ NonBlocking \subseteq Task
    /\ Slots \in Nat \ {0}
    /\ BasePriority \in [Task -> Priority]
    /\ Policies \subseteq {"fifo", "rr"}
    /\ MsgPrio \subseteq Nat /\ Lengths \subseteq Nat
    /\ TimeoutKinds \subseteq TimeKind \ {"never"}
    /\ MaxSends \in Nat /\ MaxTimed \in Nat

VARIABLES
    k,       \* the task table
    pc,      \* where each thread is between its steps
    loc,     \* the locals of the call each thread is in
    msg,     \* mq->msg_table
    cur,     \* mq->cur_msgs
    age,     \* mq->age
    spoilt,  \* history: overlapping calls that the properties except
    sends, timed \* counters for the bounds

mqvars == <<msg, cur, age>>
vars == <<k, pc, loc, msg, cur, age, spoilt, sends, timed>>

PC == {"run", "again", "fill", "age", "copy", "block", "woken", "check", "wake"}

MqObj == <<"mq", 1>>

NoCall == [slot |-> 0, id |-> 0, prio |-> 0, len |-> 0,
           time |-> "never", reg |-> 0]

At(c, l)   == k.current = c /\ pc[c] = l
Goto(c, l) == pc' = [pc EXCEPT ![c] = l]
Done(c)    == Goto(c, "run") /\ loc' = [loc EXCEPT ![c] = NoCall]

\* mq_open() with O_CREAT: the table is allocated with calloc().
Init ==
    /\ LET top == Max({BasePriority[t] : t \in Task})
       IN  \E policy \in Policies :
           k = [used |-> Task, exec |-> {t \in Task : BasePriority[t] = top},
                fifo |-> IF policy = "fifo" THEN Task ELSE {},
                inuse |-> Task, active |-> Task, stopped |-> {},
                timed |-> {}, prio |-> BasePriority, base |-> BasePriority,
                block |-> [t \in Task |-> NULL],
                unblock |-> [t \in Task |-> "NONE"],
                cur |-> top, current |-> 0, pend |-> FALSE]
    /\ pc = [t \in Task |-> "run"]
    /\ loc = [t \in Task |-> NoCall]
    /\ msg = [s \in 1 .. Slots |-> [size |-> 0, id |-> 0, prio |-> 0, age |-> 0]]
    /\ cur = 0 /\ age = 0
    /\ spoilt = {} /\ sends = 0 /\ timed = 0

-----------------------------------------------------------------------------
\* The environment.

\* The tick ends a round-robin slice; it also stands for the scheduler's loop.
SysTick ==
    /\ k.current \notin k.fifo
    /\ k' \in Return(SwitchContext(k))
    /\ UNCHANGED <<pc, loc, msg, cur, age, spoilt, sends, timed>>

TimerMatch ==
    /\ \E S \in SUBSET Sleepers(k) : S # {} /\ k' \in Return(MatchEvent(k, S))
    /\ UNCHANGED <<pc, loc, msg, cur, age, spoilt, sends, timed>>

\* sched_yield()
Yield(c) ==
    /\ At(c, "run")
    /\ k' \in Return(SwitchContext(k))
    /\ UNCHANGED <<pc, loc, msg, cur, age, spoilt, sends, timed>>

-----------------------------------------------------------------------------
\* mq_timedsend()

Times(c) ==
    {"never"} \cup (IF timed < MaxTimed /\ c \notin NonBlocking THEN TimeoutKinds ELSE {})

Enter(c, l, call) == Goto(c, l) /\ loc' = [loc EXCEPT ![c] = call]

FreeSlots == {s \in 1 .. Slots : msg[s].size = 0}

\* A slot some thread other than c is still filling, or still copying from.
Filling(s, c) == \E t \in Task \ {c} : pc[t] \in {"fill", "age"} /\ loc[t].slot = s
Copying(s, c) == \E t \in Task \ {c} : pc[t] = "copy" /\ loc[t].slot = s

Spoil(x, happens) == IF happens THEN {x} ELSE {}

\* Where a call goes on that has found no slot or no message.
GetsNothing(c, call) == IF c \in NonBlocking THEN Done(c) ELSE Enter(c, "block", call)

HasRoom == cur < Slots /\ FreeSlots # {}

\* Thread t's call would find what it waits for.
Able(t) == IF t \in Senders THEN cur < Slots ELSE cur # 0

\* priv_send(): the slot is taken by its size.  With a length of zero it is
\* counted and stays free, and the caller takes the result for "no room".
Reserve(c, call) ==
    LET s == Min(FreeSlots)
    IN  /\ IF HasRoom
           THEN /\ msg' = [msg EXCEPT ![s].size = call.len]
                /\ cur' = cur + 1
                /\ spoilt' = spoilt \cup Spoil("overwritten", Copying(s, c) \/ Filling(s, c))
                                    \cup Spoil("empty", call.len = 0)
                /\ IF call.len > 0 THEN Enter(c, "fill", [call EXCEPT !.slot = s])
                                   ELSE GetsNothing(c, call)
           ELSE GetsNothing(c, call) /\ UNCHANGED <<msg, cur, spoilt>>
        /\ UNCHANGED <<k, age>>

Send(c) ==
    /\ At(c, "run") /\ c \in Senders /\ sends < MaxSends
    /\ \E p \in MsgPrio, n \in Lengths, time \in Times(c) :
          /\ Reserve(c, [NoCall EXCEPT !.id = sends + 1, !.prio = p, !.len = n, !.time = time])
          /\ timed' = IF time = "never" THEN timed ELSE timed + 1
    /\ sends' = sends + 1

SendAgain(c) ==
    /\ At(c, "again") /\ c \in Senders
    /\ Reserve(c, loc[c])
    /\ UNCHANGED <<sends, timed>>

\* The copy of the message, its priority, and the first half of mq->age++ ...
Fill(c) ==
    /\ At(c, "fill")
    /\ msg' = [msg EXCEPT ![loc[c].slot].id = loc[c].id, ![loc[c].slot].prio = loc[c].prio]
    /\ loc' = [loc EXCEPT ![c].reg = age]
    /\ Goto(c, "age")
    /\ spoilt' = spoilt \cup Spoil("torn", Copying(loc[c].slot, c))
    /\ UNCHANGED <<k, cur, age, sends, timed>>

\* Mutant: the running age stays as it is.
NextAge_Same(x) == x
NextAge(x) == x + 1

\* ... and the second.
FillAge(c) ==
    /\ At(c, "age")
    /\ msg' = [msg EXCEPT ![loc[c].slot].age = loc[c].reg]
    /\ age' = NextAge(loc[c].reg)
    /\ Goto(c, "check")
    /\ spoilt' = spoilt \cup Spoil("age", age # loc[c].reg)
    /\ UNCHANGED <<k, loc, cur, sends, timed>>

-----------------------------------------------------------------------------
\* mq_timedreceive()

FullSlots == {s \in 1 .. Slots : msg[s].size # 0}

\* The oldest of the messages of the largest priority, the first of the table
\* among equals.
Oldest(S) ==
    CHOOSE s \in S : \A r \in S :
        \/ msg[s].prio > msg[r].prio
        \/ msg[s].prio = msg[r].prio /\ msg[s].age < msg[r].age
        \/ msg[s].prio = msg[r].prio /\ msg[s].age = msg[r].age /\ s <= r

\* Mutant: a message that was taken is not marked as received.
Emptied_Not(s) == msg
Emptied(s) == [msg EXCEPT ![s].size = 0]

\* priv_receive(): too small a buffer, and messages that are counted and not
\* there, end the call with an error, and nobody is looked for.
TakeMessage(c, call) ==
    LET s == Oldest(FullSlots)
        error == FullSlots = {} \/ call.len < msg[s].size
    IN  /\ IF cur = 0 THEN GetsNothing(c, call) /\ UNCHANGED <<msg, cur, spoilt>>
           ELSE IF error THEN /\ Done(c)
                              /\ spoilt' = spoilt \cup Spoil("short", At(c, "again"))
                              /\ UNCHANGED <<msg, cur>>
           ELSE /\ msg' = Emptied(s)
                /\ cur' = cur - 1
                /\ spoilt' = spoilt \cup Spoil("torn", \E r \in FullSlots : Filling(r, c))
                /\ Enter(c, "copy", [call EXCEPT !.slot = s])
        /\ UNCHANGED <<k, age, sends>>

Receive(c) ==
    /\ At(c, "run") /\ c \notin Senders
    /\ \E n \in Lengths, time \in Times(c) :
          /\ TakeMessage(c, [NoCall EXCEPT !.len = n, !.time = time])
          /\ timed' = IF time = "never" THEN timed ELSE timed + 1

ReceiveAgain(c) ==
    /\ At(c, "again") /\ c \notin Senders
    /\ TakeMessage(c, loc[c])
    /\ UNCHANGED timed

\* The priority and the message are copied when the slot is free again.
CopyMessage(c) ==
    /\ At(c, "copy")
    /\ Goto(c, "check")
    /\ UNCHANGED <<k, loc, msg, cur, age, spoilt, sends, timed>>

-----------------------------------------------------------------------------
\* Blocking and waking.

\* block_on_mq(): what the call waits for may have come since it looked.
Block(c) ==
    /\ At(c, "block")
    /\ k' \in Return(TimedBlock(k, MqObj, loc[c].time))
    /\ Goto(c, "woken")
    /\ spoilt' = spoilt \cup Spoil("late", Able(c))
    /\ UNCHANGED <<loc, msg, cur, age, sends, timed>>

\* After a time-out the call ends like one that has succeeded; otherwise it
\* tries again.
Woken(c) ==
    /\ At(c, "woken")
    /\ Goto(c, IF k.unblock[c] = "SLEEP" THEN "check" ELSE "again")
    /\ UNCHANGED <<k, loc, msg, cur, age, spoilt, sends, timed>>

\* Mutant: nobody is looked for.
NewThread_None == -1
NewThread == HighestPriorityBlocked(k, MqObj)

\* check_for_blocked_task(): the search ...
Check(c) ==
    LET wrong == NewThread # -1 /\ ~Able(NewThread) /\ \E t \in BlockedOn(k, MqObj) : Able(t)
    IN  /\ At(c, "check")
        /\ IF NewThread = -1 THEN Done(c)
                             ELSE Enter(c, "wake", [NoCall EXCEPT !.reg = NewThread])
        /\ spoilt' = spoilt \cup Spoil("wrong", wrong)
        /\ UNCHANGED <<k, msg, cur, age, sends, timed>>

\* ... and priv_wake_blocked().
Wake(c) ==
    LET n == loc[c].reg
    IN  /\ At(c, "wake")
        /\ k' \in Return(UpdateOnWake(AssertActive(k, {n}, "MQ"), k.prio[n]))
        /\ Done(c)
        /\ UNCHANGED <<msg, cur, age, spoilt, sends, timed>>

-----------------------------------------------------------------------------
ThreadStep(c) ==
    \/ Yield(c) \/ Send(c) \/ SendAgain(c) \/ Fill(c) \/ FillAge(c)
    \/ Receive(c) \/ ReceiveAgain(c) \/ CopyMessage(c)
    \/ Block(c) \/ Woken(c) \/ Check(c) \/ Wake(c)

Next == SysTick \/ TimerMatch \/ \E c \in Task : ThreadStep(c)

Spec == Init /\ [][Next]_vars

-----------------------------------------------------------------------------
TypeOK ==
    /\ k \in Kernel
    /\ pc \in [Task -> PC]
    /\ \A t \in Task : loc[t].slot \in 0 .. Slots /\ loc[t].reg \in 0 .. Max({MaxSends, TaskTotal - 1})
    /\ \A s \in 1 .. Slots : msg[s].size \in Lengths \cup {0} /\ msg[s].id \in 0 .. MaxSends
    /\ cur \in 0 .. Slots /\ age \in 0 .. MaxSends
    /\ spoilt \subseteq {"torn", "overwritten", "age", "empty", "late", "wrong", "short"}

\* Unless a message of length zero was sent, cur_msgs is the number of messages
\* in the table, although calls overlap: priv_receive() never comes to what
\* "should never happen".
CountMatches == "empty" \notin spoilt => cur = Cardinality(FullSlots)

\* Until calls overlap in the slot they work on, the queue is a priority queue:
\* every message that was sent is delivered once, unchanged and in order.
Complete == {s \in FullSlots : ~ \E t \in Task : pc[t] \in {"fill", "age"} /\ loc[t].slot = s}
Contents(s) == [id |-> msg[s].id, prio |-> msg[s].prio]
\* The slots of S whose messages come before that of s, and s itself; the i-th
\* slot of S.
UpTo(S, a, s) == {r \in S : a[r] < a[s] \/ (a[r] = a[s] /\ r <= s)}
Nth(S, a, i)  == CHOOSE s \in S : Cardinality(UpTo(S, a, s)) = i
Ages  == [s \in 1 .. Slots |-> msg[s].age]
Queue == [i \in 1 .. Cardinality(Complete) |-> Contents(Nth(Complete, Ages, i))]
Held  == [t \in Task |-> IF pc[t] = "copy" THEN <<Contents(loc[t].slot)>> ELSE <<>>]
Q == INSTANCE PrioQueue WITH
        Client <- Task,
        Message <- [id : 1 .. MaxSends, prio : MsgPrio],
        Capacity <- Slots,
        queue <- Queue,
        held <- Held
Undisturbed == spoilt \cap {"torn", "overwritten", "age"} = {}
QueueStep   == Undisturbed' => UNCHANGED Q!vars \/ Q!Next
IsPrioQueue == Q!Init /\ [][QueueStep]_vars

\* Threads that will look at the queue again, or for a thread to wake, without
\* anybody's help.
WillLook == {t \in Task : pc[t] # "run" /\ (pc[t] = "woken" => t \in k.active)}

\* No wake-up is lost: when a sender sleeps although there is room, or a
\* receiver although there is a message, another thread is about to find out -
\* unless a thread has blocked for something that had come since it looked, or
\* check_for_blocked_task() has picked a thread that cannot go on when another
\* could, or a receiver that was woken has given up with EMSGSIZE.
Mishaps == {"late", "wrong", "short", "empty"}
NoForgotten ==
    spoilt \cap Mishaps = {} /\ WillLook = {} =>
        \A t \in BlockedOn(k, MqObj) : ~Able(t)
=============================================================================
