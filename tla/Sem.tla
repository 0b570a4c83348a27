-------------------------------- MODULE Sem ---------------------------------
(***************************************************************************)
(* A semaphore (sem.c) over the scheduler's table, used by a fixed set of  *)
(* threads of one process.                                                 *)
(*                                                                         *)
(* A wait takes its unit from the value at once, in a privileged call, and *)
(* sleeps when there was none: a negative value counts the units that are  *)
(* owed.  A post, and a wait that has timed out, give a unit back outside  *)
(* the kernel: sem->value++ is a load and a store, and the thread to wake  *)
(* is looked up before the privileged call that wakes it.                  *)
(***************************************************************************)
EXTENDS SchedTable, FiniteSets

CONSTANTS
    Posters,       \* threads that post; the others wait
    InitialValue,  \* the value sem_init() or sem_open() gives
    BasePriority,  \* the priorities the threads are created with
    TimeoutKinds,  \* times clients pass to sem_timedwait()
    MaxPosts,      \* bound: posts in a behaviour
    MaxTimed,      \* bound: calls of sem_timedwait() in a behaviour
    MaxSignals     \* bound: signals sent in a behaviour

ASSUME SemAssumption ==
    /\ Posters \subseteq Task
    /\ InitialValue \in Nat
    /\ BasePriority \in [Task -> Priority]
    /\ TimeoutKinds \subseteq TimeKind \ {"never"}
    /\ MaxPosts \in Nat /\ MaxTimed \in Nat /\ MaxSignals \in Nat

VARIABLES
    k,         \* the task table
    pc,        \* where each thread is between its steps
    reg,       \* the value a thread has loaded, or the thread it will wake
    value,     \* sem->value
    posts,     \* history: posts that have stored their unit
    acquired,  \* history: waits that have returned zero
    spoilt,    \* history: the mishaps that the properties except
    timed,     \* counter for the bound
    sent       \* counter for the bound

vars == <<k, pc, reg, value, posts, acquired, spoilt, timed, sent>>

\* torn:   sem->value++ has overwritten a change made since its load;
\* twice:  two posts have found the same waiter;
\* late:   a wait has timed out after a post had found its thread;
\* extra:  a thread has begun to wait between a post's increment, whose unit was
\*         gone already, and its look for a waiter;
\* back:   a timed wait has given its unit back, and wakes none of those who wait;
\* signal: a signal was sent.
Mishap == {"torn", "twice", "late", "extra", "back", "signal"}

PC == {"run", "post", "scan", "wake", "waiting", "timedwait", "timedgot", "abort"}

SemObj == <<"sem", 1>>

At(c, l)   == k.current = c /\ pc[c] = l
Goto(c, l) == pc' = [pc EXCEPT ![c] = l]
Load(c, x) == reg' = [reg EXCEPT ![c] = x]

\* A post has stored its unit and has not looked for a waiter yet.
Unannounced == \E p \in Task : pc[p] = "scan"

\* A post has looked for a waiter, and found t.
Waking(t) == \E p \in Task : pc[p] = "wake" /\ reg[p] = t

Spoil(what, when) == spoilt' = IF when THEN spoilt \cup {what} ELSE spoilt

Init ==
    /\ LET top == CHOOSE p \in Priority :
                    /\ \E t \in Task : BasePriority[t] = p
                    /\ \A t \in Task : BasePriority[t] <= p
       IN  k = [used |-> Task, exec |-> {t \in Task : BasePriority[t] = top},
                fifo |-> {}, inuse |-> Task, active |-> Task, stopped |-> {},
                timed |-> {}, prio |-> BasePriority, base |-> BasePriority,
                block |-> [t \in Task |-> NULL],
                unblock |-> [t \in Task |-> "NONE"],
                cur |-> top, current |-> 0, pend |-> FALSE]
    /\ pc = [t \in Task |-> "run"]
    /\ reg = [t \in Task |-> 0]
    /\ value = InitialValue
    /\ posts = 0 /\ acquired = 0 /\ spoilt = {} /\ timed = 0 /\ sent = 0

-----------------------------------------------------------------------------
\* The environment; the tick also stands for the switch the scheduler's loop
\* makes.
SysTick ==
    /\ k' \in Return(SwitchContext(k))
    /\ UNCHANGED <<pc, reg, value, posts, acquired, spoilt, timed, sent>>

TimerMatch ==
    /\ \E S \in SUBSET Sleepers(k) : S # {} /\ k' \in Return(MatchEvent(k, S))
    /\ UNCHANGED <<pc, reg, value, posts, acquired, spoilt, timed, sent>>

Sleep(c) ==
    /\ At(c, "run")
    /\ k' \in Return(TimedBlock(k, NULL, "future"))
    /\ UNCHANGED <<pc, reg, value, posts, acquired, spoilt, timed, sent>>

Signal(c, t) ==
    /\ At(c, "run")
    /\ sent < MaxSignals
    /\ k' \in Return(SignalActivate(k, t))
    /\ sent' = sent + 1
    /\ Spoil("signal", TRUE)
    /\ UNCHANGED <<pc, reg, value, posts, acquired, timed>>

-----------------------------------------------------------------------------
\* sem_post(): sem->value++ ...
PostLoad(c) ==
    /\ At(c, "run")
    /\ c \in Posters /\ posts + Cardinality({p \in Task : pc[p] = "post"}) < MaxPosts
    /\ Load(c, value)
    /\ Goto(c, "post")
    /\ UNCHANGED <<k, value, posts, acquired, spoilt, timed, sent>>

PostStore(c) ==
    /\ At(c, "post")
    /\ value' = reg[c] + 1
    /\ posts' = posts + 1
    /\ Load(c, 0)
    /\ Goto(c, "scan")
    /\ Spoil("torn", value # reg[c])
    /\ UNCHANGED <<k, acquired, timed, sent>>

\* Mutant: the semaphore's waiters are overlooked.
NewThread_None == -1
NewThread == HighestPriorityBlocked(k, SemObj)

\* ... then sched_get_highest_priority_blocked(), still outside the kernel ...
PostScan(c) ==
    /\ At(c, "scan")
    /\ IF NewThread = -1
       THEN Goto(c, "run") /\ UNCHANGED reg
       ELSE Goto(c, "wake") /\ Load(c, NewThread)
    /\ Spoil("twice", NewThread # -1 /\ Waking(NewThread))
    /\ UNCHANGED <<k, value, posts, acquired, timed, sent>>

\* ... and priv_sem_post().
PostWake(c) ==
    /\ At(c, "wake")
    /\ LET n == reg[c]
       IN  k' \in Return(UpdateOnWake(AssertActive(k, {n}, "SEMAPHORE"), k.prio[n]))
    /\ Load(c, 0)
    /\ Goto(c, "run")
    /\ UNCHANGED <<value, posts, acquired, spoilt, timed, sent>>

-----------------------------------------------------------------------------
\* Mutant: a value of zero counts as available.
Available_Zero == value >= 0
Available == value > 0

\* sem_wait(): the block object is set whether or not the thread sleeps.
Wait(c) ==
    /\ At(c, "run")
    /\ c \notin Posters
    /\ value' = value - 1
    /\ LET k1 == [k EXCEPT !.block[c] = SemObj]
       IN  IF Available
           THEN k' = k1 /\ acquired' = acquired + 1 /\ UNCHANGED pc
           ELSE k' \in Return(UpdateOnSleep(k1)) /\ Goto(c, "waiting") /\ UNCHANGED acquired
    /\ Spoil("extra", ~Available /\ Unannounced)
    /\ UNCHANGED <<reg, posts, timed, sent>>

\* sem_wait() returns zero whatever has woken it.
WaitReturn(c) ==
    /\ At(c, "waiting")
    /\ acquired' = acquired + 1
    /\ Goto(c, "run")
    /\ UNCHANGED <<k, reg, value, posts, spoilt, timed, sent>>

\* sem_trywait(), when it can take a unit.
TryWait(c) ==
    /\ At(c, "run")
    /\ c \notin Posters
    /\ Available
    /\ value' = value - 1
    /\ acquired' = acquired + 1
    /\ UNCHANGED <<k, pc, reg, posts, spoilt, timed, sent>>

\* sem_timedwait(): priv_sem_timedwait() ...
TimedWait(c) ==
    /\ At(c, "run")
    /\ c \notin Posters
    /\ timed < MaxTimed
    /\ timed' = timed + 1
    /\ value' = value - 1
    /\ IF Available
       THEN UNCHANGED k /\ Goto(c, "timedgot")
       ELSE /\ \E kind \in TimeoutKinds : k' \in Return(TimedBlock(k, SemObj, kind))
            /\ Goto(c, "timedwait")
    /\ Spoil("extra", ~Available /\ Unannounced)
    /\ UNCHANGED <<reg, posts, acquired, sent>>

\* ... then, whether it has slept or not, a look at what woke the thread last:
\* after a time-out the unit is given back.
TimedReturn(c) ==
    /\ At(c, "timedwait") \/ At(c, "timedgot")
    /\ IF k.unblock[c] = "SLEEP"
       THEN Load(c, value) /\ Goto(c, "abort") /\ UNCHANGED acquired
       ELSE acquired' = acquired + 1 /\ Goto(c, "run") /\ UNCHANGED reg
    /\ Spoil("late", Waking(c))
    /\ UNCHANGED <<k, value, posts, timed, sent>>

TimedAbort(c) ==
    /\ At(c, "abort")
    /\ value' = reg[c] + 1
    /\ Load(c, 0)
    /\ Goto(c, "run")
    /\ spoilt' = spoilt \cup (IF value # reg[c] THEN {"torn"} ELSE {})
                        \cup (IF BlockedOn(k, SemObj) # {} THEN {"back"} ELSE {})
    /\ UNCHANGED <<k, posts, acquired, timed, sent>>

-----------------------------------------------------------------------------
ThreadStep(c) ==
    \/ PostLoad(c) \/ PostStore(c) \/ PostScan(c) \/ PostWake(c)
    \/ Wait(c) \/ WaitReturn(c) \/ TryWait(c)
    \/ TimedWait(c) \/ TimedReturn(c) \/ TimedAbort(c)
    \/ Sleep(c) \/ \E t \in Task : Signal(c, t)

Next == SysTick \/ TimerMatch \/ \E c \in Task : ThreadStep(c)

Spec == Init /\ [][Next]_vars

-----------------------------------------------------------------------------
TypeOK ==
    /\ k \in Kernel
    /\ pc \in [Task -> PC]
    /\ reg \in [Task -> Int]
    /\ value \in Int
    /\ posts \in 0 .. MaxPosts /\ timed \in 0 .. MaxTimed /\ sent \in 0 .. MaxSignals
    /\ acquired \in Nat /\ spoilt \subseteq Mishap

\* No unit is handed out twice: waits succeed no more often than units were
\* there in the beginning or have been posted since, timed waits that give their
\* unit back included (sem_post(), sem_wait(), sem_timedwait()).
NoDoubleGrant ==
    spoilt \subseteq {"back"} => acquired <= InitialValue + posts

\* A post between its store and the end of its privileged call.
Posting == {c \in Task : pc[c] \in {"scan", "wake"}}

\* No post is lost: apart from posts under way, no more threads are asleep than
\* units are owed (sem_post()).
NoLostPost ==
    LET owed == IF value < 0 THEN -value ELSE 0
    IN  spoilt = {} =>
            Cardinality(BlockedOn(k, SemObj)) <= owed + Cardinality(Posting)

=============================================================================
