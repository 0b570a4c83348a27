------------------------------- MODULE Mutex --------------------------------
(***************************************************************************)
(* Mutexes (pthread_mutex.c) and condition variables (pthread_cond.c) over *)
(* the scheduler's table, used by a fixed set of threads of one process.   *)
(*                                                                         *)
(* pthread_mutex_lock() and pthread_cond_wait() look at shared state       *)
(* outside the kernel and then make a privileged call; pc says where a     *)
(* thread is in between.  A client unlocks, or waits with, a mutex that it *)
(* believes it holds: one that a lock call of its own has returned zero    *)
(* for.                                                                    *)
(***************************************************************************)
EXTENDS SchedTable

CONSTANTS
    Mutexes,      \* the mutexes, as numbers
    Conds,        \* the condition variables, as numbers
    Ceiling,      \* mutex->prio_ceiling
    Recursive,    \* mutexes with PTHREAD_MUTEX_FLAGS_RECURSIVE
    MaxLocks,     \* PTHREAD_MAX_LOCKS
    BasePriority, \* the priorities the threads are created with
    TimeoutKinds, \* times clients pass to the timed forms
    MaxSignals,   \* bound: signals sent in a behaviour
    MaxWaits      \* bound: waits for a condition in a behaviour

ASSUME MutexAssumption ==
    /\ Mutexes \subseteq Nat /\ Conds \subseteq Nat
    /\ Ceiling \in [Mutexes -> Priority]
    /\ Recursive \subseteq Mutexes
    /\ MaxLocks \in Nat \ {0} /\ MaxSignals \in Nat /\ MaxWaits \in Nat
    /\ BasePriority \in [Task -> Priority]
    /\ TimeoutKinds \subseteq TimeKind \ {"never"}

VARIABLES
    k,      \* the task table
    pc,     \* where each thread is between its privileged calls
    arg,    \* the arguments of the call a thread is in
    owner,  \* mutex->pthread, -1 when the mutex is free
    lock,   \* mutex->lock, the lock count
    held,   \* history: the mutexes a thread believes it holds
    spoilt, \* history: the mishaps that the properties except
    sent, waits \* counters for the bounds

bounds == <<sent, waits>>
vars   == <<k, pc, arg, owner, lock, held, spoilt, bounds>>

\* signal: a signal was sent;
\* woken:  pthread_cond_signal() wakes a thread that has stopped waiting for the
\*         condition since it was looked up;
\* heir:   pthread_cond_wait() leaves the mutex to a thread that has stopped
\*         waiting for it since it was looked up, or to nobody although a
\*         thread has begun to wait.
Mishap == {"signal", "woken", "heir"}

MutexObj(m) == <<"mutex", m>>
CondObj(v)  == <<"cond", v>>

PC  == {"run", "trylock", "blocked", "unlock", "condwait", "waiting", "condsignal"}
How == {"lock", "try", "timed"}

Arg   == [m : Mutexes \cup {0}, v : Conds \cup {0}, how : How,
          new_thread : Task \cup {-1}]
NoArg == [m |-> 0, v |-> 0, how |-> "lock", new_thread |-> -1]

At(c, l)   == k.current = c /\ pc[c] = l
Goto(c, l) == pc' = [pc EXCEPT ![c] = l]
With(c, a) == arg' = [arg EXCEPT ![c] = a]

\* Back in the client, with no call under way.
Back(c) == Goto(c, "run") /\ With(c, NoArg)

Init ==
    /\ LET top == CHOOSE p \in Priority :
                    /\ \E t \in Task : BasePriority[t] = p
                    /\ \A t \in Task : BasePriority[t] <= p
       IN  k = [used |-> Task, exec |-> {t \in Task : BasePriority[t] = top},
                fifo |-> {}, inuse |-> Task, active |-> Task, stopped |-> {},
                timed |-> {}, prio |-> BasePriority, base |-> BasePriority,
                block |-> [t \in Task |-> NULL],
                unblock |-> [t \in Task |-> "NONE"],
                cur |-> top, current |-> 0, pend |-> FALSE]
    /\ pc = [t \in Task |-> "run"]
    /\ arg = [t \in Task |-> NoArg]
    /\ owner = [m \in Mutexes |-> -1]
    /\ lock = [m \in Mutexes |-> 0]
    /\ held = [t \in Task |-> {}]
    /\ spoilt = {} /\ sent = 0 /\ waits = 0

-----------------------------------------------------------------------------
\* The environment: the tick, which also stands for the switch the scheduler's
\* loop makes, the timer, and threads that sleep or send signals.
SysTick ==
    /\ k' \in Return(SwitchContext(k))
    /\ UNCHANGED <<pc, arg, owner, lock, held, spoilt, bounds>>

TimerMatch ==
    /\ \E S \in SUBSET Sleepers(k) : S # {} /\ k' \in Return(MatchEvent(k, S))
    /\ UNCHANGED <<pc, arg, owner, lock, held, spoilt, bounds>>

Sleep(c) ==
    /\ At(c, "run")
    /\ k' \in Return(TimedBlock(k, NULL, "future"))
    /\ UNCHANGED <<pc, arg, owner, lock, held, spoilt, bounds>>

Signal(c, t) ==
    /\ At(c, "run")
    /\ sent < MaxSignals
    /\ k' \in Return(SignalActivate(k, t))
    /\ sent' = sent + 1
    /\ spoilt' = spoilt \cup {"signal"}
    /\ UNCHANGED <<pc, arg, owner, lock, held, waits>>

-----------------------------------------------------------------------------
\* pthread_mutex_lock(), pthread_mutex_trylock(), pthread_mutex_timedlock()

\* The caller does not own the mutex.
LockCall(c, m, how) ==
    /\ At(c, "run")
    /\ owner[m] # c
    /\ With(c, [NoArg EXCEPT !.m = m, !.how = how])
    /\ Goto(c, "trylock")
    /\ UNCHANGED <<k, owner, lock, held, spoilt, bounds>>

\* Mutant: one lock more than the maximum is counted.
LockAgain_OverLimit(c, m) ==
    /\ At(c, "run")
    /\ owner[m] = c
    /\ m \in Recursive /\ lock[m] <= MaxLocks
    /\ lock' = [lock EXCEPT ![m] = @ + 1]
    /\ UNCHANGED <<k, pc, arg, owner, held, spoilt, bounds>>

\* It does; only a recursive mutex can be locked once more.
LockAgain(c, m) ==
    /\ At(c, "run")
    /\ owner[m] = c
    /\ m \in Recursive /\ lock[m] < MaxLocks
    /\ lock' = [lock EXCEPT ![m] = @ + 1]
    /\ UNCHANGED <<k, pc, arg, owner, held, spoilt, bounds>>

\* Mutant: the priority is not raised.
Elevated_Not(c, m) == k
\* priv_mutex_trylock() on a free mutex: the caller's priority rises to the
\* ceiling; sched_current_priority stays as it is.
Elevated(c, m) ==
    IF Ceiling[m] > k.prio[c] THEN [k EXCEPT !.prio[c] = Ceiling[m]] ELSE k

TryLockFree(c) ==
    LET m == arg[c].m
    IN  /\ At(c, "trylock")
        /\ owner[m] = -1
        /\ owner' = [owner EXCEPT ![m] = c]
        /\ lock' = [lock EXCEPT ![m] = 1]
        /\ k' = Elevated(c, m)
        /\ held' = [held EXCEPT ![c] = @ \cup {m}]
        /\ Back(c)
        /\ UNCHANGED <<spoilt, bounds>>

TryLockBusy(c) ==
    LET m == arg[c].m
    IN  /\ At(c, "trylock")
        /\ owner[m] # -1
        /\ arg[c].how = "try"
        /\ Back(c)
        /\ UNCHANGED <<k, owner, lock, held, spoilt, bounds>>

Timeouts(how) == IF how = "timed" THEN TimeoutKinds ELSE {"never"}

\* priv_mutex_trylock() on a mutex that is not free.
TryLockBlock(c) ==
    LET m == arg[c].m
    IN  /\ At(c, "trylock")
        /\ owner[m] # -1
        /\ arg[c].how # "try"
        /\ \E kind \in Timeouts(arg[c].how) :
              k' \in Return(TimedBlock(k, MutexObj(m), kind))
        /\ Goto(c, "blocked")
        /\ UNCHANGED <<arg, owner, lock, held, spoilt, bounds>>

\* What the lock calls return after they were blocked.  pthread_mutex_lock()
\* does not look; pthread_mutex_timedlock() returns zero to the owner.
\* Mutant: pthread_mutex_timedlock() does not look either.
GotLock_NoCheck(c) == TRUE
\* Mutant: it reports a time-out even to the new owner.
GotLock_Never(c) == arg[c].how = "lock"
GotLock(c) == arg[c].how = "lock" \/ owner[arg[c].m] = c

LockWoken(c) ==
    /\ At(c, "blocked")
    /\ held' = IF GotLock(c) THEN [held EXCEPT ![c] = @ \cup {arg[c].m}] ELSE held
    /\ Back(c)
    /\ UNCHANGED <<k, owner, lock, spoilt, bounds>>

-----------------------------------------------------------------------------
\* pthread_mutex_unlock()

\* A recursive lock is counted down; at zero the privileged call follows.
UnlockCall(c, m) ==
    LET n == IF m \in Recursive THEN lock[m] - 1 ELSE lock[m]
    IN  /\ At(c, "run")
        /\ m \in held[c] /\ owner[m] = c
        /\ lock' = [lock EXCEPT ![m] = n]
        /\ IF m \in Recursive /\ n # 0
           THEN UNCHANGED <<pc, arg, held>>
           ELSE /\ Goto(c, "unlock")
                /\ With(c, [NoArg EXCEPT !.m = m])
                /\ held' = [held EXCEPT ![c] = @ \ {m}]
        /\ UNCHANGED <<k, owner, spoilt, bounds>>

\* EACCES: the caller does not own what it believes it holds.
UnlockDenied(c, m) ==
    /\ At(c, "run")
    /\ m \in held[c] /\ owner[m] # c
    /\ held' = [held EXCEPT ![c] = @ \ {m}]
    /\ UNCHANGED <<k, pc, arg, owner, lock, spoilt, bounds>>

\* The mutex goes to n, whose priority becomes the ceiling.
HandedOff(k1, m, n) ==
    AssertActive([k1 EXCEPT !.prio[n] = Ceiling[m]], {n}, "MUTEX")

\* Mutant: a waiter is woken but the mutex is left free.
NewOwner_Free(m, n) == [owner EXCEPT ![m] = -1]
NewOwner(m, n) == [owner EXCEPT ![m] = n]

Restored(c) ==
    [k EXCEPT !.prio[c] = k.base[c], !.cur = k.base[c], !.block[c] = NULL]

\* Mutant: the downgrade updates with the priority that was given up.
Unlocked_OldPriority(c) ==
    IF k.cur > Restored(c).cur THEN UpdateOnWake(Restored(c), k.cur) ELSE Restored(c)
\* priv_mutex_unlock() without a waiter: the execute flags are recomputed, for
\* the restored priority, when that is below sched_current_priority.
Unlocked(c) ==
    IF k.cur > Restored(c).cur
    THEN UpdateOnWake(Restored(c), Restored(c).cur)
    ELSE Restored(c)

\* Mutant: the waiters of the mutex are overlooked.
Waiter_None(m) == -1
Waiter(m) == HighestPriorityBlocked(k, MutexObj(m))

UnlockHandOff(c) ==
    LET m == arg[c].m
        n == Waiter(m)
    IN  /\ At(c, "unlock")
        /\ n # -1
        /\ owner' = NewOwner(m, n)
        /\ lock' = [lock EXCEPT ![m] = 1]
        /\ k' \in Return(UpdateOnWake(HandedOff(Restored(c), m, n), Ceiling[m]))
        /\ Back(c)
        /\ UNCHANGED <<held, spoilt, bounds>>

UnlockFree(c) ==
    LET m == arg[c].m
    IN  /\ At(c, "unlock")
        /\ Waiter(m) = -1
        /\ owner' = NewOwner(m, -1)
        /\ lock' = [lock EXCEPT ![m] = 0]
        /\ k' \in Return(Unlocked(c))
        /\ Back(c)
        /\ UNCHANGED <<held, spoilt, bounds>>

-----------------------------------------------------------------------------
\* pthread_cond_wait(), pthread_cond_timedwait()

\* The mutex's next owner is chosen before the privileged call.
CondWaitCall(c, v, m, how) ==
    /\ At(c, "run")
    /\ m \in held[c]
    /\ waits < MaxWaits /\ waits' = waits + 1
    /\ With(c, [m |-> m, v |-> v, how |-> how, new_thread |-> Waiter(m)])
    /\ Goto(c, "condwait")
    /\ UNCHANGED <<k, owner, lock, held, spoilt, sent>>

\* priv_cond_wait(): release the mutex and block.
CondWait(c) ==
    LET m  == arg[c].m
        n  == arg[c].new_thread
        k1 == [k EXCEPT !.prio[c] = k.base[c]]
        k2 == IF n # -1 THEN HandedOff(k1, m, n) ELSE k1
    IN  /\ At(c, "condwait")
        /\ owner[m] = c
        /\ owner' = [owner EXCEPT ![m] = n]
        /\ lock' = [lock EXCEPT ![m] = IF n # -1 THEN 1 ELSE 0]
        /\ \E kind \in Timeouts(arg[c].how) :
              k' \in Return(TimedBlock(k2, CondObj(arg[c].v), kind))
        /\ held' = [held EXCEPT ![c] = @ \ {m}]
        /\ Goto(c, "waiting")
        /\ spoilt' = IF n \in BlockedOn(k, MutexObj(m)) \/ n = Waiter(m)
                     THEN spoilt ELSE spoilt \cup {"heir"}
        /\ UNCHANGED <<arg, bounds>>

\* EPERM
CondWaitDenied(c) ==
    /\ At(c, "condwait")
    /\ owner[arg[c].m] # c
    /\ Back(c)
    /\ UNCHANGED <<k, owner, lock, held, spoilt, bounds>>

\* The wait returns, without the mutex.
CondWoken(c) ==
    /\ At(c, "waiting")
    /\ Back(c)
    /\ UNCHANGED <<k, owner, lock, held, spoilt, bounds>>

\* pthread_cond_signal(): the thread is chosen before the privileged call.
CondSignalCall(c, v) ==
    LET n == HighestPriorityBlocked(k, CondObj(v))
    IN  /\ At(c, "run")
        /\ n # -1
        /\ With(c, [NoArg EXCEPT !.v = v, !.new_thread = n])
        /\ Goto(c, "condsignal")
        /\ UNCHANGED <<k, owner, lock, held, spoilt, bounds>>

CondSignal(c) ==
    LET n == arg[c].new_thread
    IN  /\ At(c, "condsignal")
        /\ k' \in Return(UpdateOnWake(AssertActive(k, {n}, "COND"), k.prio[n]))
        /\ Back(c)
        /\ spoilt' = IF n \in BlockedOn(k, CondObj(arg[c].v))
                     THEN spoilt ELSE spoilt \cup {"woken"}
        /\ UNCHANGED <<owner, lock, held, bounds>>

CondBroadcast(c, v) ==
    /\ At(c, "run")
    /\ k' \in Return(UnblockAll(k, CondObj(v), "COND"))
    /\ UNCHANGED <<pc, arg, owner, lock, held, spoilt, bounds>>

-----------------------------------------------------------------------------
CondStep(c) ==
    \/ \E v \in Conds, m \in Mutexes, how \in {"lock", "timed"} :
          CondWaitCall(c, v, m, how)
    \/ CondWait(c) \/ CondWaitDenied(c) \/ CondWoken(c) \/ CondSignal(c)
    \/ \E v \in Conds : CondSignalCall(c, v) \/ CondBroadcast(c, v)

MutexStep(c) ==
    \/ \E m \in Mutexes, how \in How : LockCall(c, m, how)
    \/ \E m \in Mutexes : LockAgain(c, m) \/ UnlockCall(c, m) \/ UnlockDenied(c, m)
    \/ TryLockFree(c) \/ TryLockBusy(c) \/ TryLockBlock(c) \/ LockWoken(c)
    \/ UnlockHandOff(c) \/ UnlockFree(c)

Next ==
    \/ SysTick \/ TimerMatch
    \/ \E c \in Task :
          \/ MutexStep(c) \/ CondStep(c) \/ Sleep(c)
          \/ \E t \in Task : Signal(c, t)

Spec == Init /\ [][Next]_vars

-----------------------------------------------------------------------------
TypeOK ==
    /\ k \in Kernel
    /\ pc \in [Task -> PC]
    /\ arg \in [Task -> Arg]
    /\ owner \in [Mutexes -> Task \cup {-1}]
    /\ lock \in [Mutexes -> 0 .. MaxLocks]
    /\ held \in [Task -> SUBSET Mutexes]
    /\ spoilt \subseteq Mishap
    /\ sent \in 0 .. MaxSignals /\ waits \in 0 .. MaxWaits

\* A thread whose lock call has returned zero owns the mutex until it unlocks
\* it, so no two threads are in the same critical section.  (Unless the wait was
\* ended by a signal or by a pthread_cond_signal() that came too late, or a
\* mutex has been left to an heir that had stopped waiting for it.)
HolderOwnsUndisturbed ==
    spoilt = {} => \A c \in Task : \A m \in held[c] : owner[m] = c

\* A thread does not stay blocked on a mutex that is free, nor on one that it
\* owns itself: neither a hand-off nor a time-out nor a wait for a condition
\* loses it on the way, unless it began to wait after pthread_cond_wait() had
\* looked for the heir.
NoWaitOnFree ==
    "heir" \notin spoilt =>
        \A m \in Mutexes : \A t \in BlockedOn(k, MutexObj(m)) : owner[m] \notin {-1, t}

\* No mutex belongs to a thread that does not know of it: the owner holds it or
\* is in a call for it.  Again the heir of pthread_cond_wait() is excepted.
NoOrphan ==
    "heir" \notin spoilt =>
        \A m \in Mutexes :
            owner[m] # -1 => m \in held[owner[m]] \/ arg[owner[m]].m = m

\* A thread that owns no mutex runs at the priority it was created with, and
\* the owner of a mutex at no less than the ceiling: hand-offs, time-outs,
\* signals and waits for conditions included.  (Of one mutex: priv_mutex_unlock()
\* restores the base priority even if the thread owns another one.)
PriorityProtocol ==
    \A c \in Task :
        LET owned == {m \in Mutexes : owner[m] = c}
        IN  /\ pc[c] = "run" /\ owned = {} => k.prio[c] = k.base[c]
            /\ \A m \in owned : k.prio[c] >= Ceiling[m]

\* The processor is not left idle, nor given to a task that cannot run: some
\* ready task has its execute flag set, and only ready tasks have it.
WorkConserving ==
    /\ k.exec \subseteq Ready(k)
    /\ k.exec = {} => Ready(k) = {}

Lock(m) == INSTANCE HandOffLock WITH Thread  <- Task,
                                     holder  <- owner[m],
                                     waiting <- BlockedOn(k, MutexObj(m))

\* What HandOffLock sees of a step.
LockStep(m) ==
    [Lock(m)!Next \/ "heir" \in spoilt']_<<owner[m], BlockedOn(k, MutexObj(m))>>

\* Every mutex implements HandOffLock: priv_mutex_trylock(), priv_mutex_unlock()
\* and priv_cond_wait() pass it from its owner to a waiter without leaving it
\* free in between, a time-out only takes a waiter away, and nobody takes it past
\* a waiter - until pthread_cond_wait() has left it to an heir who no longer
\* waits, or to nobody although somebody waits.
IsHandOffLock ==
    /\ \A m \in Mutexes : Lock(m)!Init
    /\ [][\A m \in Mutexes : LockStep(m)]_vars
=============================================================================
