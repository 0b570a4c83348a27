------------------------------- MODULE Sched --------------------------------
(***************************************************************************)
(* The scheduler and the life of its threads: creation in two privileged   *)
(* calls (sched_thread.c), sleeping and the microsecond timer              *)
(* (sched_timing.c), the round-robin tick (task.c), termination with the   *)
(* joiners' hand-shake (sched_thread.c, pthread_create.c), and signals     *)
(* whose handler returns (pthread_kill.c), which may find that the thread  *)
(* they are for is no longer there.                                        *)
(*                                                                         *)
(* Code between two privileged calls is not privileged: any interrupt, and *)
(* after a context switch any other thread, may come in between.  pc is    *)
(* the place of a thread between its privileged calls.                     *)
(***************************************************************************)
EXTENDS SchedTable, FiniteSets

CONSTANTS
    MaxBirths,    \* bound: threads created in a behaviour
    MaxSignals,   \* bound: signals sent in a behaviour
    SleepKinds    \* the times clients pass to sleep() and usleep()

ASSUME SchedAssumption ==
    /\ MaxBirths \in Nat /\ MaxSignals \in Nat
    /\ SleepKinds \subseteq {"future", "near"}

VARIABLES
    k,            \* the task table
    pc,           \* where each thread is between its privileged calls
    target,       \* the table index a thread is activating, joining or signalling
    joinable,     \* tasks whose detach state is PTHREAD_CREATE_JOINABLE
    exit_status,  \* sched_table[].exit_status
    inc,          \* history: how many threads have lived in a table entry
    want,         \* history: the thread (its inc) a join call is for, 0: none
    strayed,      \* history: a signal has activated an entry that holds no
                  \* thread the scheduler knows of
    births, sent  \* counters for the bounds

vars == <<k, pc, target, joinable, exit_status, inc, want, strayed, births, sent>>

PC == {"none",        \* the entry is free
       "run", "activate", "signal", "join", "joining", "exit", "cleanup"}

\* block_object values of joining: &sched_table[t] and
\* &sched_table[t].block_object.
Tcb(t)  == <<"thread", t>>
Self(t) == <<"self", t>>

\* Thread t executes and is at location l.
At(t, l) == k.current = t /\ pc[t] = l
Goto(t, l) == pc' = [pc EXCEPT ![t] = l]

\* start_first_thread() has returned in the scheduler's task.
Init ==
    /\ \E p \in Priority :
        k = [used |-> {1}, exec |-> {1}, fifo |-> {}, inuse |-> {1},
             active |-> {1}, stopped |-> {}, timed |-> {},
             prio |-> [t \in Task |-> IF t = 1 THEN p ELSE 0],
             base |-> [t \in Task |-> IF t = 1 THEN p ELSE 0],
             block |-> [t \in Task |-> NULL],
             unblock |-> [t \in Task |-> "NONE"],
             cur |-> p, current |-> 0, pend |-> FALSE]
    /\ pc = [t \in Task |-> IF t = 1 THEN "run" ELSE "none"]
    /\ target = [t \in Task |-> 0]
    /\ joinable = {}
    /\ exit_status = [t \in Task |-> 0]
    /\ inc = [t \in Task |-> IF t = 1 THEN 1 ELSE 0]
    /\ want = [t \in Task |-> 0]
    /\ strayed = FALSE
    /\ births = 0 /\ sent = 0

-----------------------------------------------------------------------------
\* Interrupts and the scheduler's loop.

\* SysTick at the end of a round-robin slice; it is disabled for FIFO tasks.
SysTick ==
    /\ k.current \notin k.fifo
    /\ k' \in Return(SwitchContext(k))
    /\ UNCHANGED <<pc, target, joinable, exit_status, inc, want, strayed, births, sent>>

\* priv_check_sleep_mode(): it does not look at the stopped flags.
SomeActive == k.used \cap k.active # {}

\* scheduler(): switch context unless every task is inactive.
SchedulerLoop ==
    /\ k.current = 0
    /\ SomeActive
    /\ k' \in Return(SwitchContext(k))
    /\ UNCHANGED <<pc, target, joinable, exit_status, inc, want, strayed, births, sent>>

TimerMatch ==
    /\ \E S \in SUBSET Sleepers(k) : k' \in Return(MatchEvent(k, S))
    /\ UNCHANGED <<pc, target, joinable, exit_status, inc, want, strayed, births, sent>>

-----------------------------------------------------------------------------
\* Thread creation: sched_new_thread().

\* task_priv_new_task() takes the first free entry and builds the frame of the
\* start routine on its stack; the sched_table entry stays as its last user
\* left it.
NewTask(c) ==
    /\ At(c, "run")
    /\ births < MaxBirths
    /\ \E i \in FreeTasks(k) :
        /\ \A j \in FreeTasks(k) : i <= j
        /\ k' = [k EXCEPT !.used = @ \cup {i}, !.fifo = @ \ {i}]
        /\ target' = [target EXCEPT ![c] = i]
        /\ inc' = [inc EXCEPT ![i] = @ + 1]
        /\ pc' = [pc EXCEPT ![c] = "activate", ![i] = "run"]
    /\ births' = births + 1
    /\ UNCHANGED <<joinable, exit_status, want, strayed, sent>>

\* priv_activate_thread(): the whole entry is cleared, then filled.
Activated(i, p, fifo) ==
    AssertActive([k EXCEPT !.stopped = @ \ {i}, !.inuse = @ \cup {i},
                           !.prio[i] = p, !.base[i] = p,
                           !.fifo = IF fifo THEN @ \cup {i} ELSE @ \ {i}],
                 {i}, "NONE")

Activate(c) ==
    /\ At(c, "activate")
    /\ LET i == target[c]
       IN  /\ \E p \in Priority, fifo \in BOOLEAN :
                k' \in Return(UpdateOnWake(Activated(i, p, fifo), p))
           /\ \E j \in {joinable \cup {i}, joinable \ {i}} : joinable' = j
           /\ exit_status' = [exit_status EXCEPT ![i] = 0]
    /\ target' = [target EXCEPT ![c] = 0]
    /\ Goto(c, "run")
    /\ UNCHANGED <<inc, want, strayed, births, sent>>

-----------------------------------------------------------------------------
\* sleep() and usleep(): sched_priv_timedblock(NULL, abs_time).
Sleep(c) ==
    /\ At(c, "run")
    /\ \E kind \in SleepKinds : k' \in Return(TimedBlock(k, NULL, kind))
    /\ UNCHANGED <<pc, target, joinable, exit_status, inc, want, strayed, births, sent>>

\* signal_send(): the id is checked outside of the kernel ...
SignalCall(c, t) ==
    /\ At(c, "run")
    /\ sent < MaxSignals
    /\ t \in k.used
    /\ target' = [target EXCEPT ![c] = t]
    /\ Goto(c, "signal")
    /\ sent' = sent + 1
    /\ UNCHANGED <<k, joinable, exit_status, inc, want, strayed, births>>

\* ... and by the privileged call that pushes the handler's frame the entry may
\* be free, or handed out again to a thread that is not activated yet.  It gets
\* a frame only if it is in use; signal_priv_activate() runs in any case.
SignalSend(c) ==
    /\ At(c, "signal")
    /\ k' \in Return(SignalActivate(k, target[c]))
    /\ strayed' = (strayed \/ target[c] \notin k.inuse)
    /\ target' = [target EXCEPT ![c] = 0]
    /\ Goto(c, "run")
    /\ UNCHANGED <<joinable, exit_status, inc, want, births, sent>>

\* ENOMEM: no room for the frame on the target's stack.
SignalRefused(c) ==
    /\ At(c, "signal")
    /\ target' = [target EXCEPT ![c] = 0]
    /\ Goto(c, "run")
    /\ UNCHANGED <<k, joinable, exit_status, inc, want, strayed, births, sent>>

-----------------------------------------------------------------------------
\* pthread_join()

\* The threads in a join of table entry t.
Joining(t) == {d \in Task : pc[d] \in {"join", "joining"} /\ target[d] = t}

\* The unprivileged checks, passed, for an id pthread_create() has returned.
\* (A check that fails returns an error and changes nothing.)  Nothing is
\* claimed (want = 0) of joins that two threads make of the same thread at a
\* time, whose results POSIX leaves undefined.
JoinCall(c, t) ==
    /\ At(c, "run")
    /\ t \in k.inuse /\ t \in joinable
    /\ k.block[t] # Tcb(c) /\ t # c
    /\ target' = [target EXCEPT ![c] = t]
    /\ want' = IF Joining(t) = {}
               THEN [want EXCEPT ![c] = inc[t]]
               ELSE [d \in Task |-> IF d \in Joining(t) THEN 0 ELSE want[d]]
    /\ Goto(c, "join")
    /\ UNCHANGED <<k, joinable, exit_status, inc, strayed, births, sent>>

\* Mutant: a thread that already waits to be joined is not woken.
JoinThread_NoWake(c) ==
    UpdateOnSleep([k EXCEPT !.block[c] = Tcb(target[c])])

\* priv_join_thread() on an entry that is in use: a thread that waits to be
\* joined is made active without a scheduling update, which UpdateOnSleep does.
JoinThread(c) ==
    LET t  == target[c]
        k1 == [k EXCEPT !.block[c] = Tcb(t)]
        k2 == IF k1.block[t] = Self(t) THEN AssertActive(k1, {t}, "JOINED") ELSE k1
    IN  UpdateOnSleep(k2)

JoinBlock(c) ==
    /\ At(c, "join")
    /\ target[c] \in k.used
    /\ k' \in Return(JoinThread(c))
    /\ Goto(c, "joining")
    /\ UNCHANGED <<target, joinable, exit_status, inc, want, strayed, births, sent>>

\* ESRCH: the entry was freed between the checks (or the last wake-up) and the
\* privileged call.
JoinGone(c) ==
    /\ At(c, "join")
    /\ target[c] \notin k.used
    /\ Goto(c, "run")
    /\ target' = [target EXCEPT ![c] = 0]
    /\ want' = [want EXCEPT ![c] = 0]
    /\ UNCHANGED <<k, joinable, exit_status, inc, strayed, births, sent>>

\* Woken: by the end of the joined thread, or by something else.
JoinDone(c) ==
    /\ At(c, "joining")
    /\ k.unblock[c] = "JOINED_COMPLETE"
    /\ Goto(c, "run")
    /\ target' = [target EXCEPT ![c] = 0]
    /\ want' = [want EXCEPT ![c] = 0]
    /\ UNCHANGED <<k, joinable, exit_status, inc, strayed, births, sent>>

JoinRetry(c) ==
    /\ At(c, "joining")
    /\ k.unblock[c] # "JOINED_COMPLETE"
    /\ Goto(c, "join")
    /\ UNCHANGED <<k, target, joinable, exit_status, inc, want, strayed, births, sent>>

-----------------------------------------------------------------------------
\* cleanup_thread(): a thread returns from its start routine.

ThreadReturn(c) ==
    /\ At(c, "run")
    /\ Goto(c, IF c \in joinable THEN "exit" ELSE "cleanup")
    /\ UNCHANGED <<k, target, joinable, exit_status, inc, want, strayed, births, sent>>

Joiners(c) == {t \in Task : k.block[t] = Tcb(c)}

\* priv_wait_joined(), called until some thread has joined.
WaitUnjoined(c) ==
    /\ At(c, "exit")
    /\ Joiners(c) = {}
    /\ k' \in Return(UpdateOnSleep([k EXCEPT !.block[c] = Self(c)]))
    /\ UNCHANGED <<pc, target, joinable, exit_status, inc, want, strayed, births, sent>>

WaitJoined(c) ==
    /\ At(c, "exit")
    /\ Joiners(c) # {}
    /\ exit_status' = [exit_status EXCEPT ![c] = inc[c]]
    /\ Goto(c, "cleanup")
    /\ UNCHANGED <<k, target, joinable, inc, want, strayed, births, sent>>

\* priv_cleanup(): the joiners get the status and are made active, then the
\* entry is freed and the scheduler picks another task.
Deleted(c) ==
    LET k1 == AssertActive(k, Joiners(c), "JOINED_COMPLETE")
    IN  UpdateOnSleep([k1 EXCEPT !.active = @ \ {c}, !.stopped = @ \ {c},
                                 !.inuse = @ \ {c}, !.unblock[c] = "NONE",
                                 !.used = @ \ {c}, !.exec = @ \ {c}])

\* The exit status goes to the joiners' own entries.
\* Mutant: it stays in the entry of the thread that ends.
ExitStatus_NotCopied(c) == exit_status
ExitStatus(c) ==
    [t \in Task |-> IF t \in Joiners(c) THEN exit_status[c] ELSE exit_status[t]]

Cleanup(c) ==
    /\ At(c, "cleanup")
    /\ k' \in Return(Deleted(c))
    /\ exit_status' = ExitStatus(c)
    /\ Goto(c, "none")
    /\ target' = [target EXCEPT ![c] = 0]
    /\ want' = [want EXCEPT ![c] = 0]
    /\ UNCHANGED <<joinable, inc, strayed, births, sent>>

-----------------------------------------------------------------------------
ThreadStep(c) ==
    \/ NewTask(c) \/ Activate(c) \/ Sleep(c)
    \/ \E t \in Task : SignalCall(c, t) \/ JoinCall(c, t)
    \/ SignalSend(c) \/ SignalRefused(c)
    \/ JoinBlock(c) \/ JoinGone(c) \/ JoinDone(c) \/ JoinRetry(c)
    \/ ThreadReturn(c) \/ WaitUnjoined(c) \/ WaitJoined(c) \/ Cleanup(c)

Next ==
    \/ SysTick \/ SchedulerLoop \/ TimerMatch
    \/ \E c \in Task : ThreadStep(c)

Spec == Init /\ [][Next]_vars

-----------------------------------------------------------------------------
TypeOK ==
    /\ k \in Kernel
    /\ pc \in [Task -> PC]
    /\ target \in [Task -> 0 .. TaskTotal - 1]
    /\ joinable \subseteq Task
    /\ exit_status \in [Task -> 0 .. MaxBirths + 1]
    /\ inc \in [Task -> 0 .. MaxBirths + 1]
    /\ want \in [Task -> 0 .. MaxBirths + 1]
    /\ strayed \in BOOLEAN
    /\ births \in 0 .. MaxBirths /\ sent \in 0 .. MaxSignals

\* sched.c: the execute flags are set for exactly the ready tasks of the
\* largest ready priority, and sched_current_priority is that priority, in
\* every state in which unprivileged code runs, until a signal goes astray.
ExecIsTopReady ==
    ~strayed => /\ k.cur = TopPriority(k, Ready(k))
                /\ k.exec = {t \in Ready(k) : k.prio[t] = k.cur}

\* No thread runs while a ready thread has a larger priority, and the CPU is
\* with a thread that may execute or with the scheduler, until a signal goes
\* astray.
RunningIsTop ==
    ~strayed /\ k.current # 0 => /\ k.current \in Ready(k)
                                 /\ \A t \in Ready(k) : k.prio[t] <= k.prio[k.current]

\* The n-th thread of table entry t has ended.
Ended(t, n) == inc[t] > n \/ t \notin k.used

\* While no signal has been sent, a pthread_join() that is about to return zero
\* returns after the end of the very thread it was called for, with that
\* thread's exit status, although table entries are reused.
JoinReturnsStatus ==
    sent = 0 =>
        \A c \in Task :
            At(c, "joining") /\ k.unblock[c] = "JOINED_COMPLETE" /\ want[c] # 0
                => exit_status[c] = want[c] /\ Ended(target[c], want[c])

\* Threads that terminate are not lost on the way: one that waits to be joined
\* is not asleep while a thread waits for it to end.
NoLostJoin ==
    \A c, t \in Task :
        k.block[c] = Tcb(t) /\ pc[c] = "joining" /\ c \notin k.active
            => t \in k.used /\ ~(pc[t] = "exit" /\ t \notin k.active)
=============================================================================
