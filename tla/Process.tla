------------------------------- MODULE Process -------------------------------
(***************************************************************************)
(* Processes and signals over the scheduler's table: creation              *)
(* (sched_process.c, task_process.c), _exit(), waitpid() (_wait.c), and    *)
(* the default actions of signals (pthread_kill.c, signal_handler.c).      *)
(*                                                                         *)
(* A process is a set of table entries with one pid.  It ends in several   *)
(* privileged calls, and becomes a zombie in the first of them.  A signal  *)
(* puts a frame on the stack of a thread and makes the thread active; its  *)
(* action is the thread's own next step.  Entries that are deleted keep    *)
(* the pid and the parent they had.                                        *)
(***************************************************************************)
EXTENDS SchedTable, Sequences, FiniteSets, FiniteSetsExt

CONSTANTS
    MaxPids,    \* bound: processes in a behaviour, the first included
    MaxThreads, \* bound: threads created in a behaviour
    MaxSignals  \* bound: signals in a behaviour besides SIGCHLD

ASSUME ProcessAssumption == MaxPids \in Nat \ {0} /\ MaxThreads \in Nat /\ MaxSignals \in Nat

VARIABLES
    k,         \* the task table
    pid,       \* task_table[].pid
    parent,    \* the parent in task_table[].flags
    isthread,  \* TASK_FLAGS_IS_THREAD
    zombie,    \* SCHED_TASK_FLAGS_ZOMBIE
    caught,    \* the processes with _PROC_FLAG_SIGCAUGHT
    frames,    \* the signals whose handlers are on the stack of each task
    pc, reg,   \* where each thread is between its steps, and its local variables
    reaps,     \* history: how often waitpid() has taken each process
    spoilt,    \* history: the mishaps that the properties except
    pids, threads, sent \* counters for the bounds

proc   == <<pid, parent, isthread, zombie, caught>>
bounds == <<pids, threads, sent>>
vars   == <<k, proc, frames, pc, reg, reaps, spoilt, bounds>>

Pid    == 0 .. MaxPids
PC     == {"none", "run", "init", "exit", "close", "chld", "send", "zombie",
           "wait", "woken"}
\* SIGUSR is one with a handler of the application's.
Signo  == {"SIGCHLD", "SIGSTOP", "SIGCONT", "SIGKILL", "SIGUSR"}

\* new: the entry or the signal's target; send: send_signal of _exit();
\* to: the process to notify, next: the next entry to look at;
\* want: the pid waitpid() was called with (0 is any), tid: what it has found.
NoReg == [new |-> 0, prio |-> 0, send |-> FALSE, to |-> 0, next |-> 0, want |-> 0, tid |-> 0]

\* Task 0 is the scheduler's, and of process 0.
PidOf(t) == IF t = 0 THEN 0 ELSE pid[t]

\* The end of a privileged call; nothing here looks at the unblock types.
Leave(x) == Return([x EXCEPT !.unblock = [t \in Task |-> "NONE"]])

At(c, l)   == k.current = c /\ pc[c] = l /\ frames[c] = <<>>
Goto(c, l) == pc' = [pc EXCEPT ![c] = l]
Set(c, r)  == reg' = [reg EXCEPT ![c] = r]

Init ==
    /\ k = [used |-> {1}, exec |-> {1}, fifo |-> {}, inuse |-> {1}, active |-> {1},
            stopped |-> {}, timed |-> {}, prio |-> [t \in Task |-> 0],
            base |-> [t \in Task |-> 0], block |-> [t \in Task |-> NULL],
            unblock |-> [t \in Task |-> "NONE"], cur |-> 0, current |-> 0, pend |-> FALSE]
    /\ pid = [t \in Task |-> IF t = 1 THEN 1 ELSE 0]
    /\ parent = [t \in Task |-> 0]
    /\ isthread = {} /\ zombie = {} /\ caught = {}
    /\ frames = [t \in Task |-> <<>>]
    /\ pc = [t \in Task |-> IF t = 1 THEN "run" ELSE "none"]
    /\ reg = [t \in Task |-> NoReg]
    /\ reaps = [p \in Pid |-> 0] /\ spoilt = {}
    /\ pids = 1 /\ threads = 0 /\ sent = 0

Spoil(x, happens) == IF happens THEN {x} ELSE {}

\* Entries that have a stack and a start address, but no entry in the
\* scheduler's table yet: what is there is of an earlier thread.
Unborn == k.used \ (k.inuse \cup zombie)

-----------------------------------------------------------------------------

\* flags = 0 and task_priv_del(), for the tasks of S.
Deleted(x, S) ==
    [x EXCEPT !.used = @ \ S, !.exec = @ \ S, !.inuse = @ \ S, !.active = @ \ S,
              !.stopped = @ \ S]

\* task_priv_new_task(), for task_new_process() and task_new_thread().
NewTask(c, thread, p) ==
    /\ At(c, "run") /\ FreeTasks(k) # {}
    /\ LET i    == Min(FreeTasks(k))
           zero == {t \in k.used : pid[t] = pid[c] /\ t \notin isthread}
       IN  /\ IF thread
              THEN /\ threads < MaxThreads /\ threads' = threads + 1
                   /\ zero # {} /\ UNCHANGED pids
                   /\ pid' = [pid EXCEPT ![i] = pid[c]]
                   /\ parent' = [parent EXCEPT ![i] = parent[Min(zero)]]
                   /\ isthread' = isthread \cup {i}
              ELSE /\ pids < MaxPids /\ pids' = pids + 1
                   /\ p = 0 /\ UNCHANGED threads
                   /\ pid' = [pid EXCEPT ![i] = pids + 1]
                   /\ parent' = [parent EXCEPT ![i] = c]
                   /\ isthread' = isthread \ {i}
           /\ k' \in Leave([k EXCEPT !.used = @ \cup {i}, !.exec = @ \ {i}, !.fifo = @ \ {i}])
           /\ reg' = [reg EXCEPT ![c] = [NoReg EXCEPT !.new = i, !.prio = p], ![i] = NoReg]
           /\ pc' = [pc EXCEPT ![c] = "init", ![i] = "run"]
           /\ frames' = [frames EXCEPT ![i] = <<>>]
           /\ spoilt' = spoilt \cup Spoil("adopted", \E t \in k.used : parent[t] = i)
    /\ UNCHANGED <<zombie, caught, reaps, sent>>

\* priv_init_sched_task() and priv_activate_thread().  A signal may have started
\* the task before.
InitTask(c) ==
    /\ At(c, "init")
    /\ LET i  == reg[c].new
           p  == reg[c].prio
           k1 == [k EXCEPT !.inuse = @ \cup {i}, !.stopped = @ \ {i},
                           !.prio[i] = p, !.base[i] = p]
       IN  /\ k' \in Leave(UpdateOnWake(AssertActive(k1, {i}, "NONE"), p))
           /\ zombie' = zombie \ {i}
    /\ Goto(c, "run") /\ Set(c, NoReg)
    /\ UNCHANGED <<pid, parent, isthread, caught, frames, reaps, spoilt, bounds>>

-----------------------------------------------------------------------------
(* _exit()                                                                 *)

\* priv_stop_threads(), the first thing _exit() does.
StopThreads(c) ==
    /\ At(c, "run") \/ At(c, "exit")
    /\ LET S == {t \in Task : pid[t] = pid[c]} \ {c}
       IN  /\ k' \in Leave(Deleted(k, S))
           /\ zombie' = (zombie \ S) \cup {c}
           /\ frames' = [t \in Task |-> IF t \in S THEN <<>> ELSE frames[t]]
           /\ pc' = [t \in Task |-> IF t \in S THEN "none" ELSE IF t = c THEN "close" ELSE pc[t]]
    /\ Set(c, [NoReg EXCEPT !.send = c \notin zombie /\ PidOf(parent[c]) # 0])
    /\ spoilt' = spoilt \cup Spoil("again", c \in zombie)
    /\ UNCHANGED <<pid, parent, isthread, caught, reaps, bounds>>

\* The files are closed, outside of the kernel.
CloseFiles(c) ==
    /\ At(c, "close")
    /\ IF reg[c].send THEN Goto(c, "chld") ELSE Goto(c, "zombie")
    /\ Set(c, [reg[c] EXCEPT !.to = IF reg[c].send THEN PidOf(parent[c]) ELSE 0])
    /\ UNCHANGED <<k, proc, frames, reaps, spoilt, bounds>>

\* Mutant: the loop leaves out the entry after the one it has notified.
Targets_SkipsOne(c) == {t \in k.used : t > reg[c].next /\ pid[t] = reg[c].to}

\* The loop over the parent's threads.
Targets(c) == {t \in k.used : t >= reg[c].next /\ pid[t] = reg[c].to}

NextTarget(c) ==
    /\ At(c, "chld")
    /\ LET T == Targets(c)
       IN  IF T # {}
           THEN /\ Goto(c, "send")
                /\ Set(c, [reg[c] EXCEPT !.new = Min(T), !.next = Min(T) + 1])
           ELSE /\ Goto(c, "zombie")
                \* nobody was there: "don't be a zombie"
                /\ Set(c, [NoReg EXCEPT !.send = reg[c].next > 0])
    /\ UNCHANGED <<k, proc, frames, reaps, spoilt, bounds>>

\* task_interrupt(): a frame for a task that is enabled, and in any case
\* signal_priv_activate().
Interrupt(t, s) ==
    /\ k' \in Leave(SignalActivate(k, t))
    /\ frames' = IF t \in k.used THEN [frames EXCEPT ![t] = <<s>> \o @] ELSE frames

\* signal_send() of SIGCHLD; the target may be gone since it was looked up.
SendChld(c) ==
    /\ At(c, "send")
    /\ Interrupt(reg[c].new, "SIGCHLD")
    /\ spoilt' = spoilt \cup Spoil("ghost", reg[c].new \notin k.used)
                        \cup Spoil("unborn", reg[c].new \in Unborn)
    /\ Goto(c, "chld")
    /\ UNCHANGED <<proc, reg, reaps, bounds>>

\* priv_zombie_process(), again and again.
ZombieProcess(c) ==
    /\ At(c, "zombie")
    /\ IF reg[c].send
       THEN /\ k' \in Leave(UpdateOnSleep([k EXCEPT !.inuse = @ \ {c}]))
            /\ UNCHANGED <<zombie, pc>>
       ELSE /\ k' \in Leave(UpdateOnSleep(Deleted(k, {c})))
            /\ zombie' = zombie \ {c} /\ Goto(c, "none")
    /\ UNCHANGED <<pid, parent, isthread, caught, frames, reg, reaps, spoilt, bounds>>

-----------------------------------------------------------------------------
(* waitpid()                                                               *)

\* Entries that were deleted count as children, too.
Children(c) == {t \in Task : PidOf(parent[t]) = pid[c]}

\* priv_check_for_zombie_child(): what it finds, 0 for nothing yet, -1 for no
\* children.
Found(c, want) ==
    LET Z == {t \in Children(c) \cap zombie : want \in {0, pid[t]}}
    IN  CASE Z # {}                        -> Min(Z)
          [] Z = {} /\ Children(c) # {}    -> 0
          [] OTHER                         -> -1

\* Mutant: the entry of a child that is reaped stays a zombie's.
Reap_KeepsZombie(c, i) ==
    /\ k' \in Leave(Deleted(k, {i}))
    /\ frames' = [frames EXCEPT ![i] = <<>>]
    /\ reaps' = [reaps EXCEPT ![pid[i]] = @ + 1]
    /\ pc' = [pc EXCEPT ![c] = "run", ![i] = "none"]
    /\ reg' = [reg EXCEPT ![c] = NoReg, ![i] = NoReg]
    /\ UNCHANGED zombie

\* The child's entry is freed, wherever the child is in _exit().
Reap(c, i) ==
    /\ k' \in Leave(Deleted(k, {i}))
    /\ zombie' = zombie \ {i}
    /\ frames' = [frames EXCEPT ![i] = <<>>]
    /\ reaps' = [reaps EXCEPT ![pid[i]] = @ + 1]
    /\ pc' = [pc EXCEPT ![c] = "run", ![i] = "none"]
    /\ reg' = [reg EXCEPT ![c] = NoReg, ![i] = NoReg]

WaitCall(c, want, nohang) ==
    /\ At(c, "run")
    /\ LET i == Found(c, want)
       IN  \/ /\ i > 0 /\ Reap(c, i)
           \/ /\ i <= 0 /\ nohang /\ UNCHANGED <<k, zombie, frames, reaps, pc, reg>>
           \/ /\ i <= 0 /\ ~nohang /\ Goto(c, "wait")
              /\ Set(c, [NoReg EXCEPT !.want = want])
              /\ UNCHANGED <<k, zombie, frames, reaps>>
    /\ UNCHANGED <<pid, parent, isthread, caught, spoilt, bounds>>

\* priv_wait_child(): the check and the sleep are one call.
WaitChild(c) ==
    /\ At(c, "wait")
    /\ LET i == Found(c, reg[c].want)
       IN  \/ /\ i > 0 /\ Reap(c, i) /\ UNCHANGED caught
           \/ /\ i <= 0 /\ caught' = caught \ {pid[c]}
              /\ k' \in Leave(UpdateOnSleep(k)) /\ Goto(c, "woken")
              /\ Set(c, [reg[c] EXCEPT !.tid = i])
              /\ UNCHANGED <<zombie, frames, reaps>>
    /\ UNCHANGED <<pid, parent, isthread, spoilt, bounds>>

\* Another round, EINTR or ECHILD.
Woken(c) ==
    /\ At(c, "woken")
    /\ IF pid[c] \notin caught /\ reg[c].tid = 0
       THEN Goto(c, "wait") /\ UNCHANGED reg
       ELSE Goto(c, "run") /\ Set(c, NoReg)
    /\ UNCHANGED <<k, proc, frames, reaps, spoilt, bounds>>

-----------------------------------------------------------------------------
(* Signals                                                                 *)

\* signal_priv_send(), from an interrupt, to any entry of the table, and
\* task_interrupt() for a thread whose signal_send() has checked the target
\* before: it may be gone, or its entry be a new task's.
Signal(t, s) ==
    /\ sent < MaxSignals /\ sent' = sent + 1
    /\ t # k.current /\ s # "SIGCHLD"
    /\ Interrupt(t, s)
    /\ spoilt' = spoilt \cup Spoil("ghost", t \notin k.used) \cup Spoil("unborn", t \in Unborn)
    /\ UNCHANGED <<proc, pc, reg, reaps, pids, threads>>

\* The tasks that stop or go on: a thread alone, or with the main thread all
\* entries of the process.
Group(c) == IF c \in isthread THEN {c} ELSE {t \in Task : pid[t] = pid[c]}

\* Mutant: nothing else is looked for when the tasks have stopped.
StopPid_NoUpdate(c) == [k EXCEPT !.stopped = @ \cup Group(c)]

\* priv_stoppid()
StopPid(c) == UpdateOnStopped([k EXCEPT !.stopped = @ \cup Group(c)])

\* priv_contpid(): the priorities of tasks that sleep, or are gone, count, too.
ContPriority(c) == Max({k.prio[t] : t \in Group(c)})
ContPid(c)      == UpdateOnWake([k EXCEPT !.stopped = @ \ Group(c)], ContPriority(c))

\* signal_handler() on the stack of its task.
Handle(c, s) ==
    /\ k.current = c /\ frames[c] # <<>> /\ s = Head(frames[c])
    /\ IF s = "SIGKILL"
       THEN frames' = [frames EXCEPT ![c] = <<>>] /\ Goto(c, "exit")
       ELSE frames' = [frames EXCEPT ![c] = Tail(@)] /\ UNCHANGED pc
    /\ k' \in CASE s = "SIGSTOP" -> Leave(StopPid(c))
                [] s = "SIGCONT" -> Leave(ContPid(c))
                [] OTHER         -> {k}
    /\ caught' = IF s = "SIGUSR" THEN caught \cup {pid[c]} ELSE caught
    /\ spoilt' = spoilt \cup Spoil("cont", s = "SIGCONT"
                    /\ ContPriority(c) > TopPriority(k, Ready(k) \cup {c}))
    /\ UNCHANGED <<pid, parent, isthread, zombie, reg, reaps, bounds>>

-----------------------------------------------------------------------------
(* The rest of the system                                                  *)

Sleep(c) ==
    /\ At(c, "run")
    /\ k' \in Leave(TimedBlock(k, NULL, "future"))
    /\ UNCHANGED <<proc, frames, pc, reg, reaps, spoilt, bounds>>

\* The wake-up of a stopped task counts for the priority that is executed.
TimerMatch ==
    \E S \in (SUBSET Sleepers(k)) \ {{}} :
        /\ k' \in Leave(MatchEvent(k, S))
        /\ spoilt' = spoilt \cup Spoil("woken", S \cap k.stopped # {})
                            \cup Spoil("unborn", S \cap Unborn # {})
        /\ UNCHANGED <<proc, frames, pc, reg, reaps, bounds>>

SysTick ==
    /\ k' \in Leave(SwitchContext(k))
    /\ UNCHANGED <<proc, frames, pc, reg, reaps, spoilt, bounds>>

ThreadStep(c) ==
    \/ \E thread \in BOOLEAN, p \in Priority : NewTask(c, thread, p)
    \/ InitTask(c) \/ StopThreads(c) \/ CloseFiles(c) \/ NextTarget(c)
    \/ SendChld(c) \/ ZombieProcess(c)
    \/ \E want \in {0} \cup 2 .. MaxPids, nohang \in BOOLEAN : WaitCall(c, want, nohang)
    \/ WaitChild(c) \/ Woken(c) \/ Sleep(c)
    \/ \E s \in Signo : Handle(c, s)

Next ==
    \/ SysTick \/ TimerMatch
    \/ \E t \in Task, s \in Signo : Signal(t, s)
    \/ \E c \in Task : ThreadStep(c)

Spec == Init /\ [][Next]_vars

-----------------------------------------------------------------------------
\* The types of the variables; only entries in use are executed or run code,
\* and only a zombie is at the end of _exit().
TypeOK ==
    /\ k \in Kernel
    /\ pid \in [Task -> Pid] /\ parent \in [Task -> 0 .. TaskTotal - 1]
    /\ isthread \subseteq Task /\ zombie \subseteq k.used /\ caught \subseteq Pid
    /\ frames \in [Task -> Seq(Signo)]
    /\ pc \in [Task -> PC]
    /\ k.exec \subseteq k.used

\* A parent that sleeps in waitpid() is not left asleep with a child that has
\* become a zombie and has sent its last SIGCHLD (_exit.c, priv_wait_child()),
\* unless a signal made a process that was ending end again, or a new task was
\* handed the entry of a process whose children go on.
NoMissedChild == spoilt \cap {"again", "adopted"} = {} =>
    \A c, z \in k.used :
        /\ pc[c] = "woken" /\ c \notin k.active
        /\ z \in zombie \cap Children(c) /\ pc[z] = "zombie"
        => reg[c].want \notin {0, pid[z]}

\* No two calls of waitpid() take the same process, whichever of the parent's
\* threads make them.
ReapedOnce == \A p \in Pid : reaps[p] <= 1

\* The execute flags mark the ready tasks of the top priority, stopped ones
\* excluded; when a stop leaves nothing ready, only stopped tasks keep theirs.
RightTasksRun ==
    spoilt = {} =>
        IF Ready(k) = {} THEN k.exec \subseteq k.stopped
        ELSE k.exec = {t \in Ready(k) : k.prio[t] = TopPriority(k, Ready(k))}
=============================================================================
