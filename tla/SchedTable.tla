----------------------------- MODULE SchedTable -----------------------------
(***************************************************************************)
(* The kernel's task table (hwpl/core_cm3/task.c: task_table, and          *)
(* sys/sched: sched_table, sched_current_priority) as one record, and the  *)
(* privileged functions of sys/sched as operators from a record to the     *)
(* record they leave behind.                                               *)
(*                                                                         *)
(* A privileged function runs inside hwpl_core_privcall() (an SVC) or in   *)
(* an interrupt handler.  task_init() gives SVC, PendSV, SysTick and every *)
(* device interrupt the same priority, so such a function runs to its end  *)
(* before any other one starts.  (The UART that a debug build prints on,   *)
(* to which set_uart_priority() gives a priority of its own, is left out.) *)
(* task_priv_switch_context() only pends PendSV; the switch happens when   *)
(* the handler returns.  A privileged call is therefore a composition of   *)
(* the operators below that ends in Return(k), which performs the pending  *)
(* switch.                                                                 *)
(*                                                                         *)
(* Flags are the sets of the tasks that have them.  Task 0 is the          *)
(* scheduler's own loop; every loop over the table in sys/sched starts at  *)
(* task 1.                                                                 *)
(***************************************************************************)
EXTENDS Integers

CONSTANTS
    TaskTotal,        \* CHILD_MAX: entries of the table, the scheduler included
    HighestPriority   \* SCHED_HIGHEST_PRIORITY (SCHED_LOWEST_PRIORITY is 0)

ASSUME TableAssumption ==
    /\ TaskTotal \in Nat /\ TaskTotal > 1
    /\ HighestPriority \in Nat

Task     == 1 .. TaskTotal - 1
Priority == 0 .. HighestPriority

\* SCHED_LOWEST_PRIORITY - 1: the value of sched_current_priority when no task
\* is ready.
NoPriority == -1

\* Blocking objects: the address a block_object holds, as a kind and an index.
\* "thread" i is &sched_table[i]; "self" i is &sched_table[i].block_object.
ObjectKind == {"null", "thread", "self", "mutex", "cond", "sem", "mq", "device", "aio"}
Object     == ObjectKind \X Nat
NULL       == <<"null", 0>>

UnblockType == {"NONE", "MUTEX", "SEMAPHORE", "COND", "MQ", "TRANSFER", "AIO", "SLEEP", "SIGNAL",
                "JOINED", "JOINED_COMPLETE"}

Kernel == [used    : SUBSET Task,            \* TASK_FLAGS_USED: task_enabled()
           exec    : SUBSET Task,            \* TASK_FLAGS_EXEC
           fifo    : SUBSET Task,            \* TASK_FLAGS_IS_FIFO
           inuse   : SUBSET Task,            \* SCHED_TASK_FLAGS_INUSE
           active  : SUBSET Task,            \* SCHED_TASK_FLAGS_ACTIVE
           stopped : SUBSET Task,            \* SCHED_TASK_FLAGS_STOPPED
           timed   : SUBSET Task,            \* wake.tv_sec is a valid time
           prio    : [Task -> Priority],     \* sched_table[].priority
           base    : [Task -> Priority],     \* sched_table[].attr.schedparam
           block   : [Task -> Object],       \* sched_table[].block_object
           unblock : [Task -> UnblockType],  \* the unblock type bits of flags
           cur     : NoPriority .. HighestPriority,  \* sched_current_priority
           current : 0 .. TaskTotal - 1,     \* task_current
           pend    : BOOLEAN]                \* PendSV is pending

-----------------------------------------------------------------------------
\* Tasks the scheduler may execute.
Ready(k) == {t \in k.used : t \in k.active /\ t \notin k.stopped}

\* Entries task_priv_new_task() may hand out.
FreeTasks(k) == Task \ k.used

\* The largest priority of the tasks in S, NoPriority when S is empty.
TopPriority(k, S) ==
    IF S = {} THEN NoPriority
    ELSE CHOOSE p \in {k.prio[t] : t \in S} : \A t \in S : k.prio[t] <= p

\* sched_priv_assert_active() for every task of S.
AssertActive(k, S, u) ==
    [k EXCEPT !.active  = @ \cup S,
              !.unblock = [t \in Task |-> IF t \in S THEN u ELSE k.unblock[t]],
              !.block   = [t \in Task |-> IF t \in S THEN NULL ELSE k.block[t]],
              !.timed   = @ \ S]

\* Mutant: the execute flag of a task that goes to sleep stays set.
DeassertActive_KeepsExec(k, t) == [k EXCEPT !.active = @ \ {t}]
DeassertActive(k, t) ==
    [k EXCEPT !.active = @ \ {t}, !.exec = @ \ {t}]

SwitchContext(k) == [k EXCEPT !.pend = TRUE]

\* Mutant: a task of the current priority wakes without being executed.
UpdateOnWake_SkipEqual(k, p) ==
    IF p <= k.cur
    THEN k
    ELSE [k EXCEPT !.cur  = p,
                   !.exec = {t \in Ready(k) : k.prio[t] = p},
                   !.pend = TRUE]

\* Mutant: no context switch is requested for a larger priority.
UpdateOnWake_NoSwitch(k, p) ==
    IF p < k.cur
    THEN k
    ELSE [k EXCEPT !.cur  = p, !.exec = {t \in Ready(k) : k.prio[t] = p}]

\* Nothing is recomputed when p is below the current priority.
UpdateOnWake(k, p) ==
    IF p < k.cur
    THEN k
    ELSE [k EXCEPT !.cur  = p,
                   !.exec = {t \in Ready(k) : k.prio[t] = p},
                   !.pend = @ \/ p > k.cur]

\* Mutant: the search starts one below the value that means "no task".
UpdateOnStopped_BelowNone(k) ==
    LET k1 == [k EXCEPT !.cur = NoPriority - 1]
        p  == TopPriority(k1, Ready(k1))
    IN  IF Ready(k1) = {} THEN SwitchContext(k1) ELSE UpdateOnWake(k1, p)

\* The execute flags are recomputed by UpdateOnWake, hence not at all when no
\* task is ready.
UpdateOnStopped(k) ==
    LET k1 == [k EXCEPT !.cur = NoPriority]
        p  == TopPriority(k1, Ready(k1))
    IN  IF Ready(k1) = {} THEN SwitchContext(k1) ELSE UpdateOnWake(k1, p)

UpdateOnSleep(k) == UpdateOnStopped(DeassertActive(k, k.current))

-----------------------------------------------------------------------------
\* Where an absolute time lies when sched_priv_timedblock() looks at it:
\* "never" is the NULL timespec (tv_sec = UINT_MAX), "future" lies in a later
\* period of the microsecond timer or more than 40us ahead, "near" lies in the
\* current period but is over or too close to be programmed, "past" lies in an
\* earlier period.
TimeKind == {"never", "future", "near", "past"}

\* "past" leaves the task's wake time as it is.  A task that has no object to
\* block on does not sleep at all for "near" and "past" - and keeps the wake
\* time that "near" has stored.
TimedBlock(k, obj, kind) ==
    LET t  == k.current
        k1 == [k EXCEPT !.block[t] = obj,
                        !.timed = CASE kind = "never" -> @ \ {t}
                                    [] kind \in {"future", "near"} -> @ \cup {t}
                                    [] OTHER -> @]
    IN  IF obj = NULL /\ kind \in {"near", "past"} THEN k1 ELSE UpdateOnSleep(k1)

\* Sleeping tasks the timer may find expired.
Sleepers(k) == {t \in k.used : t \notin k.active /\ t \in k.timed}

\* priv_usecond_match_event() when exactly the tasks of S have expired.
MatchEvent(k, S) ==
    UpdateOnWake(AssertActive(k, S, "SLEEP"), TopPriority(k, S))

-----------------------------------------------------------------------------
BlockedOn(k, obj) ==
    {t \in k.used : k.block[t] = obj /\ t \notin k.active}

\* sched_get_highest_priority_blocked(): the lowest table index among the
\* blocked tasks of the largest base priority, -1 when there is none.
HighestPriorityBlocked(k, obj) ==
    LET B == BlockedOn(k, obj)
    IN  IF B = {} THEN -1
        ELSE CHOOSE t \in B : \A s \in B :
                 \/ k.base[t] > k.base[s]
                 \/ k.base[t] = k.base[s] /\ t <= s

\* sched_priv_unblock_all() and the update that its callers make with the
\* priority it returns, the largest base priority of the tasks it wakes.
UnblockAll(k, obj, u) ==
    LET S == BlockedOn(k, obj)
    IN  UpdateOnWake(AssertActive(k, S, u),
                     TopPriority([k EXCEPT !.prio = k.base], S))

\* signal_priv_activate()
SignalActivate(k, t) ==
    UpdateOnWake(AssertActive([k EXCEPT !.stopped = @ \ {t}], {t}, "SIGNAL"),
                 k.prio[t])

-----------------------------------------------------------------------------
\* The tasks task_context_switcher() may pick: one whose execute flag is set,
\* or the scheduler.
Dispatch(k) == k.exec \cup {0}

\* The states a privileged call or an interrupt may return in.
Return(k) ==
    IF k.pend
    THEN {[k EXCEPT !.pend = FALSE, !.current = c] : c \in Dispatch(k)}
    ELSE {k}
=============================================================================
