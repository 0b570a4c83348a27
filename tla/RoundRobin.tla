----------------------------- MODULE RoundRobin -----------------------------
(***************************************************************************)
(* The round robin of task_context_switcher() (task.c) among the tasks     *)
(* whose execute flag is set.                                              *)
(*                                                                         *)
(* SysTick counts down the time that is left of a task's slice.  A switch  *)
(* before the end of the slice saves what is left in rr_time, and the next *)
(* turn of the task gets no more than that.  The switcher goes through the *)
(* table, from the task after the running one, passes over tasks whose     *)
(* slice is used up, and ends at the scheduler (task 0) at the latest; it  *)
(* gives out new slices there, once every executing task has used its own. *)
(* FIFO tasks run without SysTick.                                         *)
(*                                                                         *)
(* The execute flags are set by the scheduler (Sched); here they change at *)
(* any time.  A slice is counted in units of which every turn uses one at  *)
(* least; zero stands for less than SYSTICK_MIN_CYCLES.                    *)
(***************************************************************************)
EXTENDS Integers, FiniteSetsExt

CONSTANTS
    TaskTotal,   \* CHILD_MAX
    Slice,       \* task_rr_reload
    Fifo,        \* tasks with TASK_FLAGS_IS_FIFO
    MaxNew       \* bound: new tasks in a behaviour

ASSUME RoundRobinAssumption ==
    /\ TaskTotal \in Nat /\ TaskTotal > 1
    /\ Slice \in Nat \ {0} /\ MaxNew \in Nat
    /\ Fifo \subseteq 1 .. TaskTotal - 1

VARIABLES
    current,  \* task_current
    exec,     \* tasks with TASK_FLAGS_EXEC
    rr_time,  \* what is left of each task's slice
    born      \* counter for the bound

vars == <<current, exec, rr_time, born>>

Task == 1 .. TaskTotal - 1

Init ==
    /\ current = 0
    /\ exec \in SUBSET Task
    /\ rr_time = [t \in 0 .. TaskTotal - 1 |-> Slice]
    /\ born = 0

-----------------------------------------------------------------------------
\* The tasks after c that the switcher would stop at.
Runnable(c, x, rr) == {t \in x : t > c /\ (rr[t] > 0 \/ t \in Fifo)}

\* Mutant: used slices are never renewed.
Reload_Never(x, rr) == rr
\* The slices after the switcher has come to the end of the table.
Reload(x, rr) ==
    LET rr0 == IF rr[0] = 0 THEN [rr EXCEPT ![0] = Slice] ELSE rr
    IN  IF \E t \in x : rr[t] > 0
        THEN rr0
        ELSE [t \in DOMAIN rr |-> IF t \in x THEN Slice ELSE rr0[t]]

\* task_context_switcher() with the execute flags x and the slices rr.
Switch(x, rr) ==
    LET S == Runnable(current, x, rr)
    IN  /\ current' = IF S = {} THEN 0 ELSE Min(S)
        /\ rr_time' = IF S = {} THEN Reload(x, rr) ELSE rr

\* SysTick: the slice of the running task is used up.
SysTick ==
    /\ current \notin Fifo
    /\ Switch(exec, [rr_time EXCEPT ![current] = 0])
    /\ UNCHANGED <<exec, born>>

\* task_priv_switch_context(), by the scheduler's loop, by a thread that goes
\* to sleep, or by an interrupt that wakes a thread of a larger priority: the
\* execute flags become x, and some of the slice has been used.
SwitchContext(x) ==
    /\ \E left \in 0 .. rr_time[current] :
        /\ left < rr_time[current] \/ left = 0
        /\ Switch(x, [rr_time EXCEPT ![current] = left])
    /\ exec' = x
    /\ UNCHANGED born

SchedulerLoop ==
    /\ current = 0
    /\ exec # {}
    /\ SwitchContext(exec)

Sleep ==
    /\ current # 0
    /\ \E x \in SUBSET Task : current \notin x /\ SwitchContext(x)

Preempt == \E x \in SUBSET Task : x # {} /\ SwitchContext(x)

\* A task of the running priority wakes: no switch.
WakeEqual ==
    /\ \E t \in Task \ exec : exec' = exec \cup {t}
    /\ UNCHANGED <<current, rr_time, born>>

\* task_priv_new_task() gives a whole slice to an entry that was free, whose
\* execute flag is therefore not set.
NewTask(t) ==
    /\ born < MaxNew
    /\ t \notin exec /\ t # current
    /\ rr_time' = [rr_time EXCEPT ![t] = Slice]
    /\ born' = born + 1
    /\ UNCHANGED <<current, exec>>

Next ==
    \/ SysTick \/ SchedulerLoop \/ Sleep \/ Preempt \/ WakeEqual
    \/ \E t \in Task : NewTask(t)

\* SysTick comes when the slice is over, and the scheduler's loop goes on.
Spec == Init /\ [][Next]_vars /\ WF_vars(SysTick) /\ WF_vars(SchedulerLoop)

-----------------------------------------------------------------------------
TypeOK ==
    /\ current \in 0 .. TaskTotal - 1
    /\ exec \subseteq Task
    /\ rr_time \in [0 .. TaskTotal - 1 -> 0 .. Slice]
    /\ born \in 0 .. MaxNew

\* "It is run as part of the round robin with all active tasks of the highest
\* priority": a task whose execute flag stays set gets the processor again and
\* again, and so does the scheduler, however the others come and go.
NoStarvation ==
    /\ \A t \in Task : <>[](t \in exec) => []<>(current = t)
    /\ []<>(current = 0)
=============================================================================
