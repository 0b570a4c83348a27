------------------------------- MODULE Timing -------------------------------
(***************************************************************************)
(* The microsecond timer and the sleepers (sched_timing.c, sleep.c,        *)
(* usleep.c).                                                              *)
(*                                                                         *)
(* A hardware timer counts a period of SCHED_TIMEVAL_SECONDS seconds and   *)
(* starts again; its overflow interrupt counts the periods.  A second      *)
(* compare register is meant to interrupt at the earliest wake time of the *)
(* current period.  The handlers stop the timer while they work.  A task   *)
(* that sleeps until a time of a later period is looked at again when that *)
(* period begins.                                                          *)
(*                                                                         *)
(* Times are counted in ticks.  The scheduler's part of a wake-up is in    *)
(* SchedTable; here a task is asleep or not.                               *)
(***************************************************************************)
EXTENDS Integers, FiniteSetsExt

CONSTANTS
    Thread,     \* the tasks that sleep
    Seconds,    \* SCHED_TIMEVAL_SECONDS: seconds in a period of the timer
    Second,     \* ticks in a second
    Margin,     \* how far ahead the compare register must be set: 40us
    USleeps,    \* arguments of usleep(), in ticks
    Sleeps,     \* arguments of sleep(), in seconds
    Deadlines,  \* deadlines of timed waits, in ticks from the time of the call
    LateIrq,    \* a timer interrupt may be pending during a privileged call
    Horizon     \* bound: the time at which the timer stops

ASSUME TimingAssumption ==
    /\ Seconds \in Nat \ {0} /\ Second \in Nat \ {0} /\ Margin \in Nat
    /\ USleeps \subseteq 1 .. Second /\ Sleeps \subseteq Nat \ {0}
    /\ Deadlines \subseteq Int
    /\ LateIrq \in BOOLEAN /\ Horizon \in Nat

VARIABLES
    counter,  \* sched_usecond_counter: the period
    tmr,      \* the timer
    oc,       \* its compare register for sleepers
    pending,  \* the timer's interrupts that have not been served
    wake,     \* sched_table[].wake: a period and a time in it
    asleep,   \* the tasks that are not active
    object,   \* sleepers that wait for something else, too
    due       \* history: the time a task has asked to be woken at, 0 if it has
              \* asked while an overflow was not yet counted

vars == <<counter, tmr, oc, pending, wake, asleep, object, due>>

Period  == Seconds * Second
NoMatch == Period + 1
INVALID == [sec |-> -1, usec |-> 0]  \* SCHED_TIMEVAL_SEC_INVALID

Init ==
    /\ counter = 0 /\ tmr = 0
    /\ oc = NoMatch
    /\ pending = {}
    /\ wake = [t \in Thread |-> INVALID]
    /\ asleep = {} /\ object = {}
    /\ due = [t \in Thread |-> 0]

\* The true time.
Now == (counter + IF "overflow" \in pending THEN 1 ELSE 0) * Period + tmr

-----------------------------------------------------------------------------
\* The hardware.  Without LateIrq an interrupt is served before the next tick
\* and before the next privileged call.
Irq == LateIrq \/ pending = {}

Tick ==
    /\ Now < Horizon
    /\ Irq
    /\ tmr' = (tmr + 1) % Period
    /\ tmr' = 0 => "overflow" \notin pending
    /\ pending' = pending \cup (IF tmr' = 0 THEN {"overflow"} ELSE {})
                          \cup (IF tmr' = oc THEN {"match"} ELSE {})
    /\ UNCHANGED <<counter, oc, wake, asleep, object, due>>

\* Mutant: wake times of earlier periods are overlooked.
Expired_ThisPeriod(n) ==
    {t \in asleep : wake[t].sec = n /\ wake[t].usec <= tmr}
\* Mutant: every wake time of the period has come.
Expired_WholePeriod(n) ==
    {t \in asleep : wake[t] # INVALID /\ wake[t].sec <= n}
\* The sleepers whose time has come in period n.
Expired(n) ==
    {t \in asleep : /\ wake[t] # INVALID
                    /\ \/ wake[t].sec < n
                       \/ wake[t].sec = n /\ wake[t].usec <= tmr}

\* The first wake time left in period n.
NextMatch(n) ==
    LET U == {wake[t].usec : t \in {s \in asleep \ Expired(n) : wake[s].sec = n}}
        V == {u \in U : u < Period}
    IN  IF V = {} THEN NoMatch ELSE Min(V)

\* priv_usecond_match_event()
Serve(n) ==
    /\ asleep' = asleep \ Expired(n)
    /\ object' = object \ Expired(n)
    /\ wake' = [t \in Thread |-> IF t \in Expired(n) THEN INVALID ELSE wake[t]]
    /\ oc' = NextMatch(n)
    /\ UNCHANGED <<tmr, due>>

MatchEvent ==
    /\ "match" \in pending
    /\ pending' = pending \ {"match"}
    /\ Serve(counter)
    /\ UNCHANGED counter

\* usecond_overflow_event()
OverflowEvent ==
    /\ "overflow" \in pending
    /\ pending' = pending \ {"overflow"}
    /\ counter' = counter + 1
    /\ Serve(counter + 1)

-----------------------------------------------------------------------------
\* Mutant: the compare register is set to the new time even if a sleeper is due
\* earlier.
NewMatch_Overwrite(u) == u
NewMatch(u) == Min({oc, u})

\* sched_priv_timedblock() of task t; obj says whether there is an object to
\* block on.
TimedBlock(t, obj, sec, usec) ==
    LET this  == sec = counter
        ahead == usec > tmr + Margin
        sleep == sec >= counter /\ (this => ahead)
    IN  /\ wake' = IF sec >= counter
                   THEN [wake EXCEPT ![t] = [sec |-> sec, usec |-> usec]] ELSE wake
        /\ oc' = IF this /\ ahead THEN NewMatch(usec) ELSE oc
        /\ IF ~obj /\ ~sleep
           THEN UNCHANGED <<asleep, object>>
           ELSE /\ asleep' = asleep \cup {t}
                /\ object' = IF obj THEN object \cup {t} ELSE object
        /\ UNCHANGED <<counter, tmr, pending>>

\* History: task t asks for time d.
Ask(t, d) == due' = [due EXCEPT ![t] = IF "overflow" \in pending THEN 0 ELSE d]

\* Mutant: a time after the end of the period stays in it.
SleepFor_NoCarry(t, sec, usec) ==
    TimedBlock(t, FALSE, counter + sec, tmr + usec)
\* An interval from now on; a time after the end of the period is moved to the
\* next one.
SleepFor(t, sec, usec) ==
    LET u == tmr + usec
    IN  IF u > Period
        THEN TimedBlock(t, FALSE, counter + sec + 1, u - Period)
        ELSE TimedBlock(t, FALSE, counter + sec, u)

USleep(t, d) ==
    /\ Irq /\ t \notin asleep
    /\ Now + d <= Horizon
    /\ SleepFor(t, 0, d)
    /\ Ask(t, Now + d)

\* sleep(): the seconds beyond whole periods are taken for microseconds.
Sleep(t, s) ==
    /\ Irq /\ t \notin asleep
    /\ Now + s * Second <= Horizon
    /\ IF s < Seconds THEN SleepFor(t, 0, s * Second)
                      ELSE SleepFor(t, s \div Seconds, s % Seconds)
    /\ Ask(t, Now + s * Second)

\* The timed forms of waits: a deadline and an object.
TimedWait(t, d) ==
    LET abs == Now + d
    IN  /\ Irq /\ t \notin asleep
        /\ abs \in 0 .. Horizon
        /\ TimedBlock(t, TRUE, abs \div Period, abs % Period)
        /\ Ask(t, abs)

\* sched_priv_assert_active() of a waiter whose object has come.
Unblock(t) ==
    /\ Irq
    /\ t \in asleep \cap object
    /\ asleep' = asleep \ {t} /\ object' = object \ {t}
    /\ wake' = [wake EXCEPT ![t] = INVALID]
    /\ UNCHANGED <<counter, tmr, oc, pending, due>>

-----------------------------------------------------------------------------
Next ==
    \/ Tick \/ MatchEvent \/ OverflowEvent
    \/ \E t \in Thread :
          \/ \E d \in USleeps : USleep(t, d)
          \/ \E s \in Sleeps : Sleep(t, s)
          \/ \E d \in Deadlines : TimedWait(t, d)
          \/ Unblock(t)

Spec == Init /\ [][Next]_vars

\* Time passes, and interrupts are served.
FairSpec == Spec /\ WF_vars(Tick) /\ WF_vars(MatchEvent) /\ WF_vars(OverflowEvent)

-----------------------------------------------------------------------------
TypeOK ==
    /\ counter \in Nat /\ tmr \in 0 .. Period - 1
    /\ oc \in 0 .. NoMatch
    /\ pending \subseteq {"match", "overflow"}
    /\ wake \in [Thread -> [sec : {-1} \cup Nat, usec : 0 .. Period]]
    /\ object \subseteq asleep /\ asleep \subseteq Thread
    /\ due \in [Thread -> 0 .. Horizon]

\* The timer's compare register never misses a sleeper: one whose time lies in
\* the current period is due at or after the next compare match or overflow,
\* or an interrupt is pending that will look at it.
MatchCoversSleepers ==
    \A t \in asleep :
        \/ pending # {}
        \/ wake[t].sec > counter
        \/ /\ wake[t].sec = counter
           /\ wake[t].usec >= Period \/ (tmr < oc /\ oc <= wake[t].usec)

\* No task is woken by the timer before the time it has asked for, unless it
\* asked while an overflow interrupt was pending: then sched_usecond_counter
\* and the timer do not belong together.
NoEarlyWake ==
    [][\A t \in asleep \ asleep' :
          MatchEvent \/ OverflowEvent => Now >= due[t]]_vars

\* Every sleeper is woken (priv_usecond_match_event()); the threads are
\* interchangeable, so that one stands for all.
SleepersWake ==
    LET t == CHOOSE t \in Thread : TRUE IN t \in asleep ~> t \notin asleep
=============================================================================
