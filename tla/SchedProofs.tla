---------------------------- MODULE SchedProofs -----------------------------
(***************************************************************************)
(* Proofs about the scheduler.  What holds whatever signals do is proved   *)
(* from TableInv; SchedInv is what the scheduler keeps in addition until a *)
(* signal goes astray.                                                     *)
(***************************************************************************)
EXTENDS Sched, SchedTableProofs, FiniteSetTheorems

-----------------------------------------------------------------------------
CountInv ==
    \A t \in Task : inc[t] <= births + 1

\* The inductive invariant of all behaviours: only tasks that are ready are
\* executed, only tasks that sleep wait for a time or an object, and an entry is
\* free when no thread is in it.
TableInv ==
    /\ TypeOK
    /\ CountInv
    /\ Runs(k)
    /\ k.stopped = {}
    /\ k.timed \subseteq k.used \ k.active
    /\ \A t \in Task : k.block[t] # NULL => t \in k.used \ k.active
    /\ \A t \in Task : pc[t] = "none" <=> t \notin k.used
    /\ \A t \in Task : pc[t] \in {"activate", "signal"} => target[t] \in Task

\* The thread that makes a call is active and blocked on nothing.
LEMMA Awake ==
    ASSUME TableInv, NEW c \in Task, k.current = c
    PROVE  /\ k \in Kernel /\ Runs(k) /\ k.exec \subseteq Ready(k)
           /\ c \in k.active /\ c \notin k.timed /\ k.block[c] = NULL
           /\ c \in k.used <=> pc[c] # "none"
  <1>1. Runs(k) /\ k.current # 0
    BY TableAssumption DEF TableInv, Task
  <1>2. QED
    BY <1>1 DEF TableInv, Runs

\* A privileged call that leaves the table K2 behind keeps the invariant's
\* scheduling part.
LEMMA PrivReturn ==
    ASSUME NEW K2 \in Kernel, IsTop(K2), k' \in Return(K2),
           K2.pend \/ K2.current \in K2.exec \cup {0}
    PROVE  /\ k' \in Kernel
           /\ k'.pend = FALSE
           /\ IsTop(k')
           /\ k'.current \in k'.exec \cup {0}
           /\ k'.used = K2.used /\ k'.inuse = K2.inuse
           /\ k'.active = K2.active /\ k'.stopped = K2.stopped
           /\ k'.timed = K2.timed /\ k'.block = K2.block
           /\ k'.unblock = K2.unblock
  BY ReturnTop DEF Entries

\* ... or it puts the running task to sleep.
LEMMA SleepReturn ==
    ASSUME NEW K1 \in Kernel, K1.exec \subseteq Ready(K1) \cup {K1.current},
           k' \in Return(UpdateOnSleep(K1))
    PROVE  /\ k' \in Kernel
           /\ k'.pend = FALSE
           /\ IsTop(k')
           /\ k'.current \in k'.exec \cup {0}
           /\ k'.used = K1.used /\ k'.inuse = K1.inuse
           /\ k'.active = K1.active \ {K1.current} /\ k'.stopped = K1.stopped
           /\ k'.timed = K1.timed /\ k'.block = K1.block
           /\ k'.unblock = K1.unblock
           /\ Runs(k')
  <1> DEFINE K2 == UpdateOnSleep(K1)
             D  == DeassertActive(K1, K1.current)
  <1>1. /\ K2 \in Kernel /\ IsTop(K2) /\ K2.pend
        /\ Entries(K2) = Entries(D)
    BY UpdateOnSleepTop
  <1>2. /\ D.used = K1.used /\ D.inuse = K1.inuse /\ D.stopped = K1.stopped
        /\ D.active = K1.active \ {K1.current}
        /\ D.timed = K1.timed /\ D.block = K1.block /\ D.unblock = K1.unblock
    BY DEF DeassertActive, Kernel
  <1>3. k' \in Return(K2)
    OBVIOUS
  <1> HIDE DEF K2, D
  <1>4. QED
    <2>1. /\ k' \in Kernel /\ IsTop(k') /\ k'.current \in k'.exec \cup {0}
          /\ k'.pend = FALSE
          /\ k'.used = K2.used /\ k'.inuse = K2.inuse
          /\ k'.active = K2.active /\ k'.stopped = K2.stopped
          /\ k'.timed = K2.timed /\ k'.block = K2.block
          /\ k'.unblock = K2.unblock
      BY <1>1, <1>3, PrivReturn
    <2>2. Runs(k')
      BY <2>1 DEF Runs, IsTop, Ready
    <2>3. QED
      BY <1>1, <1>2, <2>1, <2>2 DEF Entries

-----------------------------------------------------------------------------
\* What a step does to a thread's entry: nothing, or it wakes it, or it puts it
\* to sleep on obj.
Still(t)     == /\ t \in k'.active <=> t \in k.active
                /\ t \in k'.timed <=> t \in k.timed
                /\ k'.block[t] = k.block[t] /\ k'.unblock[t] = k.unblock[t]
Up(t, u)     == /\ t \in k'.active /\ t \notin k'.timed
                /\ k'.block[t] = NULL /\ k'.unblock[t] = u
Down(t, obj) == t \notin k'.active /\ k'.block[t] = obj

SameUse == k'.used = k.used /\ k'.inuse = k.inuse

\* The table is one that tasks are executed from.
Kept == Runs(k') /\ k'.stopped = {}

LEMMA WakeEntries ==
    ASSUME NEW K \in Kernel, NEW p \in NoPriority .. HighestPriority,
           NEW R \in Return(UpdateOnWake(K, p))
    PROVE  Entries(R) = Entries(K)
  <1> DEFINE X == {t \in Ready(K) : K.prio[t] = p}
             U == UpdateOnWake(K, p)
  <1>1. Entries(U) = Entries(K) /\ U \in Kernel
    <2>1. U = K \/ U = [K EXCEPT !.cur = p, !.exec = X, !.pend = @ \/ p > K.cur]
      BY DEF UpdateOnWake
    <2>2. U \in Kernel
      BY UpdateOnWakeKernel
    <2> HIDE DEF X, U
    <2>3. QED
      BY <2>1, <2>2 DEF Entries, Kernel
  <1>2. R \in Return(U)
    OBVIOUS
  <1> HIDE DEF U
  <1>3. R = U \/ \E d : R = [U EXCEPT !.pend = FALSE, !.current = d]
    BY <1>2 DEF Return
  <1>4. QED
    BY <1>1, <1>3 DEF Entries, Kernel

\* Waking the tasks S.
LEMMA WokenTable ==
    ASSUME NEW K \in Kernel, K.active = k.active, K.timed = k.timed, K.block = k.block,
           K.unblock = k.unblock,
           NEW S \in SUBSET Task, NEW u \in UnblockType,
           NEW p \in NoPriority .. HighestPriority,
           k' \in Return(UpdateOnWake(AssertActive(K, S, u), p))
    PROVE  /\ k'.used = K.used /\ k'.inuse = K.inuse
           /\ \A t \in S : Up(t, u)
           /\ \A t \in Task \ S : Still(t)
           /\ Runs(K) /\ K.stopped = {} => Kept
  <1> DEFINE A == AssertActive(K, S, u)
  <1>1. A \in Kernel
    BY AssertActiveKernel
  <1>2. /\ A.used = K.used /\ A.inuse = K.inuse /\ A.active = k.active \cup S
        /\ A.timed = k.timed \ S
        /\ A.block = [t \in Task |-> IF t \in S THEN NULL ELSE k.block[t]]
        /\ A.unblock = [t \in Task |-> IF t \in S THEN u ELSE k.unblock[t]]
    BY <1>1 DEF AssertActive, Kernel
  <1> HIDE DEF A
  <1>3. Entries(k') = Entries(A)
    BY <1>1, WakeEntries DEF A
  <1>4. QED
    <2>1. Runs(K) => Runs(k') /\ k'.stopped = K.stopped
      BY WakeRuns
    <2>2. QED
      BY <1>2, <1>3, <2>1 DEF Entries, Up, Still, Kept

LEMMA EnvironmentTable ==
    ASSUME TableInv, SysTick \/ SchedulerLoop \/ TimerMatch
    PROVE  /\ SameUse /\ Kept
           /\ UNCHANGED <<pc, target, joinable, exit_status, inc, want, strayed, births, sent>>
           /\ \E S \in SUBSET (k.timed \ k.active) :
                 /\ \A t \in S : Up(t, "SLEEP")
                 /\ \A t \in Task \ S : Still(t)
  <1>0. k \in Kernel /\ Runs(k) /\ k.stopped = {}
        /\ UNCHANGED <<pc, target, joinable, exit_status, inc, want, strayed, births, sent>>
    BY DEF TableInv, Runs, SysTick, SchedulerLoop, TimerMatch
  <1>1. CASE SysTick \/ SchedulerLoop
    <2>1. k' \in Return(SwitchContext(k))
      BY <1>1 DEF SysTick, SchedulerLoop
    <2>2. \E d : k' = [SwitchContext(k) EXCEPT !.pend = FALSE, !.current = d]
      BY <1>0, <2>1 DEF Return, SwitchContext, Kernel
    <2>3. SameUse /\ \A t \in Task : Still(t)
      BY <1>0, <2>2 DEF SwitchContext, Kernel, SameUse, Still
    <2>5. Kept
      <3> DEFINE K2 == SwitchContext(k)
      <3>1. /\ K2 \in Kernel /\ K2.exec \subseteq Ready(K2) /\ K2.pend
            /\ K2.stopped = {}
        BY <1>0 DEF SwitchContext, Runs, Kernel, Ready
      <3>2. k' \in Return(K2)
        BY <2>1
      <3> HIDE DEF K2
      <3>3. QED
        BY <3>1, <3>2, ReturnRuns DEF Kept, Entries
    <2> DEFINE S == {}
    <2>4. /\ S \in SUBSET (k.timed \ k.active)
          /\ \A t \in S : Up(t, "SLEEP")
          /\ \A t \in Task \ S : Still(t)
      BY <2>3
    <2> HIDE DEF S
    <2>6. QED
      BY <1>0, <2>3, <2>4, <2>5
  <1>2. CASE TimerMatch
    <2>1. PICK S \in SUBSET Sleepers(k) : k' \in Return(MatchEvent(k, S))
      BY <1>2 DEF TimerMatch
    <2>2. S \in SUBSET Task /\ S \in SUBSET (k.timed \ k.active)
      BY <1>0 DEF Sleepers, Kernel
    <2>3. TopPriority(k, S) \in NoPriority .. HighestPriority /\ "SLEEP" \in UnblockType
      BY <1>0, <2>2, TopPriorityRange DEF UnblockType
    <2>4. /\ k'.used = k.used /\ k'.inuse = k.inuse
          /\ \A t \in S : Up(t, "SLEEP")
          /\ \A t \in Task \ S : Still(t)
          /\ Kept
      BY <1>0, <2>1, <2>2, <2>3, WokenTable DEF MatchEvent
    <2>5. QED
      BY <1>0, <2>2, <2>4 DEF SameUse
  <1>3. QED
    BY <1>1, <1>2

LEMMA NewTaskTable ==
    ASSUME TableInv, NEW c \in Task, NewTask(c)
    PROVE  \E i \in Task \ k.used :
              /\ i # c /\ Kept
              /\ k'.used = k.used \cup {i} /\ k'.inuse = k.inuse
              /\ \A t \in Task : Still(t)
              /\ target' = [target EXCEPT ![c] = i] /\ inc' = [inc EXCEPT ![i] = @ + 1]
              /\ pc' = [pc EXCEPT ![c] = "activate", ![i] = "run"]
              /\ UNCHANGED <<joinable, exit_status, want, strayed, sent>>
  <1>1. k \in Kernel /\ Runs(k) /\ c \in k.used /\ k.stopped = {}
    BY Awake DEF NewTask, At, TableInv
  <1>2. PICK i \in FreeTasks(k) :
        /\ k' = [k EXCEPT !.used = @ \cup {i}, !.fifo = @ \ {i}]
        /\ target' = [target EXCEPT ![c] = i]
        /\ inc' = [inc EXCEPT ![i] = @ + 1]
        /\ pc' = [pc EXCEPT ![c] = "activate", ![i] = "run"]
    BY DEF NewTask
  <1>3. i \in Task \ k.used /\ i # c
    BY <1>1 DEF FreeTasks
  <1>4. k'.used = k.used \cup {i} /\ k'.inuse = k.inuse /\ \A t \in Task : Still(t)
    BY <1>1, <1>2 DEF Kernel, Still
  <1>5. UNCHANGED <<joinable, exit_status, want, strayed, sent>>
    BY DEF NewTask
  <1>6. Kept
    BY <1>1, <1>2, <1>3 DEF Kept, Runs, Kernel, Ready
  <1>7. QED
    BY <1>2, <1>3, <1>4, <1>5, <1>6

LEMMA ActivateTable ==
    ASSUME TableInv, NEW c \in Task, Activate(c)
    PROVE  \E i \in Task :
              /\ i = target[c] /\ Kept
              /\ k'.used = k.used /\ k'.inuse = k.inuse \cup {i}
              /\ Up(i, "NONE") /\ \A t \in Task \ {i} : Still(t)
              /\ joinable' = joinable \cup {i} \/ joinable' = joinable \ {i}
              /\ exit_status' = [exit_status EXCEPT ![i] = 0]
              /\ target' = [target EXCEPT ![c] = 0] /\ Goto(c, "run")
              /\ UNCHANGED <<inc, want, strayed, births, sent>>
  <1> DEFINE i == target[c]
  <1>1. k \in Kernel /\ Runs(k) /\ k.stopped = {}
    BY Awake DEF Activate, At, TableInv
  <1>2. i \in Task
    BY DEF TableInv, Activate, At
  <1>3. PICK p \in Priority, fifo \in BOOLEAN :
           k' \in Return(UpdateOnWake(Activated(i, p, fifo), p))
    BY DEF Activate
  <1>4. /\ joinable' = joinable \cup {i} \/ joinable' = joinable \ {i}
        /\ exit_status' = [exit_status EXCEPT ![i] = 0]
        /\ target' = [target EXCEPT ![c] = 0] /\ Goto(c, "run")
        /\ UNCHANGED <<inc, want, strayed, births, sent>>
    BY DEF Activate
  <1> DEFINE K == [k EXCEPT !.stopped = @ \ {i}, !.inuse = @ \cup {i},
                            !.prio[i] = p, !.base[i] = p,
                            !.fifo = IF fifo THEN @ \cup {i} ELSE @ \ {i}]
             S == {i}
  <1>5. k' \in Return(UpdateOnWake(AssertActive(K, S, "NONE"), p))
    BY <1>3 DEF Activated
  <1> HIDE DEF i
  <1>6. /\ K \in Kernel /\ K.active = k.active /\ K.timed = k.timed /\ K.block = k.block
        /\ K.unblock = k.unblock /\ K.used = k.used /\ K.inuse = k.inuse \cup {i}
        /\ Runs(K) /\ K.stopped = {}
    <2>1. PICK F \in SUBSET Task : F = IF fifo THEN k.fifo \cup {i} ELSE k.fifo \ {i}
      BY <1>1, <1>2 DEF Kernel
    <2>2. K = [k EXCEPT !.stopped = @ \ {i}, !.inuse = @ \cup {i},
                        !.prio[i] = p, !.base[i] = p, !.fifo = F]
      BY <1>1, <2>1 DEF Kernel
    <2> HIDE DEF K
    <2>3. K \in Kernel
      BY <1>1, <1>2, <2>2 DEF Kernel
    <2>4. QED
      BY <1>1, <2>2, <2>3 DEF Kernel, Runs, Ready
  <1> HIDE DEF K
  <1>7. S \in SUBSET Task /\ "NONE" \in UnblockType
    BY <1>2 DEF UnblockType
  <1>8. p \in NoPriority .. HighestPriority
    BY TableAssumption DEF Priority, NoPriority
  <1> HIDE DEF S
  <1>9. /\ k'.used = K.used /\ k'.inuse = K.inuse
        /\ \A t \in S : Up(t, "NONE")
        /\ \A t \in Task \ S : Still(t)
        /\ Kept
    BY <1>5, <1>6, <1>7, <1>8, WokenTable
  <1>10. Up(i, "NONE") /\ \A t \in Task \ {i} : Still(t)
    BY <1>9 DEF S
  <1>11. QED
    BY <1>2, <1>4, <1>6, <1>9, <1>10 DEF i

LEMMA SleepTable ==
    ASSUME TableInv, NEW c \in Task, Sleep(c), "near" \notin SleepKinds
    PROVE  /\ SameUse /\ Kept /\ Down(c, NULL) /\ \A t \in Task \ {c} : Still(t)
           /\ UNCHANGED <<pc, target, joinable, exit_status, inc, want, strayed, births, sent>>
  <1>1. /\ k \in Kernel /\ k.exec \subseteq Ready(k) /\ k.current = c /\ k.stopped = {}
    BY Awake DEF Sleep, At, TableInv
  <1>2. k' \in Return(TimedBlock(k, NULL, "future"))
    BY SchedAssumption DEF Sleep
  <1> DEFINE K1 == [k EXCEPT !.block[c] = NULL, !.timed = @ \cup {c}]
  <1>3. TimedBlock(k, NULL, "future") = UpdateOnSleep(K1)
    BY <1>1 DEF TimedBlock
  <1>4. /\ K1 \in Kernel /\ K1.used = k.used /\ K1.inuse = k.inuse /\ K1.active = k.active
        /\ K1.timed = k.timed \cup {c} /\ K1.current = c /\ K1.exec = k.exec
        /\ K1.stopped = k.stopped /\ K1.unblock = k.unblock
        /\ K1.block = [k.block EXCEPT ![c] = NULL] /\ k.block \in [Task -> Object]
    <2>1. NULL \in Object
      BY DEF NULL, Object, ObjectKind
    <2>2. QED
      BY <1>1, <2>1 DEF Kernel
  <1> HIDE DEF K1
  <1>5. K1.exec \subseteq Ready(K1) \cup {K1.current}
    BY <1>1, <1>4 DEF Ready
  <1>6. /\ k'.used = K1.used /\ k'.inuse = K1.inuse /\ k'.active = K1.active \ {c}
        /\ k'.timed = K1.timed /\ k'.block = K1.block /\ k'.unblock = K1.unblock
        /\ Runs(k') /\ k'.stopped = K1.stopped
    BY <1>2, <1>3, <1>4, <1>5, SleepReturn
  <1>7. SameUse /\ Kept /\ Down(c, NULL) /\ \A t \in Task \ {c} : Still(t)
    BY <1>1, <1>4, <1>6 DEF SameUse, Down, Still, Kept
  <1>8. QED
    BY <1>7 DEF Sleep

LEMMA SignalTable ==
    ASSUME TableInv, NEW c \in Task, SignalSend(c)
    PROVE  \E t \in Task :
              /\ t = target[c]
              /\ SameUse /\ Kept /\ Up(t, "SIGNAL") /\ \A s \in Task \ {t} : Still(s)
              /\ Goto(c, "run") /\ target' = [target EXCEPT ![c] = 0]
              /\ UNCHANGED <<joinable, exit_status, inc, want, births, sent>>
  <1> DEFINE t == target[c]
  <1>1. k \in Kernel /\ Runs(k) /\ k.stopped = {}
    BY DEF TableInv, Runs
  <1>0. t \in Task
    BY DEF TableInv, SignalSend, At
  <1> DEFINE K == [k EXCEPT !.stopped = @ \ {t}]
             S == {t}
  <1>2. k' \in Return(UpdateOnWake(AssertActive(K, S, "SIGNAL"), k.prio[t]))
    BY DEF SignalSend, SignalActivate
  <1>3. /\ K \in Kernel /\ K.active = k.active /\ K.timed = k.timed /\ K.block = k.block
        /\ K.unblock = k.unblock /\ K.used = k.used /\ K.inuse = k.inuse
        /\ Runs(K) /\ K.stopped = {}
    BY <1>1 DEF Kernel, Runs, Ready
  <1>4. S \in SUBSET Task /\ "SIGNAL" \in UnblockType
    BY <1>0 DEF UnblockType
  <1>5. k.prio[t] \in NoPriority .. HighestPriority
    BY <1>0, <1>1, TableAssumption DEF Kernel, Priority, NoPriority
  <1> HIDE DEF K, S
  <1>6. /\ k'.used = K.used /\ k'.inuse = K.inuse
        /\ \A s \in S : Up(s, "SIGNAL")
        /\ \A s \in Task \ S : Still(s)
        /\ Kept
    BY <1>2, <1>3, <1>4, <1>5, WokenTable
  <1>7. SameUse /\ Kept /\ Up(t, "SIGNAL") /\ \A s \in Task \ {t} : Still(s)
    BY <1>3, <1>6 DEF S, SameUse
  <1>8. QED
    BY <1>0, <1>7 DEF SignalSend

LEMMA WaitUnjoinedTable ==
    ASSUME TableInv, NEW c \in Task, WaitUnjoined(c)
    PROVE  /\ SameUse /\ Kept /\ Down(c, Self(c)) /\ \A t \in Task \ {c} : Still(t)
           /\ UNCHANGED <<pc, target, joinable, exit_status, inc, want, strayed, births, sent>>
  <1>1. /\ k \in Kernel /\ k.exec \subseteq Ready(k) /\ k.current = c /\ k.stopped = {}
        /\ c \notin k.timed
    BY Awake DEF WaitUnjoined, At, TableInv
  <1> DEFINE K1 == [k EXCEPT !.block[c] = Self(c)]
  <1>2. k' \in Return(UpdateOnSleep(K1))
    BY DEF WaitUnjoined
  <1>3. Self(c) \in Object
    BY TableAssumption DEF Self, Object, ObjectKind, Task
  <1>4. /\ K1 \in Kernel /\ K1.used = k.used /\ K1.inuse = k.inuse /\ K1.active = k.active
        /\ K1.timed = k.timed /\ K1.current = c /\ K1.exec = k.exec
        /\ K1.stopped = k.stopped /\ K1.unblock = k.unblock
        /\ K1.block = [k.block EXCEPT ![c] = Self(c)] /\ k.block \in [Task -> Object]
    BY <1>1, <1>3 DEF Kernel
  <1> HIDE DEF K1
  <1>5. K1.exec \subseteq Ready(K1) \cup {K1.current}
    BY <1>1, <1>4 DEF Ready
  <1>6. /\ k'.used = K1.used /\ k'.inuse = K1.inuse /\ k'.active = K1.active \ {c}
        /\ k'.timed = K1.timed /\ k'.block = K1.block /\ k'.unblock = K1.unblock
        /\ Runs(k') /\ k'.stopped = K1.stopped
    BY <1>2, <1>4, <1>5, SleepReturn
  <1>7. SameUse /\ Kept /\ Down(c, Self(c)) /\ \A t \in Task \ {c} : Still(t)
    BY <1>1, <1>4, <1>6 DEF SameUse, Down, Still, Kept
  <1>8. QED
    BY <1>7 DEF WaitUnjoined

\* Objects of joins are different things for different threads.
LEMMA JoinObjects ==
    /\ \A s, t \in Task : Tcb(s) = Tcb(t) => s = t
    /\ \A s, t \in Task : Tcb(s) # Self(t)
    /\ \A t \in Task : Tcb(t) # NULL /\ Self(t) # NULL /\ Tcb(t) \in Object
  BY TableAssumption DEF Tcb, Self, NULL, Object, ObjectKind, Task

LEMMA JoinBlockTable ==
    ASSUME TableInv, NEW c \in Task, JoinBlock(c)
    PROVE  LET t == target[c]
           IN  /\ t \in Task /\ t \in k.used
               /\ SameUse /\ Kept /\ Down(c, Tcb(t)) /\ c \notin k'.timed
               /\ \A s \in Task \ {c} :
                     IF s = t /\ k.block[t] = Self(t) THEN Up(s, "JOINED") ELSE Still(s)
               /\ Goto(c, "joining")
               /\ UNCHANGED <<target, joinable, exit_status, inc, want, strayed, births, sent>>
  <1> DEFINE t  == target[c]
             K0 == [k EXCEPT !.block[c] = Tcb(t)]
             S  == IF K0.block[t] = Self(t) THEN {t} ELSE {}
             K1 == IF K0.block[t] = Self(t) THEN AssertActive(K0, {t}, "JOINED")
                                            ELSE K0
  <1>1. /\ k \in Kernel /\ k.exec \subseteq Ready(k) /\ c \notin k.timed /\ k.stopped = {}
        /\ k.current = c /\ c \in k.active /\ k.block[c] = NULL /\ k.block \in [Task -> Object]
    BY Awake DEF JoinBlock, At, Kernel, TableInv
  <1>2. t \in Task /\ t \in k.used
    BY <1>1 DEF JoinBlock, Kernel
  <1>3. k' \in Return(UpdateOnSleep(K1))
    BY DEF JoinBlock, JoinThread
  <1>4. Goto(c, "joining") /\ UNCHANGED <<target, joinable, exit_status, inc, want, strayed, births, sent>>
    BY DEF JoinBlock
  <1> HIDE DEF t
  <1>5. /\ K0 \in Kernel /\ K0.used = k.used /\ K0.inuse = k.inuse /\ K0.active = k.active
        /\ K0.timed = k.timed /\ K0.current = c /\ K0.exec = k.exec
        /\ K0.stopped = k.stopped /\ K0.unblock = k.unblock
        /\ \A s \in Task : K0.block[s] = IF s = c THEN Tcb(t) ELSE k.block[s]
    BY <1>1, <1>2, JoinObjects DEF Kernel
  <1> HIDE DEF K0
  <1>6. K0.block[t] = Self(t) <=> t # c /\ k.block[t] = Self(t)
    BY <1>1, <1>2, <1>5, JoinObjects
  <1>7. /\ K1 \in Kernel /\ K1.used = k.used /\ K1.inuse = k.inuse
        /\ K1.active = k.active \cup S /\ K1.stopped = k.stopped
        /\ K1.timed = k.timed \ S /\ K1.current = c /\ K1.exec = k.exec
        /\ K1.stopped = k.stopped
        /\ \A s \in Task : K1.block[s] = IF s \in S THEN NULL ELSE K0.block[s]
        /\ \A s \in Task : K1.unblock[s] = IF s \in S THEN "JOINED" ELSE k.unblock[s]
    <2>1. CASE K0.block[t] = Self(t)
      <3>1. K1 = AssertActive(K0, S, "JOINED") /\ S = {t} /\ S \in SUBSET Task
        BY <1>2, <2>1
      <3>2. "JOINED" \in UnblockType
        BY DEF UnblockType
      <3> HIDE DEF K1, S
      <3>3. /\ K1 \in Kernel /\ K1.used = K0.used /\ K1.inuse = K0.inuse
            /\ K1.active = K0.active \cup S /\ K1.stopped = K0.stopped
            /\ K1.timed = K0.timed \ S /\ K1.current = K0.current /\ K1.exec = K0.exec
            /\ \A s \in Task : K1.block[s] = IF s \in S THEN NULL ELSE K0.block[s]
            /\ \A s \in Task : K1.unblock[s] = IF s \in S THEN "JOINED" ELSE K0.unblock[s]
        <4>1. K0 \in Kernel /\ S \in SUBSET Task /\ K1 = AssertActive(K0, S, "JOINED")
          BY <3>1, <1>5
        <4>2. K1 \in Kernel
          BY <3>2, <4>1, AssertActiveKernel
        <4>3. QED
          BY <4>1, <4>2 DEF AssertActive, Kernel
      <3>4. QED
        BY <3>3, <1>5
    <2>2. CASE K0.block[t] # Self(t)
      <3>1. K1 = K0 /\ S = {}
        BY <2>2
      <3> HIDE DEF K1, S
      <3>2. QED
        BY <3>1, <1>5
    <2>3. QED
      BY <2>1, <2>2
  <1>8. S = IF t # c /\ k.block[t] = Self(t) THEN {t} ELSE {}
    BY <1>6
  <1> HIDE DEF S, K1
  <1>9. K1.exec \subseteq Ready(K1) \cup {K1.current}
    BY <1>1, <1>7 DEF Ready
  <1>10. /\ k'.used = K1.used /\ k'.inuse = K1.inuse /\ k'.active = K1.active \ {c}
         /\ k'.timed = K1.timed /\ k'.block = K1.block /\ k'.unblock = K1.unblock
         /\ Runs(k') /\ k'.stopped = K1.stopped
    BY <1>3, <1>7, <1>9, SleepReturn
  <1>11. SameUse /\ Kept /\ Down(c, Tcb(t)) /\ c \notin k'.timed
    BY <1>1, <1>5, <1>7, <1>8, <1>10 DEF SameUse, Down, Kept
  <1>12. \A s \in Task \ {c} :
           IF s = t /\ k.block[t] = Self(t) THEN Up(s, "JOINED") ELSE Still(s)
    BY <1>5, <1>7, <1>8, <1>10 DEF Up, Still
  <1>13. QED
    BY <1>2, <1>4, <1>11, <1>12 DEF t

LEMMA CleanupTable ==
    ASSUME TableInv, NEW c \in Task, Cleanup(c)
    PROVE  /\ k'.used = k.used \ {c} /\ k'.inuse = k.inuse \ {c}
           /\ Kept /\ c \notin k'.active /\ c \notin k'.timed /\ k'.block[c] = NULL
           /\ c \notin Joiners(c)
           /\ \A t \in Task \ {c} :
                 IF t \in Joiners(c) THEN Up(t, "JOINED_COMPLETE") ELSE Still(t)
           /\ exit_status' = ExitStatus(c)
           /\ Goto(c, "none") /\ target' = [target EXCEPT ![c] = 0]
           /\ want' = [want EXCEPT ![c] = 0]
           /\ UNCHANGED <<joinable, inc, strayed, births, sent>>
  <1> DEFINE J  == Joiners(c)
             K0 == AssertActive(k, J, "JOINED_COMPLETE")
             K1 == [K0 EXCEPT !.active = @ \ {c}, !.stopped = @ \ {c},
                              !.inuse = @ \ {c}, !.unblock[c] = "NONE",
                              !.used = @ \ {c}, !.exec = @ \ {c}]
  <1>1. /\ k \in Kernel /\ k.exec \subseteq Ready(k) /\ k.current = c /\ k.block[c] = NULL
        /\ k.stopped = {} /\ c \notin k.timed
    BY Awake DEF Cleanup, At, TableInv
  <1>2. k' \in Return(UpdateOnSleep(K1))
    BY DEF Cleanup, Deleted
  <1>3. J \subseteq Task /\ c \notin J
    BY <1>1, JoinObjects DEF Joiners
  <1>4. J = Joiners(c)
    OBVIOUS
  <1> HIDE DEF J
  <1>5. /\ K0 \in Kernel /\ K0.used = k.used /\ K0.inuse = k.inuse
        /\ K0.active = k.active \cup J /\ K0.timed = k.timed \ J
        /\ K0.current = c /\ K0.exec = k.exec /\ K0.stopped = k.stopped
        /\ K0.block = [t \in Task |-> IF t \in J THEN NULL ELSE k.block[t]]
        /\ K0.unblock = [t \in Task |-> IF t \in J THEN "JOINED_COMPLETE" ELSE k.unblock[t]]
    <2>1. K0 \in Kernel
      BY <1>1, <1>3, AssertActiveKernel DEF UnblockType
    <2>2. QED
      BY <1>1, <2>1 DEF AssertActive, Kernel
  <1> HIDE DEF K0
  <1>6. /\ K1 \in Kernel /\ K1.used = k.used \ {c} /\ K1.inuse = k.inuse \ {c}
        /\ K1.active = (k.active \cup J) \ {c} /\ K1.stopped = k.stopped \ {c}
        /\ K1.timed = k.timed \ J /\ K1.current = c /\ K1.exec = k.exec \ {c}
        /\ K1.block = K0.block
        /\ \A t \in Task \ {c} : K1.unblock[t] = K0.unblock[t]
    BY ZenonT(60), <1>5 DEF Kernel, UnblockType
  <1> HIDE DEF K1
  <1>7. K1.exec \subseteq Ready(K1) \cup {K1.current}
    BY <1>1, <1>6 DEF Ready
  <1>8. /\ k'.used = K1.used /\ k'.inuse = K1.inuse /\ k'.active = K1.active \ {c}
        /\ k'.timed = K1.timed /\ k'.block = K1.block /\ k'.unblock = K1.unblock
        /\ Runs(k') /\ k'.stopped = K1.stopped
    BY <1>2, <1>6, <1>7, SleepReturn
  <1>9. /\ k'.used = k.used \ {c} /\ k'.inuse = k.inuse \ {c}
        /\ Kept /\ c \notin k'.active /\ c \notin k'.timed /\ k'.block[c] = NULL
    BY <1>1, <1>3, <1>5, <1>6, <1>8 DEF Kept
  <1>10. \A t \in Task \ {c} : IF t \in J THEN Up(t, "JOINED_COMPLETE") ELSE Still(t)
    BY <1>3, <1>5, <1>6, <1>8 DEF Up, Still
  <1>11. QED
    BY <1>3, <1>4, <1>9, <1>10 DEF Cleanup
-----------------------------------------------------------------------------
LEMMA InitTableInv == Init => TableInv
  <1> SUFFICES ASSUME Init PROVE TableInv
    OBVIOUS
  <1>1. PICK p \in Priority :
        k = [used |-> {1}, exec |-> {1}, fifo |-> {}, inuse |-> {1},
             active |-> {1}, stopped |-> {}, timed |-> {},
             prio |-> [t \in Task |-> IF t = 1 THEN p ELSE 0],
             base |-> [t \in Task |-> IF t = 1 THEN p ELSE 0],
             block |-> [t \in Task |-> NULL],
             unblock |-> [t \in Task |-> "NONE"],
             cur |-> p, current |-> 0, pend |-> FALSE]
    BY DEF Init
  <1>2. 1 \in Task /\ 0 \in Priority /\ NULL \in Object /\ "NONE" \in UnblockType
        /\ p \in NoPriority .. HighestPriority /\ 0 \in 0 .. TaskTotal - 1
    BY TableAssumption
       DEF Task, Priority, NULL, Object, ObjectKind, UnblockType, NoPriority
  <1>3. k \in Kernel
    BY <1>1, <1>2 DEF Kernel
  <1>4. Runs(k)
    BY <1>1, <1>2, <1>3 DEF Runs, Ready
  <1>5. TypeOK
    <2>1. strayed \in BOOLEAN
      BY DEF Init
    <2>2. QED
      BY <1>2, <1>3, <2>1, SchedAssumption DEF Init, TypeOK, PC
  <1>6. CountInv
    BY DEF Init, CountInv
  <1>7. \A t \in Task : pc[t] \in {"run", "none"} /\ (pc[t] = "none" <=> t \notin k.used)
    BY <1>1 DEF Init
  <1>8. QED
    BY <1>1, <1>4, <1>5, <1>6, <1>7 DEF TableInv

\* The part of the invariant that is about the table alone.
LEMMA SleepersKept ==
    ASSUME TableInv, k.used \subseteq k'.used, k'.timed \subseteq Task,
           NEW c \in Task, c \in k'.used,
           \A t \in Task : \/ Still(t)
                           \/ \E u : Up(t, u)
                           \/ t = c /\ \E obj : Down(t, obj)
    PROVE  /\ k'.timed \subseteq k'.used \ k'.active
           /\ \A t \in Task : k'.block[t] # NULL => t \in k'.used \ k'.active
  <1>1. ASSUME NEW t \in Task
        PROVE  /\ t \in k'.timed => t \in k'.used \ k'.active
               /\ k'.block[t] # NULL => t \in k'.used \ k'.active
    <2>1. CASE Still(t)
      BY <2>1 DEF Still, TableInv
    <2>2. CASE \E u : Up(t, u)
      BY <2>2 DEF Up
    <2>3. CASE t = c /\ \E obj : Down(t, obj)
      BY <2>3 DEF Down
    <2>4. QED
      BY <2>1, <2>2, <2>3
  <1>2. QED
    BY <1>1

\* Interrupts.
LEMMA EnvironmentKept ==
    ASSUME TableInv, SysTick \/ SchedulerLoop \/ TimerMatch PROVE TableInv'
  <1>1. /\ SameUse /\ Kept
        /\ UNCHANGED <<pc, target, joinable, exit_status, inc, want, strayed, births, sent>>
    BY EnvironmentTable
  <1>2. PICK S \in SUBSET (k.timed \ k.active) :
           /\ \A t \in S : Up(t, "SLEEP")
           /\ \A t \in Task \ S : Still(t)
    BY EnvironmentTable
  <1>3. /\ k'.timed \subseteq k'.used \ k'.active
        /\ \A t \in Task : k'.block[t] # NULL => t \in k'.used \ k'.active
    <2>1. ASSUME NEW t \in Task
          PROVE  /\ t \in k'.timed => t \in k'.used \ k'.active
                 /\ k'.block[t] # NULL => t \in k'.used \ k'.active
      <3>1. CASE t \in S
        BY <1>2, <3>1 DEF Up
      <3>2. CASE t \notin S
        BY <1>1, <1>2, <3>2 DEF Still, TableInv, SameUse
      <3>3. QED
        BY <3>1, <3>2
    <2>2. k'.timed \subseteq Task
      BY <1>1 DEF Kept, Runs, Kernel
    <2>3. QED
      BY <2>1, <2>2
  <1>4. QED
    BY <1>1, <1>3 DEF TableInv, TypeOK, CountInv, Kept, Runs, SameUse

LEMMA NewTaskKept ==
    ASSUME TableInv, NEW c \in Task, NewTask(c) PROVE TableInv'
  <1>1. PICK i \in Task \ k.used :
              /\ i # c /\ Kept
              /\ k'.used = k.used \cup {i} /\ k'.inuse = k.inuse
              /\ \A t \in Task : Still(t)
              /\ target' = [target EXCEPT ![c] = i] /\ inc' = [inc EXCEPT ![i] = @ + 1]
              /\ pc' = [pc EXCEPT ![c] = "activate", ![i] = "run"]
              /\ UNCHANGED <<joinable, exit_status, want, strayed, sent>>
    BY NewTaskTable
  <1>2. /\ pc \in [Task -> PC] /\ target \in [Task -> 0 .. TaskTotal - 1]
        /\ inc \in [Task -> 0 .. MaxBirths + 1] /\ births \in 0 .. MaxBirths
        /\ births < MaxBirths /\ births' = births + 1
        /\ c \in k.used /\ pc[c] = "run"
    BY Awake DEF NewTask, TableInv, TypeOK, At
  <1>3. i \in 0 .. TaskTotal - 1
    BY TableAssumption DEF Task
  <1>4. inc' \in [Task -> 0 .. MaxBirths + 1] /\ CountInv' /\ births' \in 0 .. MaxBirths
    <2>1. inc[i] \in Nat /\ inc[i] <= births + 1
      BY <1>2 DEF TableInv, CountInv
    <2>2. inc' \in [Task -> 0 .. MaxBirths + 1] /\ births' \in 0 .. MaxBirths
      BY <1>1, <1>2, <2>1, SchedAssumption
    <2>3. \A t \in Task : inc'[t] <= births' + 1
      BY <1>1, <1>2, <2>1 DEF TableInv, CountInv
    <2>4. QED
      BY <2>2, <2>3 DEF CountInv
  <1>5. pc' \in [Task -> PC] /\ target' \in [Task -> 0 .. TaskTotal - 1]
    BY <1>1, <1>2, <1>3 DEF PC
  <1>6. /\ k'.timed \subseteq k'.used \ k'.active
        /\ \A t \in Task : k'.block[t] # NULL => t \in k'.used \ k'.active
    <2>1. k.used \subseteq k'.used /\ c \in k'.used /\ k'.timed \subseteq Task
      BY <1>1, <1>2 DEF Kept, Runs, Kernel
    <2>2. QED
      BY <1>1, <2>1, SleepersKept
  <1>7. \A t \in Task : pc'[t] = IF t = i THEN "run" ELSE IF t = c THEN "activate" ELSE pc[t]
    BY <1>1, <1>2
  <1>8. /\ \A t \in Task : pc'[t] = "none" <=> t \notin k'.used
        /\ \A t \in Task : pc'[t] \in {"activate", "signal"} => target'[t] \in Task
    BY <1>1, <1>2, <1>7 DEF TableInv
  <1>9. TypeOK'
    BY <1>1, <1>4, <1>5 DEF TableInv, TypeOK, Kept, Runs
  <1>10. QED
    BY <1>1, <1>4, <1>6, <1>8, <1>9 DEF TableInv, Kept

\* The other privileged calls of a thread, after which it is at the place l.
LEMMA MovedKept ==
    ASSUME TableInv, NEW c \in Task, k.current = c, pc[c] # "none",
           SameUse, Kept,
           \A t \in Task : \/ Still(t)
                           \/ \E u : Up(t, u)
                           \/ t = c /\ \E obj : Down(t, obj),
           NEW l \in PC \ {"none", "activate"}, pc' = [pc EXCEPT ![c] = l],
           NEW g \in 0 .. TaskTotal - 1, target' = [target EXCEPT ![c] = g],
           l = "signal" => g \in Task,
           joinable' \subseteq Task,
           exit_status' \in [Task -> 0 .. MaxBirths + 1],
           want' \in [Task -> 0 .. MaxBirths + 1],
           strayed' \in BOOLEAN, sent' \in 0 .. MaxSignals, UNCHANGED <<inc, births>>
    PROVE  TableInv'
  <1>1. /\ k'.timed \subseteq k'.used \ k'.active
        /\ \A t \in Task : k'.block[t] # NULL => t \in k'.used \ k'.active
    <2>1. k.used \subseteq k'.used /\ c \in k'.used /\ k'.timed \subseteq Task
      BY DEF TableInv, SameUse, Kept, Runs, Kernel
    <2>2. QED
      BY <2>1, SleepersKept
  <1>2. /\ \A t \in Task : pc'[t] = "none" <=> t \notin k'.used
        /\ \A t \in Task : pc'[t] \in {"activate", "signal"} => target'[t] \in Task
    BY DEF TableInv, TypeOK, SameUse
  <1>3. TypeOK'
    BY DEF TableInv, TypeOK, Kept, Runs
  <1>4. QED
    BY <1>1, <1>2, <1>3 DEF TableInv, CountInv, Kept

LEMMA CleanupKept ==
    ASSUME TableInv, NEW c \in Task, Cleanup(c) PROVE TableInv'
  <1>1. /\ k'.used = k.used \ {c} /\ k'.inuse = k.inuse \ {c}
        /\ Kept /\ c \notin k'.active /\ c \notin k'.timed /\ k'.block[c] = NULL
        /\ \A t \in Task \ {c} :
              IF t \in Joiners(c) THEN Up(t, "JOINED_COMPLETE") ELSE Still(t)
        /\ exit_status' = ExitStatus(c)
        /\ Goto(c, "none") /\ target' = [target EXCEPT ![c] = 0]
        /\ want' = [want EXCEPT ![c] = 0]
        /\ UNCHANGED <<joinable, inc, strayed, births, sent>>
    BY CleanupTable
  <1>2. ASSUME NEW t \in Task
        PROVE  /\ t \in k'.timed => t \in k'.used \ k'.active
               /\ k'.block[t] # NULL => t \in k'.used \ k'.active
    BY <1>1 DEF TableInv, Up, Still
  <1>3. /\ pc \in [Task -> PC] /\ pc' = [pc EXCEPT ![c] = "none"]
        /\ target \in [Task -> 0 .. TaskTotal - 1]
    BY <1>1 DEF Goto, TableInv, TypeOK
  <1>4. /\ \A t \in Task : pc'[t] = "none" <=> t \notin k'.used
        /\ \A t \in Task : pc'[t] \in {"activate", "signal"} => target'[t] \in Task
    BY <1>1, <1>3 DEF TableInv
  <1>5. exit_status' \in [Task -> 0 .. MaxBirths + 1]
    BY <1>1 DEF ExitStatus, TableInv, TypeOK
  <1>6. TypeOK'
    <2>1. strayed' \in BOOLEAN
      BY <1>1 DEF TableInv, TypeOK
    <2>2. /\ pc' \in [Task -> PC] /\ target' \in [Task -> 0 .. TaskTotal - 1]
          /\ want' \in [Task -> 0 .. MaxBirths + 1]
      BY <1>1, <1>3, TableAssumption, SchedAssumption DEF TableInv, TypeOK, PC
    <2>3. QED
      BY <1>1, <1>5, <2>1, <2>2 DEF TableInv, TypeOK, Kept, Runs
  <1>7. k'.timed \subseteq Task
    BY <1>1 DEF Kept, Runs, Kernel
  <1>8. QED
    BY <1>1, <1>2, <1>4, <1>6, <1>7 DEF TableInv, CountInv, Kept

\* No step breaks the invariant, as long as no thread sleeps until a time that
\* sched_priv_timedblock() stores without putting the thread to sleep.
LEMMA NextTableInv ==
    ASSUME "near" \notin SleepKinds
    PROVE  TableInv /\ [Next]_vars => TableInv'
  <1> SUFFICES ASSUME TableInv, [Next]_vars PROVE TableInv'
    OBVIOUS
  <1>0. /\ pc \in [Task -> PC] /\ target \in [Task -> 0 .. TaskTotal - 1]
        /\ joinable \subseteq Task /\ exit_status \in [Task -> 0 .. MaxBirths + 1]
        /\ inc \in [Task -> 0 .. MaxBirths + 1] /\ want \in [Task -> 0 .. MaxBirths + 1]
        /\ strayed \in BOOLEAN /\ sent \in 0 .. MaxSignals
        /\ 0 \in 0 .. TaskTotal - 1 /\ Task \subseteq 0 .. TaskTotal - 1
        /\ 0 \in 0 .. MaxBirths + 1 /\ Runs(k) /\ k.stopped = {}
    BY TableAssumption, SchedAssumption DEF TableInv, TypeOK, Task
  <1>1. CASE SysTick \/ SchedulerLoop \/ TimerMatch
    BY <1>1, EnvironmentKept
  <1>2. ASSUME NEW c \in Task, Activate(c) PROVE TableInv'
    <2>1. PICK i \in Task :
              /\ i = target[c] /\ Kept
              /\ k'.used = k.used /\ k'.inuse = k.inuse \cup {i}
              /\ Up(i, "NONE") /\ \A t \in Task \ {i} : Still(t)
              /\ joinable' = joinable \cup {i} \/ joinable' = joinable \ {i}
              /\ exit_status' = [exit_status EXCEPT ![i] = 0]
              /\ target' = [target EXCEPT ![c] = 0] /\ Goto(c, "run")
              /\ UNCHANGED <<inc, want, strayed, births, sent>>
      BY <1>2, ActivateTable
    <2>2. /\ pc' = [pc EXCEPT ![c] = "run"] /\ pc[c] = "activate" /\ k.current = c
          /\ joinable' \subseteq Task /\ exit_status' \in [Task -> 0 .. MaxBirths + 1]
      BY <1>0, <1>2, <2>1 DEF Goto, Activate, At
    <2>3. /\ \A t \in Task : pc'[t] = "none" <=> t \notin k'.used
          /\ \A t \in Task : pc'[t] \in {"activate", "signal"} => target'[t] \in Task
      BY <1>0, <2>1, <2>2 DEF TableInv
    <2>4. /\ k'.timed \subseteq k'.used \ k'.active
          /\ \A t \in Task : k'.block[t] # NULL => t \in k'.used \ k'.active
      <3>1. k.used \subseteq k'.used /\ c \in k'.used /\ k'.timed \subseteq Task
        BY <2>1, <2>2 DEF TableInv, Kept, Runs, Kernel
      <3>2. QED
        BY <2>1, <3>1, SleepersKept
    <2>5. TypeOK'
      BY <1>0, <2>1, <2>2 DEF TableInv, TypeOK, Kept, Runs, PC
    <2>6. QED
      BY <2>1, <2>3, <2>4, <2>5 DEF TableInv, CountInv, Kept
  <1>3. ASSUME NEW c \in Task, Sleep(c) \/ WaitUnjoined(c) PROVE TableInv'
    <2>1. /\ k.current = c /\ pc[c] \in {"run", "exit"}
          /\ SameUse /\ Kept /\ (\A t \in Task \ {c} : Still(t)) /\ \E obj : Down(c, obj)
          /\ UNCHANGED <<pc, target, joinable, exit_status, inc, want, strayed, births, sent>>
      BY <1>3, SleepTable, WaitUnjoinedTable DEF Sleep, WaitUnjoined, At
    <2>2. pc' = [pc EXCEPT ![c] = pc[c]] /\ target' = [target EXCEPT ![c] = target[c]]
      BY <1>0, <2>1
    <2> DEFINE l == pc[c]
               g == target[c]
    <2>3. /\ l \in PC \ {"none", "activate"} /\ g \in 0 .. TaskTotal - 1
          /\ pc' = [pc EXCEPT ![c] = l] /\ target' = [target EXCEPT ![c] = g]
          /\ l # "signal"
      BY <1>0, <2>1, <2>2 DEF PC
    <2>4. /\ \A t \in Task : Still(t) \/ (\E u : Up(t, u)) \/ (t = c /\ \E obj : Down(t, obj))
          /\ pc[c] # "none" /\ strayed' \in BOOLEAN /\ sent' \in 0 .. MaxSignals
          /\ joinable' \subseteq Task /\ exit_status' \in [Task -> 0 .. MaxBirths + 1]
          /\ want' \in [Task -> 0 .. MaxBirths + 1]
      BY <1>0, <2>1
    <2> HIDE DEF l, g
    <2>5. QED
      BY <2>1, <2>3, <2>4, MovedKept
  <1>4. ASSUME NEW c \in Task, SignalSend(c) PROVE TableInv'
    <2>1. PICK t \in Task :
              /\ t = target[c]
              /\ SameUse /\ Kept /\ Up(t, "SIGNAL") /\ \A s \in Task \ {t} : Still(s)
              /\ Goto(c, "run") /\ target' = [target EXCEPT ![c] = 0]
              /\ UNCHANGED <<joinable, exit_status, inc, want, births, sent>>
      BY <1>4, SignalTable
    <2>2. /\ k.current = c /\ pc[c] = "signal" /\ strayed' \in BOOLEAN
          /\ pc' = [pc EXCEPT ![c] = "run"] /\ "run" \in PC \ {"none", "activate"}
      BY <1>4, <2>1 DEF SignalSend, At, Goto, PC
    <2>3. \A s \in Task : Still(s) \/ \E u : Up(s, u)
      BY <2>1
    <2>4. QED
      BY <1>0, <2>1, <2>2, <2>3, MovedKept
  <1>5. ASSUME NEW c \in Task, JoinBlock(c) PROVE TableInv'
    <2>1. /\ SameUse /\ Kept /\ Down(c, Tcb(target[c]))
          /\ \A s \in Task \ {c} : Still(s) \/ Up(s, "JOINED")
          /\ Goto(c, "joining")
          /\ UNCHANGED <<target, joinable, exit_status, inc, want, strayed, births, sent>>
      BY <1>5, JoinBlockTable
    <2>2. /\ k.current = c /\ pc[c] = "join" /\ pc[c] # "none" /\ "joining" # "signal"
          /\ pc' = [pc EXCEPT ![c] = "joining"] /\ "joining" \in PC \ {"none", "activate"}
      BY <1>5, <2>1 DEF JoinBlock, At, Goto, PC
    <2>3. \A s \in Task : Still(s) \/ (\E u : Up(s, u)) \/ (s = c /\ \E obj : Down(s, obj))
      BY <2>1
    <2> DEFINE g == target[c]
    <2>4. g \in 0 .. TaskTotal - 1 /\ target' = [target EXCEPT ![c] = g]
      BY <1>0, <2>1
    <2>5. /\ strayed' \in BOOLEAN /\ sent' \in 0 .. MaxSignals
          /\ joinable' \subseteq Task /\ exit_status' \in [Task -> 0 .. MaxBirths + 1]
          /\ want' \in [Task -> 0 .. MaxBirths + 1]
      BY <1>0, <2>1
    <2> HIDE DEF g
    <2>6. QED
      BY <2>1, <2>2, <2>3, <2>4, <2>5, MovedKept
  <1>6. ASSUME NEW c \in Task,
               \/ \E t \in Task : SignalCall(c, t) \/ JoinCall(c, t)
               \/ SignalRefused(c) \/ JoinGone(c) \/ JoinDone(c) \/ JoinRetry(c)
               \/ ThreadReturn(c) \/ WaitJoined(c)
        PROVE  TableInv'
    <2> USE DEF SignalCall, SignalRefused, JoinCall, JoinGone, JoinDone, JoinRetry,
                ThreadReturn, WaitJoined
    <2>1. /\ k' = k /\ k.current = c /\ pc[c] \notin {"none", "activate"}
          /\ UNCHANGED <<joinable, inc, strayed, births>>
      BY <1>6 DEF At
    <2>2. /\ sent' \in 0 .. MaxSignals /\ exit_status' \in [Task -> 0 .. MaxBirths + 1]
          /\ want' \in [Task -> 0 .. MaxBirths + 1]
      <3>1. sent' \in 0 .. MaxSignals
        BY <1>0, <1>6, SchedAssumption
      <3>2. exit_status' \in [Task -> 0 .. MaxBirths + 1]
        BY <1>0, <1>6
      <3>3. want' \in [Task -> 0 .. MaxBirths + 1]
        BY <1>0, <1>6
      <3>4. QED
        BY <3>1, <3>2, <3>3
    <2>3. PICK l \in PC \ {"none", "activate"}, g \in 0 .. TaskTotal - 1 :
             /\ pc' = [pc EXCEPT ![c] = l] /\ target' = [target EXCEPT ![c] = g]
             /\ l = "signal" => g \in Task
      <3>1. target = [target EXCEPT ![c] = target[c]] /\ target[c] \in 0 .. TaskTotal - 1
        BY <1>0
      <3>2. CASE \E t \in Task : SignalCall(c, t) \/ JoinCall(c, t)
        BY <1>0, <3>2 DEF Goto, PC
      <3>3. CASE SignalRefused(c) \/ JoinGone(c) \/ JoinDone(c)
        BY <1>0, <3>3 DEF Goto, PC
      <3>4. CASE JoinRetry(c) \/ ThreadReturn(c) \/ WaitJoined(c)
        BY <3>1, <3>4 DEF Goto, PC
      <3>5. QED
        BY <1>6, <3>2, <3>3, <3>4
    <2>4. SameUse /\ Kept /\ \A t \in Task : Still(t)
      BY <1>0, <2>1 DEF SameUse, Kept, Still
    <2>5. joinable' \subseteq Task /\ strayed' \in BOOLEAN
      BY <1>0, <2>1
    <2>6. QED
      BY <2>1, <2>2, <2>3, <2>4, <2>5, MovedKept
  <1>7. ASSUME NEW c \in Task, ThreadStep(c) PROVE TableInv'
    BY <1>2, <1>3, <1>4, <1>5, <1>6, <1>7, NewTaskKept, CleanupKept DEF ThreadStep
  <1>8. CASE UNCHANGED vars
    BY <1>8 DEF vars, TableInv, TypeOK, CountInv
  <1>9. QED
    BY <1>1, <1>7, <1>8 DEF Next

\* For any number of tasks, priorities, threads and signals, gone astray or not:
\* the scheduler's table stays well formed (sched_table, task_table).
THEOREM TypeCorrect ==
    ASSUME "near" \notin SleepKinds
    PROVE  Spec => []TypeOK
  <1>1. TableInv => TypeOK
    BY DEF TableInv
  <1>2. QED
    BY <1>1, InitTableInv, NextTableInv, PTL DEF Spec

-----------------------------------------------------------------------------
\* A thread that ends sleeps only to wait for a joiner, and is awake when it is
\* about to free its entry; a thread that sleeps for the end of another one is in
\* pthread_join(), without a time limit, and the other one is there and awake.
LinksInv ==
    /\ \A t \in Task : pc[t] = "exit" /\ t \notin k.active => k.block[t] = Self(t)
    /\ \A t \in Task : pc[t] = "cleanup" => t \in k.active
    /\ \A c, t \in Task : k.block[c] = Tcb(t) =>
          /\ pc[c] = "joining" /\ target[c] = t /\ c \notin k.timed
          /\ t \in k.used /\ (pc[t] = "exit" => t \in k.active)

\* Threads are woken or created.
LEMMA LinksWoken ==
    ASSUME TableInv, LinksInv, k.used \subseteq k'.used,
           NEW S \in SUBSET Task, NEW u, \A t \in S : Up(t, u), \A t \in Task \ S : Still(t),
           \A t \in Task : pc'[t] \in {pc[t], "run", "activate"},
           \A t \in Task : pc[t] = "joining" => pc'[t] = "joining" /\ target'[t] = target[t]
    PROVE  LinksInv'
  <1>1. \A t \in Task : pc'[t] = "exit" /\ t \notin k'.active => k'.block[t] = Self(t)
    BY DEF LinksInv, Up, Still
  <1>2. \A t \in Task : pc'[t] = "cleanup" => t \in k'.active
    BY DEF LinksInv, Up, Still
  <1>3. ASSUME NEW c \in Task, NEW t \in Task, k'.block[c] = Tcb(t)
        PROVE  /\ pc'[c] = "joining" /\ target'[c] = t /\ c \notin k'.timed
               /\ t \in k'.used /\ (pc'[t] = "exit" => t \in k'.active)
    <2>1. c \notin S /\ k.block[c] = Tcb(t)
      BY <1>3, JoinObjects DEF Up, Still
    <2>2. QED
      BY <2>1 DEF LinksInv, Up, Still
  <1>4. QED
    BY <1>1, <1>2, <1>3 DEF LinksInv, Self, Tcb

\* The running thread goes on outside the kernel.
LEMMA LinksQuiet ==
    ASSUME TableInv, LinksInv, NEW c \in Task, k.current = c, k' = k,
           NEW l \in PC \ {"none"}, Goto(c, l), NEW t, target' = [target EXCEPT ![c] = t]
    PROVE  LinksInv'
  <1>1. c \in k.active /\ k.block[c] = NULL
    BY Awake
  <1>2. \A s \in Task : s # c => pc'[s] = pc[s] /\ target'[s] = target[s]
    BY DEF Goto, TableInv, TypeOK
  <1>3. /\ \A s \in Task : pc'[s] = "exit" /\ s \notin k.active => k.block[s] = Self(s)
        /\ \A s \in Task : pc'[s] = "cleanup" => s \in k.active
    BY <1>1, <1>2 DEF LinksInv
  <1>4. \A d, s \in Task : k.block[d] = Tcb(s) =>
          /\ pc'[d] = "joining" /\ target'[d] = s /\ d \notin k.timed
          /\ s \in k.used /\ (pc'[s] = "exit" => s \in k.active)
    BY <1>1, <1>2, JoinObjects DEF LinksInv
  <1>5. QED
    BY <1>3, <1>4 DEF LinksInv, Self, Tcb

\* It sleeps, but not for the end of another one.
LEMMA LinksAsleep ==
    ASSUME TableInv, LinksInv, NEW c \in Task, SameUse, UNCHANGED <<pc, target>>,
           NEW obj, Down(c, obj), \A t \in Task \ {c} : Still(t),
           \A t \in Task : obj # Tcb(t),
           pc[c] # "cleanup", pc[c] = "exit" => obj = Self(c) /\ Joiners(c) = {}
    PROVE  LinksInv'
  <1>1. \A t \in Task : pc[t] = "exit" /\ t \notin k'.active => k'.block[t] = Self(t)
    BY DEF LinksInv, Down, Still
  <1>2. \A t \in Task : pc[t] = "cleanup" => t \in k'.active
    BY DEF LinksInv, Down, Still
  <1>3. ASSUME NEW d \in Task, NEW t \in Task, k'.block[d] = Tcb(t)
        PROVE  /\ pc[d] = "joining" /\ target[d] = t /\ d \notin k'.timed
               /\ t \in k.used /\ (pc[t] = "exit" => t \in k'.active)
    <2>1. d # c /\ k.block[d] = Tcb(t)
      BY <1>3 DEF Down, Still
    <2>2. t = c => pc[t] # "exit"
      BY <2>1 DEF Joiners
    <2>3. QED
      BY <2>1, <2>2 DEF LinksInv, Still
  <1>4. QED
    BY <1>1, <1>2, <1>3 DEF LinksInv, Self, Tcb, SameUse

LEMMA LinksJoinBlock ==
    ASSUME TableInv, LinksInv, NEW c \in Task, JoinBlock(c)
    PROVE  LinksInv'
  <1> DEFINE t == target[c]
  <1>1. /\ t \in Task /\ t \in k.used
        /\ SameUse /\ Down(c, Tcb(t)) /\ c \notin k'.timed
        /\ \A s \in Task \ {c} :
              IF s = t /\ k.block[t] = Self(t) THEN Up(s, "JOINED") ELSE Still(s)
        /\ Goto(c, "joining")
        /\ UNCHANGED target
    BY JoinBlockTable
  <1>2. pc' = [pc EXCEPT ![c] = "joining"] /\ pc \in [Task -> PC] /\ t = target[c]
    BY <1>1 DEF Goto, TableInv, TypeOK
  <1> HIDE DEF t
  <1>3. \A s \in Task : pc'[s] = "exit" => s # c /\ pc[s] = "exit"
    BY <1>2
  <1>4. \A s \in Task : pc'[s] = "exit" /\ s \notin k'.active => k'.block[s] = Self(s) /\ s # t
    <2> SUFFICES ASSUME NEW s \in Task, s # c, pc[s] = "exit", s \notin k'.active
                 PROVE  k'.block[s] = Self(s) /\ s # t
      BY <1>3
    <2>1. ~(s = t /\ k.block[t] = Self(t)) /\ Still(s)
      BY <1>1 DEF Up
    <2>2. k.block[s] = Self(s)
      BY <2>1 DEF LinksInv, Still
    <2>3. QED
      BY <2>1, <2>2 DEF Still
  <1>5. \A s \in Task : pc'[s] = "cleanup" => s \in k'.active
    BY <1>1, <1>2 DEF LinksInv, Up, Still
  <1>6. ASSUME NEW d \in Task, NEW s \in Task, k'.block[d] = Tcb(s)
        PROVE  /\ pc'[d] = "joining" /\ target'[d] = s /\ d \notin k'.timed
               /\ s \in k'.used /\ (pc'[s] = "exit" => s \in k'.active)
    <2>1. CASE d = c
      <3>1. s = t
        BY <1>1, <1>6, <2>1, JoinObjects DEF Down
      <3>2. QED
        BY <1>1, <1>2, <1>4, <2>1, <3>1 DEF SameUse
    <2>2. CASE d # c
      <3>1. Still(d) /\ k.block[d] = Tcb(s)
        BY <1>1, <1>6, <2>2, JoinObjects DEF Up, Still
      <3>2. /\ pc[d] = "joining" /\ target[d] = s /\ d \notin k.timed
            /\ s \in k.used /\ (pc[s] = "exit" => s \in k.active)
        BY <3>1 DEF LinksInv
      <3>3. pc'[s] = "exit" => s \in k'.active
        BY <1>1, <1>3, <3>2 DEF Up, Still
      <3>4. QED
        BY <1>1, <1>2, <2>2, <3>1, <3>2, <3>3 DEF SameUse, Still
    <2>3. QED
      BY <2>1, <2>2
  <1>7. QED
    BY <1>4, <1>5, <1>6 DEF LinksInv, Self, Tcb

LEMMA LinksCleanup ==
    ASSUME TableInv, LinksInv, NEW c \in Task, Cleanup(c)
    PROVE  LinksInv'
  <1>1. /\ k'.used = k.used \ {c} /\ k'.inuse = k.inuse \ {c}
        /\ c \notin k'.active /\ k'.block[c] = NULL
        /\ c \notin Joiners(c)
        /\ \A t \in Task \ {c} :
              IF t \in Joiners(c) THEN Up(t, "JOINED_COMPLETE") ELSE Still(t)
        /\ Goto(c, "none") /\ target' = [target EXCEPT ![c] = 0]
    BY CleanupTable
  <1>2. pc' = [pc EXCEPT ![c] = "none"] /\ pc \in [Task -> PC]
        /\ \A d \in Task \ {c} : target'[d] = target[d]
    BY <1>1 DEF Goto, TableInv, TypeOK
  <1>3. \A s \in Task : pc'[s] = "exit" /\ s \notin k'.active => k'.block[s] = Self(s)
    BY <1>1, <1>2 DEF LinksInv, Up, Still
  <1>4. \A s \in Task : pc'[s] = "cleanup" => s \in k'.active
    BY <1>1, <1>2 DEF LinksInv, Up, Still
  <1>5. ASSUME NEW d \in Task, NEW s \in Task, k'.block[d] = Tcb(s)
        PROVE  /\ pc'[d] = "joining" /\ target'[d] = s /\ d \notin k'.timed
               /\ s \in k'.used /\ (pc'[s] = "exit" => s \in k'.active)
    <2>1. d # c /\ d \notin Joiners(c) /\ Still(d)
      BY <1>1, <1>5, JoinObjects DEF Up
    <2>2. k.block[d] = Tcb(s) /\ s # c
      BY <1>5, <2>1 DEF Still, Joiners
    <2>3. pc'[s] = "exit" => s \in k'.active
      BY <1>1, <1>2, <2>2 DEF LinksInv, Up, Still
    <2>4. QED
      BY <1>1, <1>2, <2>1, <2>2, <2>3 DEF LinksInv, Still
  <1>6. QED
    BY <1>3, <1>4, <1>5 DEF LinksInv, Self, Tcb

LEMMA InitLinks == Init => LinksInv
  <1> SUFFICES ASSUME Init PROVE LinksInv
    OBVIOUS
  <1>1. k.used = {1} /\ pc = [t \in Task |-> IF t = 1 THEN "run" ELSE "none"]
        /\ k.block = [t \in Task |-> NULL]
    BY DEF Init
  <1>2. QED
    BY <1>1, JoinObjects DEF LinksInv

LEMMA NextLinks ==
    ASSUME "near" \notin SleepKinds, TableInv, LinksInv, [Next]_vars
    PROVE  LinksInv'
  <1>0. pc \in [Task -> PC] /\ target \in [Task -> 0 .. TaskTotal - 1]
    BY DEF TableInv, TypeOK
  <1>1. CASE SysTick \/ SchedulerLoop \/ TimerMatch
    <2>1. PICK S \in SUBSET (k.timed \ k.active) :
                 /\ \A t \in S : Up(t, "SLEEP")
                 /\ \A t \in Task \ S : Still(t)
      BY <1>1, EnvironmentTable
    <2>2. SameUse /\ UNCHANGED <<pc, target>> /\ S \in SUBSET Task
      BY <1>1, EnvironmentTable DEF TableInv, Runs, Kernel
    <2>3. QED
      BY <2>1, <2>2, LinksWoken DEF SameUse
  <1>2. ASSUME NEW c \in Task, NewTask(c) PROVE LinksInv'
    <2>1. PICK i \in Task \ k.used :
              /\ i # c /\ k'.used = k.used \cup {i}
              /\ \A t \in Task : Still(t)
              /\ target' = [target EXCEPT ![c] = i]
              /\ pc' = [pc EXCEPT ![c] = "activate", ![i] = "run"]
      BY <1>2, NewTaskTable
    <2>2. pc[c] = "run" /\ pc[i] = "none"
      BY <1>2, <2>1 DEF NewTask, At, TableInv
    <2>3. \A t \in Task : pc'[t] = IF t = i THEN "run" ELSE IF t = c THEN "activate" ELSE pc[t]
      BY <1>0, <2>1
    <2>4. \A t \in Task : t # c => target'[t] = target[t]
      BY <1>0, <2>1
    <2> DEFINE S == {}
    <2>6. S \in SUBSET Task /\ (\A t \in S : Up(t, "NONE")) /\ (\A t \in Task \ S : Still(t))
      BY <2>1
    <2> HIDE DEF S
    <2>7. k.used \subseteq k'.used
      BY <2>1
    <2>8. /\ \A t \in Task : pc'[t] \in {pc[t], "run", "activate"}
          /\ \A t \in Task : pc[t] = "joining" => pc'[t] = "joining" /\ target'[t] = target[t]
      BY <2>2, <2>3, <2>4
    <2>9. QED
      BY <2>6, <2>7, <2>8, LinksWoken
  <1>3. ASSUME NEW c \in Task, Activate(c) PROVE LinksInv'
    <2>1. PICK i \in Task :
              /\ k'.used = k.used
              /\ Up(i, "NONE") /\ \A t \in Task \ {i} : Still(t)
              /\ target' = [target EXCEPT ![c] = 0] /\ Goto(c, "run")
      BY <1>3, ActivateTable
    <2>2. pc[c] = "activate" /\ pc' = [pc EXCEPT ![c] = "run"]
      BY <1>3, <2>1 DEF Activate, At, Goto
    <2>3. {i} \in SUBSET Task /\ \A t \in {i} : Up(t, "NONE")
      BY <2>1
    <2>4. \A t \in Task : t # c => pc'[t] = pc[t] /\ target'[t] = target[t]
      BY <1>0, <2>1, <2>2
    <2>6. /\ \A t \in Task : pc'[t] \in {pc[t], "run", "activate"}
          /\ \A t \in Task : pc[t] = "joining" => pc'[t] = "joining" /\ target'[t] = target[t]
      BY <1>0, <2>2, <2>4
    <2>7. QED
      BY <2>1, <2>3, <2>6, LinksWoken
  <1>4. ASSUME NEW c \in Task, SignalSend(c) PROVE LinksInv'
    <2>1. PICK t \in Task :
             /\ SameUse /\ Up(t, "SIGNAL") /\ \A s \in Task \ {t} : Still(s)
             /\ Goto(c, "run") /\ target' = [target EXCEPT ![c] = 0]
      BY <1>4, SignalTable
    <2> DEFINE S == {t}
    <2>2. /\ S \in SUBSET Task /\ (\A s \in S : Up(s, "SIGNAL"))
          /\ \A s \in Task \ S : Still(s)
      BY <2>1
    <2> HIDE DEF S
    <2>3. pc[c] = "signal" /\ pc' = [pc EXCEPT ![c] = "run"]
      BY <1>4, <2>1 DEF SignalSend, At, Goto
    <2>4. /\ k.used \subseteq k'.used
          /\ \A s \in Task : pc'[s] \in {pc[s], "run", "activate"}
          /\ \A s \in Task : pc[s] = "joining" => pc'[s] = "joining" /\ target'[s] = target[s]
      BY <1>0, <2>1, <2>3 DEF SameUse
    <2>5. QED
      BY <2>2, <2>4, LinksWoken
  <1>5. ASSUME NEW c \in Task, Sleep(c) \/ WaitUnjoined(c) PROVE LinksInv'
    <2>1. CASE Sleep(c)
      <3>1. pc[c] = "run" /\ \A t \in Task : NULL # Tcb(t)
        BY <2>1, JoinObjects DEF Sleep, At
      <3>2. QED
        BY <2>1, <3>1, SleepTable, LinksAsleep
    <2>2. CASE WaitUnjoined(c)
      <3>1. pc[c] = "exit" /\ Joiners(c) = {} /\ \A t \in Task : Self(c) # Tcb(t)
        BY <2>2, JoinObjects DEF WaitUnjoined, At
      <3>2. QED
        BY <2>2, <3>1, WaitUnjoinedTable, LinksAsleep
    <2>3. QED
      BY <1>5, <2>1, <2>2
  <1>6. ASSUME NEW c \in Task,
               \/ \E t \in Task : SignalCall(c, t) \/ JoinCall(c, t)
               \/ SignalRefused(c) \/ JoinGone(c) \/ JoinDone(c) \/ JoinRetry(c)
               \/ ThreadReturn(c) \/ WaitJoined(c)
        PROVE  LinksInv'
    <2>1. k' = k /\ k.current = c
      BY <1>6 DEF SignalCall, SignalRefused, JoinCall, JoinGone, JoinDone, JoinRetry, ThreadReturn, WaitJoined, At
    <2>2. PICK l \in PC \ {"none"} : Goto(c, l)
      BY <1>6 DEF SignalCall, SignalRefused, JoinCall, JoinGone, JoinDone, JoinRetry, ThreadReturn, WaitJoined, Goto, PC
    <2>3. PICK t : target' = [target EXCEPT ![c] = t]
      <3>1. target = [target EXCEPT ![c] = target[c]]
        BY <1>0
      <3>2. QED
        BY <1>6, <3>1 DEF SignalCall, SignalRefused, JoinCall, JoinGone, JoinDone, JoinRetry, ThreadReturn, WaitJoined
    <2>4. QED
      BY <2>1, <2>2, <2>3, LinksQuiet
  <1>7. ASSUME NEW c \in Task, ThreadStep(c) PROVE LinksInv'
    BY <1>2, <1>3, <1>4, <1>5, <1>6, <1>7, LinksJoinBlock, LinksCleanup DEF ThreadStep
  <1>8. CASE UNCHANGED vars
    BY <1>8 DEF vars, LinksInv, Self, Tcb
  <1>9. QED
    BY <1>1, <1>7, <1>8 DEF Next

\* For any number of threads: a thread that waits to be joined is woken by the
\* thread that joins it, and one that waits for another to end is woken by that
\* end, whatever time-outs and signals, gone astray or not, come in between.
THEOREM JoinsNotLost ==
    ASSUME "near" \notin SleepKinds
    PROVE  Spec => []NoLostJoin
  <1>1. LinksInv => NoLostJoin
    BY DEF LinksInv, NoLostJoin
  <1>2. LinksInv /\ TableInv /\ [Next]_vars => LinksInv'
    BY NextLinks
  <1>3. QED
    BY <1>1, <1>2, InitTableInv, NextTableInv, InitLinks, PTL DEF Spec
-----------------------------------------------------------------------------
\* The rest of the invariant, until a signal goes astray.  A table entry between
\* task_priv_new_task() and priv_activate_thread() is in use but not yet known to
\* the scheduler: nothing may wake it, and only the thread that created it
\* activates it.
Unborn == k.used \ k.inuse

EntriesInv ==
    /\ k.stopped = {}
    /\ k.inuse \subseteq k.used
    /\ k.active \subseteq k.inuse
    /\ k.timed \subseteq k.inuse \ k.active
    /\ \A t \in Task : k.block[t] # NULL => t \in k.inuse \ k.active

CreationInv ==
    /\ \A t \in Task : pc[t] = "activate" => t \in k.inuse /\ target[t] \in Unborn
    /\ \A s, t \in Task : pc[s] = "activate" /\ pc[t] = "activate"
                              /\ target[s] = target[t] => s = t

SchedInv ==
    /\ TableInv
    /\ IsTop(k)
    /\ k.current \in k.exec \cup {0}
    /\ EntriesInv
    /\ CreationInv

\* The invariant says what ExecIsTopReady and RunningIsTop say.
LEMMA SchedInvImplies ==
    SchedInv => ExecIsTopReady /\ RunningIsTop
  <1> SUFFICES ASSUME SchedInv PROVE ExecIsTopReady /\ RunningIsTop
    OBVIOUS
  <1>1. k \in Kernel /\ Ready(k) \in SUBSET Task
    BY DEF SchedInv, TableInv, TypeOK, Kernel, Ready
  <1>2. k.cur = TopPriority(k, Ready(k))
    <2>1. CASE Ready(k) = {}
      BY <2>1 DEF SchedInv, IsTop, TopPriority
    <2>2. CASE Ready(k) # {}
      <3> DEFINE T == TopPriority(k, Ready(k))
      <3>1. /\ T \in Priority /\ \E t \in Ready(k) : k.prio[t] = T
            /\ \A t \in Ready(k) : k.prio[t] <= T
        BY <1>1, <2>2, TopPriorityIsMax
      <3> HIDE DEF T
      <3>2. k.cur \in Int /\ T \in Int
        BY <1>1, <3>1, TableAssumption DEF Kernel, Priority, NoPriority
      <3>3. k.cur <= T /\ T <= k.cur
        BY <2>2, <3>1 DEF SchedInv, IsTop
      <3>4. QED
        BY <3>2, <3>3 DEF T
    <2>3. QED
      BY <2>1, <2>2
  <1>3. QED
    BY <1>1, <1>2 DEF SchedInv, IsTop, ExecIsTopReady, RunningIsTop

\* The state start_first_thread() leaves satisfies the invariant.
LEMMA InitSchedInv == Init => SchedInv
  <1> SUFFICES ASSUME Init PROVE SchedInv
    OBVIOUS
  <1>1. PICK p \in Priority :
        k = [used |-> {1}, exec |-> {1}, fifo |-> {}, inuse |-> {1},
             active |-> {1}, stopped |-> {}, timed |-> {},
             prio |-> [t \in Task |-> IF t = 1 THEN p ELSE 0],
             base |-> [t \in Task |-> IF t = 1 THEN p ELSE 0],
             block |-> [t \in Task |-> NULL],
             unblock |-> [t \in Task |-> "NONE"],
             cur |-> p, current |-> 0, pend |-> FALSE]
    BY DEF Init
  <1>2. 1 \in Task /\ 0 \in Priority /\ NULL \in Object /\ "NONE" \in UnblockType
        /\ p \in NoPriority .. HighestPriority /\ 0 \in 0 .. TaskTotal - 1
    BY TableAssumption
       DEF Task, Priority, NULL, Object, ObjectKind, UnblockType, NoPriority
  <1>3. k \in Kernel
    BY <1>1, <1>2 DEF Kernel
  <1>4. Ready(k) = {1} /\ k.prio[1] = p /\ k.cur = p /\ k.exec = {1}
    BY <1>1, <1>2 DEF Ready
  <1>5. IsTop(k)
    BY <1>4, <1>2, TableAssumption DEF IsTop, Priority
  <1>6. TableInv
    BY InitTableInv
  <1>7. CreationInv
    BY DEF Init, CreationInv
  <1>8. EntriesInv /\ k.pend = FALSE /\ k.current = 0
    BY <1>1, <1>2 DEF EntriesInv
  <1>9. QED
    BY <1>5, <1>6, <1>7, <1>8 DEF SchedInv

\* The two ways a privileged call ends: it wakes the tasks S ...
LEMMA WakeReturn ==
    ASSUME k \in Kernel, IsTop(k), k.current \in k.exec \cup {0},
           NEW K1 \in Kernel, NEW S,
           NEW p \in NoPriority .. HighestPriority,
           Wakes(k, K1, S, p),
           k' \in Return(UpdateOnWake(K1, p))
    PROVE  /\ k' \in Kernel
           /\ k'.pend = FALSE
           /\ IsTop(k')
           /\ k'.current \in k'.exec \cup {0}
           /\ k'.used = K1.used /\ k'.inuse = K1.inuse
           /\ k'.active = K1.active /\ k'.stopped = K1.stopped
           /\ k'.timed = K1.timed /\ k'.block = K1.block
           /\ k'.unblock = K1.unblock
  <1> DEFINE K2 == UpdateOnWake(K1, p)
  <1>1. K2 \in Kernel
    BY UpdateOnWakeKernel
  <1>2. /\ IsTop(K2)
        /\ K2.pend \/ K1.exec \subseteq K2.exec
        /\ Entries(K2) = Entries(K1)
        /\ K2.current = K1.current
    BY UpdateOnWakeTop
  <1>3. k' \in Return(K2)
    OBVIOUS
  <1> HIDE DEF K2
  <1>4. K2.pend \/ K2.current \in K2.exec \cup {0}
    BY <1>2 DEF Wakes
  <1>5. QED
    BY <1>1, <1>2, <1>3, <1>4, PrivReturn DEF Entries

\* Interrupts.
LEMMA SysTickInv ==
    ASSUME SchedInv, TableInv', SysTick \/ SchedulerLoop PROVE SchedInv'
  <1> DEFINE K2 == SwitchContext(k)
  <1>1. k \in Kernel /\ IsTop(k) /\ EntriesInv
    BY DEF SchedInv, TableInv, TypeOK
  <1>2. /\ K2 \in Kernel /\ K2.pend /\ K2.exec = k.exec /\ K2.cur = k.cur
        /\ Entries(K2) = Entries(k)
    BY <1>1 DEF SwitchContext, Kernel, Entries
  <1>3. IsTop(K2)
    BY <1>1, <1>2 DEF IsTop, Entries, Ready
  <1>4. k' \in Return(K2) /\ UNCHANGED <<pc, target>>
    BY DEF SysTick, SchedulerLoop
  <1> HIDE DEF K2
  <1>5. /\ k' \in Kernel /\ k'.pend = FALSE /\ IsTop(k')
        /\ k'.current \in k'.exec \cup {0}
        /\ k'.used = k.used /\ k'.inuse = k.inuse /\ k'.active = k.active
        /\ k'.stopped = k.stopped /\ k'.timed = k.timed /\ k'.block = k.block
    BY <1>2, <1>3, <1>4, PrivReturn DEF Entries
  <1>6. EntriesInv' /\ CreationInv' 
    BY <1>4, <1>5 DEF SchedInv, EntriesInv, CreationInv, TableInv, TypeOK, Unborn
  <1>7. QED
    BY <1>5, <1>6 DEF SchedInv

\* priv_usecond_match_event(): only tasks that sleep are woken.
LEMMA TimerMatchInv ==
    ASSUME SchedInv, TableInv', TimerMatch PROVE SchedInv'
  <1>1. k \in Kernel /\ IsTop(k) /\ EntriesInv /\ k.current \in k.exec \cup {0}
    BY DEF SchedInv, TableInv, TypeOK
  <1>2. PICK S \in SUBSET Sleepers(k) : k' \in Return(MatchEvent(k, S))
    BY DEF TimerMatch
  <1> DEFINE K1 == AssertActive(k, S, "SLEEP")
             p  == TopPriority(k, S)
  <1>3. S \in SUBSET Task /\ S \subseteq k.inuse /\ S \cap k.active = {}
    BY <1>1 DEF Sleepers, Kernel, EntriesInv
  <1>4. K1 \in Kernel
    BY <1>1, <1>3, AssertActiveKernel DEF UnblockType
  <1>5. /\ K1.prio = k.prio /\ K1.cur = k.cur /\ K1.exec = k.exec
        /\ K1.used = k.used /\ K1.inuse = k.inuse /\ K1.stopped = k.stopped
        /\ K1.active = k.active \cup S /\ K1.timed = k.timed \ S
        /\ K1.block = [t \in Task |-> IF t \in S THEN NULL ELSE k.block[t]]
        /\ K1.current = k.current
    BY <1>1 DEF AssertActive, Kernel
  <1> HIDE DEF K1
  <1>6. Ready(K1) = Ready(k) \cup S
    BY <1>1, <1>3, <1>5 DEF Ready, EntriesInv
  <1>7. /\ p \in NoPriority .. HighestPriority
        /\ \A t \in S : K1.prio[t] <= p
        /\ S # {} => \E t \in S : K1.prio[t] = p
        /\ S = {} => p = NoPriority
    <2>1. CASE S = {}
      BY <2>1, TableAssumption DEF TopPriority, NoPriority
    <2>2. CASE S # {}
      <3>1. /\ p \in Priority /\ \A t \in S : k.prio[t] <= p
            /\ \E t \in S : k.prio[t] = p
        BY <2>2, <1>1, <1>3, TopPriorityIsMax
      <3> HIDE DEF p
      <3>2. p \in NoPriority .. HighestPriority
        BY <3>1, TableAssumption DEF Priority, NoPriority
      <3>3. QED
        BY <2>2, <3>1, <3>2, <1>5
    <2>3. QED
      BY <2>1, <2>2
  <1> HIDE DEF p
  <1>8. k' \in Return(UpdateOnWake(K1, p))
    BY <1>2 DEF MatchEvent, K1, p
  <1>9. /\ k' \in Kernel /\ k'.pend = FALSE /\ IsTop(k')
         /\ k'.current \in k'.exec \cup {0}
         /\ k'.used = K1.used /\ k'.inuse = K1.inuse /\ k'.active = K1.active
         /\ k'.stopped = K1.stopped /\ k'.timed = K1.timed /\ k'.block = K1.block
    <2>1. Wakes(k, K1, S, p)
      BY <1>3, <1>5, <1>6, <1>7 DEF Wakes
    <2>2. QED
      BY <2>1, <1>1, <1>4, <1>7, <1>8, WakeReturn
  <1>10. EntriesInv'
    BY <1>1, <1>3, <1>5, <1>9 DEF EntriesInv
  <1>11. CreationInv' 
    BY <1>5, <1>9 DEF SchedInv, CreationInv, TableInv, TypeOK, Unborn, TimerMatch
  <1>12. QED
    BY <1>9, <1>10, <1>11 DEF SchedInv

\* The thread that makes a call is ready, in use, and blocked on nothing.
LEMMA Running ==
    ASSUME SchedInv, NEW c \in Task, k.current = c
    PROVE  /\ k \in Kernel /\ IsTop(k) /\ EntriesInv
           /\ c \in k.exec /\ c \in Ready(k)
           /\ c \in k.used /\ c \in k.inuse /\ c \in k.active
           /\ c \notin k.timed /\ k.block[c] = NULL
  <1>1. k \in Kernel /\ IsTop(k) /\ EntriesInv /\ k.current \in k.exec \cup {0}
    BY DEF SchedInv, TableInv, TypeOK
  <1>2. c # 0
    BY TableAssumption DEF Task
  <1>3. c \in k.exec
    BY <1>1, <1>2
  <1>4. QED
    BY <1>1, <1>2, <1>3 DEF IsTop, Ready, EntriesInv

\* task_priv_new_task() hands out an entry nobody knows of.
LEMMA NewTaskInv ==
    ASSUME SchedInv, TableInv', NEW c \in Task, NewTask(c) PROVE SchedInv'
  <1>1. /\ k \in Kernel /\ IsTop(k) /\ EntriesInv /\ c \in k.exec
        /\ c \in k.inuse /\ k.current = c
    BY Running DEF NewTask, At
  <1>2. PICK i \in FreeTasks(k) :
        /\ k' = [k EXCEPT !.used = @ \cup {i}, !.fifo = @ \ {i}]
        /\ target' = [target EXCEPT ![c] = i]
        /\ inc' = [inc EXCEPT ![i] = @ + 1]
        /\ pc' = [pc EXCEPT ![c] = "activate", ![i] = "run"]
    BY DEF NewTask
  <1>3. i \in Task /\ i \notin k.used /\ i \notin k.inuse /\ i \notin k.active /\ i # c
    BY <1>1, <1>2 DEF FreeTasks, EntriesInv
  <1>4. /\ k'.used = k.used \cup {i} /\ k'.inuse = k.inuse /\ k'.active = k.active
        /\ k'.stopped = k.stopped /\ k'.timed = k.timed /\ k'.block = k.block
        /\ k'.exec = k.exec /\ k'.cur = k.cur /\ k'.prio = k.prio
        /\ k'.current = k.current /\ k'.pend = k.pend
    BY <1>1, <1>2 DEF Kernel
  <1>5. k' \in Kernel
    BY <1>1, <1>2, <1>3 DEF Kernel
  <1>6. Ready(k') = Ready(k)
    BY <1>3, <1>4 DEF Ready
  <1>7. IsTop(k')
    BY <1>1, <1>4, <1>6 DEF IsTop
  <1>8. EntriesInv'
    BY <1>1, <1>3, <1>4 DEF EntriesInv
  <1>9. CreationInv'
    <2>1. /\ pc \in [Task -> PC] /\ target \in [Task -> 0 .. TaskTotal - 1]
          /\ CreationInv
      BY DEF SchedInv, TableInv, TypeOK
    <2>2. \A t \in Task : pc'[t] = "activate" =>
             \/ t = c /\ target'[t] = i
             \/ t # c /\ pc[t] = "activate" /\ target'[t] = target[t]
      BY <2>1, <1>2, <1>3
    <2>3. Unborn' = Unborn \cup {i} /\ i \notin Unborn
      BY <1>3, <1>4 DEF Unborn
    <2>4. QED
      BY <1>1, <1>4, <2>1, <2>2, <2>3 DEF CreationInv
  <1>10. QED
    BY <1>1, <1>4, <1>7, <1>8, <1>9 DEF SchedInv

\* priv_activate_thread() wakes the one task that its creator has reserved.
LEMMA ActivateInv ==
    ASSUME SchedInv, TableInv', NEW c \in Task, Activate(c) PROVE SchedInv'
  <1> DEFINE i == target[c]
  <1>1. /\ k \in Kernel /\ IsTop(k) /\ EntriesInv /\ c \in k.exec
        /\ k.current \in k.exec \cup {0}
    BY Running DEF Activate, At
  <1>2. PICK p \in Priority, fifo \in BOOLEAN :
           k' \in Return(UpdateOnWake(Activated(i, p, fifo), p))
    BY DEF Activate
  <1>3. i \in Task /\ i \in k.used /\ i \notin k.inuse /\ i \notin k.active
    BY <1>1 DEF SchedInv, CreationInv, Unborn, Activate, At, EntriesInv, Kernel
  <1> HIDE DEF i
  <1> DEFINE F  == IF fifo THEN k.fifo \cup {i} ELSE k.fifo \ {i}
             K0 == [k EXCEPT !.stopped = @ \ {i}, !.inuse = @ \cup {i},
                             !.prio[i] = p, !.base[i] = p, !.fifo = F]
             K1 == AssertActive(K0, {i}, "NONE")
  <1>4. /\ K0 \in Kernel
        /\ K0.used = k.used /\ K0.inuse = k.inuse \cup {i} /\ K0.active = k.active
        /\ K0.stopped = k.stopped \ {i} /\ K0.timed = k.timed /\ K0.block = k.block
        /\ K0.exec = k.exec /\ K0.cur = k.cur /\ K0.current = k.current
        /\ K0.prio = [k.prio EXCEPT ![i] = p]
    <2>1. k \in Kernel /\ F \in SUBSET Task /\ i \in Task
      BY <1>1, <1>3 DEF Kernel
    <2> HIDE DEF F
    <2>2. K0 \in Kernel
      BY <2>1 DEF Kernel
    <2>3. QED
      BY <2>1, <2>2 DEF Kernel
  <1>5. Activated(i, p, fifo) = K1
    BY DEF Activated
  <1> HIDE DEF K0
  <1>6. K1 \in Kernel
    BY <1>3, <1>4, AssertActiveKernel DEF UnblockType
  <1>7. /\ K1.used = k.used /\ K1.inuse = k.inuse \cup {i}
        /\ K1.active = k.active \cup {i} /\ K1.stopped = k.stopped
        /\ K1.timed = k.timed \ {i}
        /\ K1.block = [t \in Task |-> IF t \in {i} THEN NULL ELSE k.block[t]]
        /\ K1.exec = k.exec /\ K1.cur = k.cur /\ K1.current = k.current
        /\ K1.prio = [k.prio EXCEPT ![i] = p]
    BY <1>1, <1>4 DEF AssertActive, Kernel, EntriesInv
  <1> HIDE DEF K1
  <1>8. Wakes(k, K1, {i}, p)
    <2>1. Ready(K1) = Ready(k) \cup {i}
      BY <1>1, <1>3, <1>7 DEF Ready, EntriesInv
    <2>2. K1.prio[i] = p /\ \A t \in Ready(k) : K1.prio[t] = k.prio[t]
      BY <1>1, <1>3, <1>7 DEF Kernel, Ready
    <2>3. p <= p
      BY TableAssumption DEF Priority
    <2>4. QED
      BY <1>3, <1>7, <2>1, <2>2, <2>3 DEF Wakes
  <1>9. p \in NoPriority .. HighestPriority
    BY TableAssumption DEF Priority, NoPriority
  <1>10. /\ k' \in Kernel /\ k'.pend = FALSE /\ IsTop(k')
         /\ k'.current \in k'.exec \cup {0}
         /\ k'.used = K1.used /\ k'.inuse = K1.inuse /\ k'.active = K1.active
         /\ k'.stopped = K1.stopped /\ k'.timed = K1.timed /\ k'.block = K1.block
    BY <1>1, <1>2, <1>5, <1>6, <1>8, <1>9, WakeReturn
  <1>11. EntriesInv'
    BY <1>1, <1>3, <1>7, <1>10 DEF EntriesInv
  <1>12. /\ pc' = [pc EXCEPT ![c] = "run"] /\ target' = [target EXCEPT ![c] = 0]
         /\ pc \in [Task -> PC] /\ target \in [Task -> 0 .. TaskTotal - 1]
         /\ pc[c] = "activate"
    BY <1>3 DEF Activate, Goto, SchedInv, TableInv, TypeOK, At, i
  <1>13. CreationInv'
    <2>1. \A t \in Task : pc'[t] = "activate" =>
             t # c /\ pc[t] = "activate" /\ target'[t] = target[t]
      BY <1>12
    <2>2. \A t \in Task : pc[t] = "activate" /\ t # c => target[t] # i
      BY <1>12 DEF SchedInv, CreationInv, i
    <2>3. Unborn' = Unborn \ {i} /\ k.inuse \subseteq k'.inuse
      BY <1>7, <1>10 DEF Unborn
    <2>4. QED
      BY <2>1, <2>2, <2>3 DEF SchedInv, CreationInv
  <1>14. QED
    BY <1>10, <1>11, <1>13 DEF SchedInv

\* sleep() and usleep() of a time that the timer can still be programmed for.
LEMMA SleepInv ==
    ASSUME SchedInv, TableInv', NEW c \in Task, Sleep(c), "near" \notin SleepKinds
    PROVE  SchedInv'
  <1>1. /\ k \in Kernel /\ IsTop(k) /\ EntriesInv /\ c \in k.exec
        /\ k.current = c /\ c \in k.inuse
    BY Running DEF Sleep, At
  <1>2. k' \in Return(TimedBlock(k, NULL, "future"))
    BY SchedAssumption DEF Sleep
  <1> DEFINE K1 == [k EXCEPT !.block[c] = NULL, !.timed = @ \cup {c}]
  <1>3. k' \in Return(UpdateOnSleep(K1))
    BY <1>1, <1>2 DEF TimedBlock
  <1>4. NULL \in Object
    BY DEF NULL, Object, ObjectKind
  <1>5. /\ K1 \in Kernel /\ K1.used = k.used /\ K1.inuse = k.inuse
        /\ K1.active = k.active /\ K1.stopped = k.stopped
        /\ K1.timed = k.timed \cup {c} /\ K1.current = c /\ K1.exec = k.exec
        /\ K1.block = [k.block EXCEPT ![c] = NULL]
    BY <1>1, <1>4 DEF Kernel
  <1> HIDE DEF K1
  <1>6. K1.exec \subseteq Ready(K1) \cup {K1.current}
    BY <1>1, <1>5 DEF IsTop, Ready
  <1>7. /\ k' \in Kernel /\ k'.pend = FALSE /\ IsTop(k')
        /\ k'.current \in k'.exec \cup {0}
        /\ k'.used = K1.used /\ k'.inuse = K1.inuse
        /\ k'.active = K1.active \ {K1.current} /\ k'.stopped = K1.stopped
        /\ k'.timed = K1.timed /\ k'.block = K1.block
    BY <1>3, <1>5, <1>6, SleepReturn
  <1>8. EntriesInv'
    BY <1>1, <1>5, <1>7 DEF EntriesInv, Kernel
  <1>9. CreationInv' 
    BY <1>5, <1>7 DEF SchedInv, CreationInv, TableInv, TypeOK, Unborn, Sleep
  <1>10. QED
    BY <1>7, <1>8, <1>9 DEF SchedInv

\* signal_priv_activate() wakes one thread whose entry is in use.
LEMMA SignalInv ==
    ASSUME SchedInv, TableInv', NEW c \in Task, SignalSend(c), ~strayed' PROVE SchedInv'
  <1> DEFINE t == target[c]
  <1>1. /\ k \in Kernel /\ IsTop(k) /\ EntriesInv
        /\ k.current \in k.exec \cup {0} /\ t \in k.inuse /\ t \in Task
    BY Running DEF SignalSend, At, Kernel
  <1> DEFINE K0 == [k EXCEPT !.stopped = @ \ {t}]
             K1 == AssertActive(K0, {t}, "SIGNAL")
             p  == k.prio[t]
  <1>2. K0 = k
    BY <1>1 DEF EntriesInv, Kernel
  <1>3. K1 = AssertActive(k, {t}, "SIGNAL")
    BY <1>2
  <1>4. K1 \in Kernel
    BY <1>1, <1>3, AssertActiveKernel DEF UnblockType
  <1>5. /\ K1.prio = k.prio /\ K1.cur = k.cur /\ K1.exec = k.exec
        /\ K1.used = k.used /\ K1.inuse = k.inuse /\ K1.stopped = k.stopped
        /\ K1.active = k.active \cup {t} /\ K1.timed = k.timed \ {t}
        /\ K1.block = [s \in Task |-> IF s \in {t} THEN NULL ELSE k.block[s]]
        /\ K1.current = k.current
    BY <1>1, <1>3 DEF AssertActive, Kernel
  <1>6. k' \in Return(UpdateOnWake(K1, p))
    BY DEF SignalSend, SignalActivate
  <1> HIDE DEF K1
  <1>7. p \in NoPriority .. HighestPriority /\ p <= p
    BY <1>1, TableAssumption DEF Kernel, Priority, NoPriority
  <1>8. Wakes(k, K1, {t}, p)
    <2>1. Ready(K1) = Ready(k) \cup {t}
      BY <1>1, <1>5 DEF Ready, EntriesInv
    <2>2. QED
      BY <1>1, <1>5, <1>7, <2>1 DEF Wakes
  <1> HIDE DEF p
  <1>9. /\ k' \in Kernel /\ k'.pend = FALSE /\ IsTop(k')
         /\ k'.current \in k'.exec \cup {0}
         /\ k'.used = K1.used /\ k'.inuse = K1.inuse /\ k'.active = K1.active
         /\ k'.stopped = K1.stopped /\ k'.timed = K1.timed /\ k'.block = K1.block
    BY <1>1, <1>4, <1>6, <1>7, <1>8, WakeReturn
  <1>10. EntriesInv'
    BY <1>1, <1>5, <1>9 DEF EntriesInv
  <1>11. CreationInv' 
    BY <1>5, <1>9, SchedAssumption
       DEF SchedInv, CreationInv, TableInv, TypeOK, Unborn, SignalSend, At, Goto
  <1>12. QED
    BY <1>9, <1>10, <1>11 DEF SchedInv

\* Steps of pthread_join() and cleanup_thread() outside the kernel.
LEMMA UnprivilegedInv ==
    ASSUME SchedInv, TableInv', NEW c \in Task,
           \/ \E t \in Task : SignalCall(c, t) \/ JoinCall(c, t)
           \/ SignalRefused(c) \/ JoinGone(c) \/ JoinDone(c) \/ JoinRetry(c)
           \/ ThreadReturn(c) \/ WaitJoined(c)
    PROVE  SchedInv'
  <1> USE DEF SignalCall, SignalRefused, JoinCall, JoinGone, JoinDone, JoinRetry,
              ThreadReturn, WaitJoined
  <1>1. k' = k
    OBVIOUS
  <1>2. /\ pc'[c] # "activate" /\ pc[c] # "activate"
        /\ \A t \in Task \ {c} : pc'[t] = pc[t] /\ target'[t] = target[t]
    BY DEF Goto, At, SchedInv, TableInv, TypeOK
  <1>3. CreationInv'
    BY <1>1, <1>2 DEF SchedInv, CreationInv, Unborn
  <1>4. EntriesInv'
    BY <1>1 DEF SchedInv, EntriesInv
  <1>5. QED
    BY <1>1, <1>3, <1>4 DEF SchedInv

\* priv_wait_joined() without a joiner.
LEMMA WaitUnjoinedInv ==
    ASSUME SchedInv, TableInv', NEW c \in Task, WaitUnjoined(c) PROVE SchedInv'
  <1>1. /\ k \in Kernel /\ IsTop(k) /\ EntriesInv /\ c \in k.exec
        /\ k.current = c /\ c \in k.inuse /\ c \notin k.timed
    BY Running DEF WaitUnjoined, At
  <1> DEFINE K1 == [k EXCEPT !.block[c] = Self(c)]
  <1>3. k' \in Return(UpdateOnSleep(K1))
    BY DEF WaitUnjoined
  <1>4. Self(c) \in Object
    BY TableAssumption DEF Self, Object, ObjectKind, Task
  <1>5. /\ K1 \in Kernel /\ K1.used = k.used /\ K1.inuse = k.inuse
        /\ K1.active = k.active /\ K1.stopped = k.stopped
        /\ K1.timed = k.timed /\ K1.current = c /\ K1.exec = k.exec
        /\ K1.block = [k.block EXCEPT ![c] = Self(c)]
    BY <1>1, <1>4 DEF Kernel
  <1> HIDE DEF K1
  <1>6. K1.exec \subseteq Ready(K1) \cup {K1.current}
    BY <1>1, <1>5 DEF IsTop, Ready
  <1>7. /\ k' \in Kernel /\ k'.pend = FALSE /\ IsTop(k')
        /\ k'.current \in k'.exec \cup {0}
        /\ k'.used = K1.used /\ k'.inuse = K1.inuse
        /\ k'.active = K1.active \ {K1.current} /\ k'.stopped = K1.stopped
        /\ k'.timed = K1.timed /\ k'.block = K1.block
    BY <1>3, <1>5, <1>6, SleepReturn
  <1>8. EntriesInv'
    BY <1>1, <1>5, <1>7 DEF EntriesInv, Kernel
  <1>9. CreationInv' 
    BY <1>5, <1>7 DEF SchedInv, CreationInv, TableInv, TypeOK, Unborn, WaitUnjoined
  <1>10. QED
    BY <1>7, <1>8, <1>9 DEF SchedInv

\* priv_join_thread(): the thread to be joined is woken when it waits for it.
LEMMA JoinBlockInv ==
    ASSUME SchedInv, TableInv', NEW c \in Task, JoinBlock(c) PROVE SchedInv'
  <1> DEFINE t  == target[c]
             K0 == [k EXCEPT !.block[c] = Tcb(t)]
             S  == IF K0.block[t] = Self(t) THEN {t} ELSE {}
             K1 == IF K0.block[t] = Self(t) THEN AssertActive(K0, {t}, "JOINED")
                                            ELSE K0
  <1>1. /\ k \in Kernel /\ IsTop(k) /\ EntriesInv /\ c \in k.exec
        /\ k.current = c /\ c \in k.inuse /\ c \notin k.timed /\ c \in k.active
    BY Running DEF JoinBlock, At
  <1>2. t \in Task /\ t \in k.used
    BY <1>1 DEF JoinBlock, Kernel
  <1>3. k' \in Return(UpdateOnSleep(K1))
    BY DEF JoinBlock, JoinThread
  <1>4. Tcb(t) \in Object /\ Tcb(t) # Self(t) /\ Self(t) # NULL
    BY <1>2, TableAssumption DEF Tcb, Self, Object, ObjectKind, Task, NULL
  <1>5. /\ K0 \in Kernel /\ K0.used = k.used /\ K0.inuse = k.inuse
        /\ K0.active = k.active /\ K0.stopped = k.stopped
        /\ K0.timed = k.timed /\ K0.current = c /\ K0.exec = k.exec
        /\ K0.block = [k.block EXCEPT ![c] = Tcb(t)]
    BY <1>1, <1>4 DEF Kernel
  <1> HIDE DEF t, K0
  <1>6. S \subseteq Task /\ S \subseteq k.inuse /\ c \notin S
    <2>1. CASE K0.block[t] = Self(t)
      <3>1. t # c /\ k.block[t] = Self(t)
        BY <2>1, <1>1, <1>2, <1>4, <1>5 DEF Kernel
      <3>2. QED
        BY <3>1, <1>1, <1>2, <1>4 DEF EntriesInv
    <2>2. CASE K0.block[t] # Self(t)
      BY <2>2
    <2>3. QED
      BY <2>1, <2>2
  <1>7. /\ K1 \in Kernel /\ K1.used = k.used /\ K1.inuse = k.inuse
        /\ K1.active = k.active \cup S /\ K1.stopped = k.stopped
        /\ K1.timed = k.timed \ S /\ K1.current = c /\ K1.exec = k.exec
        /\ \A s \in Task : K1.block[s] = IF s \in S THEN NULL ELSE K0.block[s]
    <2>1. CASE K0.block[t] = Self(t)
      <3>1. K1 = AssertActive(K0, S, "JOINED") /\ S = {t} /\ S \in SUBSET Task
        BY <1>2, <2>1
      <3>2. "JOINED" \in UnblockType
        BY DEF UnblockType
      <3> HIDE DEF K1, S
      <3>3. /\ K1 \in Kernel /\ K1.used = K0.used /\ K1.inuse = K0.inuse
            /\ K1.active = K0.active \cup S /\ K1.stopped = K0.stopped
            /\ K1.timed = K0.timed \ S /\ K1.current = K0.current /\ K1.exec = K0.exec
            /\ \A s \in Task : K1.block[s] = IF s \in S THEN NULL ELSE K0.block[s]
            /\ \A s \in Task : K1.unblock[s] = IF s \in S THEN "JOINED" ELSE K0.unblock[s]
        <4>1. K0 \in Kernel /\ S \in SUBSET Task /\ K1 = AssertActive(K0, S, "JOINED")
          BY <3>1, <1>5
        <4>2. K1 \in Kernel
          BY <3>2, <4>1, AssertActiveKernel
        <4>3. QED
          BY <4>1, <4>2 DEF AssertActive, Kernel
      <3>4. QED
        BY <3>3, <1>5
    <2>2. CASE K0.block[t] # Self(t)
      <3>1. K1 = K0 /\ S = {}
        BY <2>2
      <3>2. K0.block = [s \in Task |-> K0.block[s]]
        BY <1>5 DEF Kernel
      <3>3. QED
        BY <3>1, <3>2, <1>5
    <2>3. QED
      BY <2>1, <2>2
  <1> HIDE DEF S, K1
  <1>8. K1.exec \subseteq Ready(K1) \cup {K1.current}
    BY <1>1, <1>7 DEF IsTop, Ready
  <1>9. /\ k' \in Kernel /\ k'.pend = FALSE /\ IsTop(k')
        /\ k'.current \in k'.exec \cup {0}
        /\ k'.used = K1.used /\ k'.inuse = K1.inuse
        /\ k'.active = K1.active \ {K1.current} /\ k'.stopped = K1.stopped
        /\ k'.timed = K1.timed /\ k'.block = K1.block
    BY <1>3, <1>7, <1>8, SleepReturn
  <1>10. EntriesInv'
    <2>1. \A s \in Task : k'.block[s] # NULL => s \in k'.inuse \ k'.active
      BY <1>1, <1>5, <1>6, <1>7, <1>9 DEF EntriesInv, Kernel
    <2>2. k'.timed \subseteq k'.inuse \ k'.active
      BY <1>1, <1>6, <1>7, <1>9 DEF EntriesInv
    <2>3. QED
      BY <1>1, <1>6, <1>7, <1>9, <2>1, <2>2 DEF EntriesInv
  <1>11. CreationInv' 
    BY <1>7, <1>9 DEF SchedInv, CreationInv, TableInv, TypeOK, Unborn, JoinBlock,
                      Goto, PC
  <1>12. QED
    BY <1>9, <1>10, <1>11 DEF SchedInv

\* priv_cleanup(): the joiners wake, the entry is freed.
LEMMA CleanupInv ==
    ASSUME SchedInv, TableInv', NEW c \in Task, Cleanup(c) PROVE SchedInv'
  <1> DEFINE J  == Joiners(c)
             K0 == AssertActive(k, J, "JOINED_COMPLETE")
             K1 == [K0 EXCEPT !.active = @ \ {c}, !.stopped = @ \ {c},
                              !.inuse = @ \ {c}, !.unblock[c] = "NONE",
                              !.used = @ \ {c}, !.exec = @ \ {c}]
  <1>1. /\ k \in Kernel /\ IsTop(k) /\ EntriesInv /\ c \in k.exec
        /\ k.current = c /\ c \in k.inuse /\ c \notin k.timed /\ c \in k.active
        /\ k.block[c] = NULL
    BY Running DEF Cleanup, At
  <1>2. k' \in Return(UpdateOnSleep(K1))
    BY DEF Cleanup, Deleted
  <1>3. Tcb(c) # NULL
    BY DEF Tcb, NULL
  <1>4. J \subseteq Task /\ J \subseteq k.inuse /\ c \notin J
    BY <1>1, <1>3 DEF Joiners, EntriesInv
  <1> HIDE DEF J
  <1>5. /\ K0 \in Kernel /\ K0.used = k.used /\ K0.inuse = k.inuse
        /\ K0.active = k.active \cup J /\ K0.stopped = k.stopped
        /\ K0.timed = k.timed \ J /\ K0.current = c /\ K0.exec = k.exec
        /\ K0.block = [t \in Task |-> IF t \in J THEN NULL ELSE k.block[t]]
    <2>1. K0 \in Kernel
      BY <1>1, <1>4, AssertActiveKernel DEF UnblockType
    <2>2. QED
      BY <1>1, <2>1 DEF AssertActive, Kernel
  <1> HIDE DEF K0
  <1>6. /\ K1 \in Kernel /\ K1.used = k.used \ {c} /\ K1.inuse = k.inuse \ {c}
        /\ K1.active = (k.active \cup J) \ {c} /\ K1.stopped = k.stopped \ {c}
        /\ K1.timed = k.timed \ J /\ K1.current = c /\ K1.exec = k.exec \ {c}
        /\ K1.block = K0.block
    BY ZenonT(60), <1>5 DEF Kernel, UnblockType
  <1> HIDE DEF K1
  <1>7. K1.exec \subseteq Ready(K1) \cup {K1.current}
    BY <1>1, <1>6 DEF IsTop, Ready
  <1>8. /\ k' \in Kernel /\ k'.pend = FALSE /\ IsTop(k')
        /\ k'.current \in k'.exec \cup {0}
        /\ k'.used = K1.used /\ k'.inuse = K1.inuse
        /\ k'.active = K1.active \ {K1.current} /\ k'.stopped = K1.stopped
        /\ k'.timed = K1.timed /\ k'.block = K1.block
    BY <1>2, <1>6, <1>7, SleepReturn
  <1>9. EntriesInv'
    <2>1. \A s \in Task : k'.block[s] # NULL => s \in k'.inuse \ k'.active
      BY <1>1, <1>4, <1>5, <1>6, <1>8 DEF EntriesInv
    <2>2. QED
      BY <1>1, <1>4, <1>6, <1>8, <2>1 DEF EntriesInv
  <1>10. /\ pc' = [pc EXCEPT ![c] = "none"] /\ target' = [target EXCEPT ![c] = 0]
         /\ pc[c] = "cleanup"
    BY DEF Cleanup, Goto, At
  <1>11. CreationInv'
    <2>1. \A t \in Task : pc'[t] = "activate" =>
             t # c /\ pc[t] = "activate" /\ target'[t] = target[t]
      BY <1>10 DEF SchedInv, TableInv, TypeOK
    <2>2. Unborn' = Unborn /\ k'.inuse = k.inuse \ {c}
      BY <1>1, <1>6, <1>8 DEF Unborn
    <2>3. QED
      BY <2>1, <2>2 DEF SchedInv, CreationInv
  <1>12. QED
    BY <1>8, <1>9, <1>11 DEF SchedInv

\* No step but a signal that goes astray breaks the invariant.
LEMMA NextSchedInv ==
    ASSUME "near" \notin SleepKinds, SchedInv, TableInv', [Next]_vars, ~strayed'
    PROVE  SchedInv'
  <1>1. CASE SysTick \/ SchedulerLoop
    BY <1>1, SysTickInv
  <1>2. CASE TimerMatch
    BY <1>2, TimerMatchInv
  <1>3. ASSUME NEW c \in Task, ThreadStep(c) PROVE SchedInv'
    BY <1>3, NewTaskInv, ActivateInv, SleepInv, SignalInv, JoinBlockInv, UnprivilegedInv,
       WaitUnjoinedInv, CleanupInv DEF ThreadStep
  <1>4. CASE UNCHANGED vars
    BY <1>4 DEF vars, SchedInv, EntriesInv, CreationInv, Unborn
  <1>5. QED
    BY <1>1, <1>2, <1>3, <1>4 DEF Next

\* A signal that has gone astray stays so, and one was sent.
SignalsInv == sent = 0 => ~strayed /\ \A c \in Task : pc[c] # "signal"

LEMMA StrayStays ==
    ASSUME TableInv, SignalsInv, [Next]_vars
    PROVE  (strayed => strayed') /\ SignalsInv'
  <1>0. pc \in [Task -> PC] /\ sent \in Nat
    BY DEF TableInv, TypeOK
  <1>1. CASE SysTick \/ SchedulerLoop \/ TimerMatch
    BY <1>1 DEF SysTick, SchedulerLoop, TimerMatch, SignalsInv
  <1>2. ASSUME NEW c \in Task, ThreadStep(c) PROVE (strayed => strayed') /\ SignalsInv'
    <2>1. CASE SignalSend(c)
      <3>1. sent # 0 /\ sent' = sent
        BY <2>1 DEF SignalSend, At, SignalsInv
      <3>2. QED
        BY <2>1, <3>1 DEF SignalSend, SignalsInv
    <2>2. ASSUME NEW t \in Task, SignalCall(c, t) PROVE (strayed => strayed') /\ SignalsInv'
      BY <1>0, <2>2 DEF SignalCall, SignalsInv
    <2>3. ASSUME strayed' = strayed, sent' = sent,
                 \A t \in Task : pc'[t] = "signal" => pc[t] = "signal"
          PROVE  (strayed => strayed') /\ SignalsInv'
      BY <2>3 DEF SignalsInv
    <2>4. CASE \/ \E t \in Task : JoinCall(c, t)
               \/ SignalRefused(c) \/ JoinGone(c) \/ JoinDone(c) \/ JoinRetry(c)
               \/ ThreadReturn(c) \/ WaitJoined(c) \/ JoinBlock(c) \/ Cleanup(c)
      BY <1>0, <2>3, <2>4
         DEF JoinCall, SignalRefused, JoinGone, JoinDone, JoinRetry, ThreadReturn,
             WaitJoined, JoinBlock, Cleanup, Goto
    <2>5. CASE Activate(c) \/ NewTask(c)
      BY <1>0, <2>3, <2>5 DEF Activate, NewTask, Goto
    <2>6. CASE Sleep(c) \/ WaitUnjoined(c)
      BY <2>3, <2>6 DEF Sleep, WaitUnjoined
    <2>7. QED
      BY <1>2, <2>1, <2>2, <2>4, <2>5, <2>6 DEF ThreadStep
  <1>3. CASE UNCHANGED vars
    BY <1>3 DEF vars, SignalsInv
  <1>4. QED
    BY <1>1, <1>2, <1>3 DEF Next

\* All of it together.
WholeInv == TableInv /\ SignalsInv /\ (strayed \/ SchedInv)

LEMMA InitWholeInv == Init => WholeInv
  <1> SUFFICES ASSUME Init PROVE WholeInv
    OBVIOUS
  <1>1. TableInv /\ SchedInv
    BY InitTableInv, InitSchedInv
  <1>2. SignalsInv
    BY DEF Init, SignalsInv
  <1>3. QED
    BY <1>1, <1>2 DEF WholeInv

LEMMA NextWholeInv ==
    ASSUME "near" \notin SleepKinds
    PROVE  WholeInv /\ [Next]_vars => WholeInv'
  <1> SUFFICES ASSUME WholeInv, [Next]_vars PROVE WholeInv'
    OBVIOUS
  <1>1. TableInv /\ SignalsInv /\ (strayed \/ SchedInv)
    BY DEF WholeInv
  <1>2. TableInv'
    BY <1>1, NextTableInv
  <1>3. (strayed => strayed') /\ SignalsInv'
    BY <1>1, StrayStays
  <1>4. strayed' \/ SchedInv'
    BY <1>1, <1>2, <1>3, NextSchedInv
  <1>5. QED
    BY <1>2, <1>3, <1>4 DEF WholeInv

\* For any number of tasks and priorities, and until a signal goes astray:
\* whenever unprivileged code runs, the execute flags are set for exactly the
\* ready tasks of the largest ready priority, which is sched_current_priority
\* (sched_priv_update_on_wake() and sched_priv_update_on_stopped() together).
THEOREM ExecuteFlagsAreTopReady ==
    ASSUME "near" \notin SleepKinds
    PROVE  Spec => []ExecIsTopReady
  <1>1. WholeInv => ExecIsTopReady
    BY SchedInvImplies DEF WholeInv, ExecIsTopReady
  <1>2. QED
    BY <1>1, InitWholeInv, NextWholeInv, PTL DEF Spec

\* For any number of tasks and priorities, and until a signal goes astray:
\* pre-emption is strict; no thread runs while a ready thread has a larger
\* priority.
THEOREM StrictPreemption ==
    ASSUME "near" \notin SleepKinds
    PROVE  Spec => []RunningIsTop
  <1>1. WholeInv => RunningIsTop
    BY SchedInvImplies DEF WholeInv, RunningIsTop
  <1>2. QED
    BY <1>1, InitWholeInv, NextWholeInv, PTL DEF Spec
-----------------------------------------------------------------------------
\* The status that a join returns.
InJoin(c) == pc[c] \in {"join", "joining"}

\* The thread the join call of c is for lives, and is not yet joined or knows c.
Lives(c)   == /\ target[c] \in k.inuse /\ inc[target[c]] = want[c]
              /\ target[c] \in joinable
Coming(c)  == pc[c] = "join" /\ Lives(c) /\ pc[target[c]] # "cleanup"
Waiting(c) == /\ pc[c] = "joining" /\ Lives(c)
              /\ k.block[c] = Tcb(target[c])
              /\ pc[target[c]] = "cleanup" => exit_status[target[c]] = want[c]

\* It has ended, and its status has been handed over.
Joined(c)  == /\ pc[c] = "joining" /\ c \in k.active
              /\ k.unblock[c] = "JOINED_COMPLETE"
              /\ exit_status[c] = want[c]
              /\ \/ inc[target[c]] > want[c]
                 \/ inc[target[c]] = want[c] /\ target[c] \notin k.used

\* A join call of which something is claimed is the only one for its entry.
Alone(c) == \A d \in Task : InJoin(d) /\ target[d] = target[c] => d = c
Claim(c) == target[c] \in Task /\ Alone(c) /\ (Coming(c) \/ Waiting(c) \/ Joined(c))

ClaimsInv ==
    sent = 0 =>
        /\ \A t \in Task : pc[t] = "cleanup" /\ t \in joinable => Joiners(t) # {}
        /\ \A c \in Task : ~InJoin(c) => want[c] = 0
        /\ \A c \in Task : want[c] # 0 => Claim(c)

\* A claim outlives a step that is not its thread's.
LEMMA ClaimOn ==
    ASSUME SchedInv, LinksInv, NEW c \in Task, Claim(c),
           target'[c] = target[c], pc'[c] = pc[c], want'[c] = want[c],
           \A s \in Task : k.block[c] = Tcb(s) => k'.block[c] = Tcb(s),
           c \in k.active => /\ c \in k'.active /\ k'.unblock[c] = k.unblock[c]
                             /\ exit_status'[c] = exit_status[c],
           \A d \in Task : InJoin(d)' /\ target'[d] = target[c] => d = c,
           Lives(c) => /\ target[c] \in k'.inuse /\ inc'[target[c]] = inc[target[c]]
                       /\ target[c] \in joinable',
           Lives(c) /\ pc'[target[c]] = "cleanup" =>
               \/ pc[target[c]] = "cleanup" /\ exit_status'[target[c]] = exit_status[target[c]]
               \/ pc[c] # "join" /\ exit_status'[target[c]] = inc[target[c]],
           inc'[target[c]] \in Int, inc'[target[c]] >= inc[target[c]],
           inc'[target[c]] = inc[target[c]] /\ target[c] \notin k.used => target[c] \notin k'.used
    PROVE  Claim(c)'
  <1> DEFINE t == target[c]
  <1>1. t \in Task /\ target'[c] = t /\ Alone(c)'
    BY DEF Claim, Alone
  <1>2. inc[t] \in Int /\ want[c] \in Int
    BY <1>1 DEF SchedInv, TableInv, TypeOK
  <1>3. ASSUME Coming(c) PROVE Coming(c)'
    BY <1>3 DEF Coming, Lives
  <1>4. ASSUME Waiting(c) PROVE Waiting(c)'
    <2>1. k'.block[c] = Tcb(t) /\ Lives(c)
      BY <1>1, <1>4 DEF Waiting
    <2>2. pc'[t] = "cleanup" => exit_status'[t] = want[c]
      BY <1>4, <2>1 DEF Waiting, Lives
    <2>3. Lives(c)'
      BY <2>1 DEF Lives
    <2>4. QED
      BY <1>4, <2>1, <2>2, <2>3 DEF Waiting, Tcb
  <1>5. ASSUME Joined(c) PROVE Joined(c)'
    <2>1. inc'[t] > want[c] \/ (inc'[t] = want[c] /\ t \notin k'.used)
      <3>1. inc[t] > want[c] \/ (inc[t] = want[c] /\ t \notin k.used)
        BY <1>5 DEF Joined
      <3>2. CASE inc'[t] = inc[t]
        BY <3>1, <3>2
      <3>3. CASE inc'[t] # inc[t]
        <4>1. inc'[t] > inc[t]
          BY <1>2, <3>3
        <4>2. QED
          BY <1>2, <3>1, <4>1
      <3>4. QED
        BY <3>2, <3>3
    <2>2. QED
      BY <1>1, <1>5, <2>1 DEF Joined
  <1>6. QED
    BY <1>1, <1>3, <1>4, <1>5 DEF Claim

\* Steps that wake or create threads, and leave joins alone.
LEMMA ClaimsWoken ==
    ASSUME SchedInv, SchedInv', LinksInv, LinksInv', ClaimsInv, sent' = sent, want' = want,
           NEW S \in SUBSET Task, NEW u, \A t \in S : Up(t, u), \A t \in Task \ S : Still(t),
           \A t \in S : t \notin k.active /\ \A s \in Task : k.block[t] # Tcb(s),
           \A t \in Task : pc'[t] \in {pc[t], "run", "activate"},
           \A t \in Task : InJoin(t) => pc'[t] = pc[t] /\ target'[t] = target[t],
           \A t \in k.inuse : /\ t \in k'.inuse /\ inc'[t] = inc[t]
                              /\ t \in joinable <=> t \in joinable'
                              /\ exit_status'[t] = exit_status[t],
           \A t \in Task : /\ inc'[t] >= inc[t]
                           /\ inc'[t] = inc[t] /\ t \notin k.used => t \notin k'.used
    PROVE  ClaimsInv'
  <1> SUFFICES ASSUME sent = 0 PROVE ClaimsInv'
    BY DEF ClaimsInv
  <1>1. k.active \subseteq k.inuse /\ k.inuse \subseteq Task /\ \A t \in Task : inc'[t] \in Int
    BY DEF SchedInv, TableInv, TypeOK, EntriesInv, Kernel
  <1>2. \A d, t \in Task : k.block[d] = Tcb(t) => k'.block[d] = Tcb(t)
    BY DEF Still
  <1>3. \A d \in Task : d \in k.active =>
           d \in k'.active /\ k'.unblock[d] = k.unblock[d] /\ exit_status'[d] = exit_status[d]
    BY <1>1 DEF Still
  <1>4. \A t \in Task : pc'[t] = "cleanup" => pc[t] = "cleanup" /\ t \in k.inuse
    BY <1>1 DEF LinksInv
  <1>5. \A t \in Task : InJoin(t)' <=> InJoin(t)
    BY DEF InJoin
  <1>6. ASSUME NEW t \in Task, pc'[t] = "cleanup", t \in joinable' PROVE Joiners(t)' # {}
    <2>1. PICK d \in Task : k.block[d] = Tcb(t)
      BY <1>4, <1>6 DEF ClaimsInv, Joiners
    <2>2. k'.block[d] = Tcb(t)
      BY <1>2, <2>1
    <2>3. QED
      BY <2>2 DEF Joiners, Tcb
  <1>7. \A c \in Task : ~InJoin(c)' => want'[c] = 0
    BY <1>5 DEF ClaimsInv
  <1>8. ASSUME NEW c \in Task, want'[c] # 0 PROVE Claim(c)'
    <2>1. Claim(c) /\ InJoin(c)
      BY <1>8 DEF ClaimsInv
    <2> DEFINE t == target[c]
    <2>2. t \in Task /\ Alone(c)
      BY <2>1 DEF Claim
    <2>3. \A d \in Task : InJoin(d)' /\ target'[d] = t => d = c
      BY <1>5, <2>2 DEF Alone
    <2>4. Lives(c) => t \in k'.inuse /\ inc'[t] = inc[t] /\ t \in joinable'
      BY DEF Lives
    <2>5. Lives(c) /\ pc'[t] = "cleanup" =>
             pc[t] = "cleanup" /\ exit_status'[t] = exit_status[t]
      BY <1>4, <2>2
    <2>6. pc'[c] = pc[c] /\ target'[c] = target[c]
      BY <2>1
    <2>7. QED
      BY <1>1, <1>2, <1>3, <2>1, <2>2, <2>3, <2>4, <2>5, <2>6, ClaimOn
  <1>9. QED
    BY <1>6, <1>7, <1>8 DEF ClaimsInv

\* Steps of one thread that leave the other ones' entries alone, or wake one that
\* waits to be joined.
LEMMA ClaimsMoved ==
    ASSUME SchedInv, SchedInv', LinksInv, LinksInv', ClaimsInv, sent' = sent, NEW c \in Task,
           k.current = c,
           \A t \in Task \ {c} :
              \/ Still(t)
              \/ k.block[t] = Self(t),
           SameUse, UNCHANGED <<joinable, inc>>,
           \A t \in Task \ {c} : /\ pc'[t] = pc[t] /\ target'[t] = target[t]
                                 /\ exit_status'[t] = exit_status[t]
                                 /\ want'[t] = want[t] \/ want'[t] = 0,
           ~InJoin(c)' => want'[c] = 0,
           want'[c] # 0 => Claim(c)',
           \A d \in Task \ {c} : want'[d] # 0 /\ InJoin(c)' => target'[c] # target[d],
           pc'[c] = "cleanup" /\ c \in joinable => Joiners(c) # {},
           \A d \in Task : Lives(d) /\ target[d] = c /\ pc'[c] = "cleanup" =>
               \/ pc[c] = "cleanup" /\ exit_status'[c] = exit_status[c]
               \/ (Alone(d) => pc[d] # "join") /\ exit_status'[c] = inc[c]
    PROVE  ClaimsInv'
  <1> SUFFICES ASSUME sent = 0 PROVE ClaimsInv'
    BY DEF ClaimsInv
  <1>1. /\ \A t \in Task : inc[t] \in Int
        /\ k.block[c] = NULL
        /\ \A t \in Task : k.block[t] # NULL => t \notin k.active
    <2>1. EntriesInv /\ c \in k.active
      BY Running DEF Ready, IsTop, Kernel
    <2>2. k.block[c] = NULL /\ \A t \in Task : k.block[t] # NULL => t \notin k.active
      BY <2>1 DEF EntriesInv
    <2>3. \A t \in Task : inc[t] \in Int
      BY DEF SchedInv, TableInv, TypeOK
    <2>4. QED
      BY <2>2, <2>3
  <1>2. \A d, t \in Task : k.block[d] = Tcb(t) => d # c /\ k'.block[d] = Tcb(t)
    BY <1>1, JoinObjects DEF Still
  <1>3. \A d \in Task \ {c} : d \in k.active =>
           d \in k'.active /\ k'.unblock[d] = k.unblock[d] /\ exit_status'[d] = exit_status[d]
    BY <1>1, JoinObjects DEF Still
  <1>4. ASSUME NEW t \in Task, pc'[t] = "cleanup", t \in joinable' PROVE Joiners(t)' # {}
    <2>1. Joiners(t) # {}
      BY <1>4 DEF ClaimsInv
    <2>2. PICK d \in Task : k.block[d] = Tcb(t)
      BY <2>1 DEF Joiners
    <2>3. k'.block[d] = Tcb(t)
      BY <1>2, <2>2
    <2>4. QED
      BY <2>3 DEF Joiners, Tcb
  <1>5. \A d \in Task : ~InJoin(d)' => want'[d] = 0
    BY DEF ClaimsInv, InJoin
  <1>6. ASSUME NEW d \in Task \ {c}, want'[d] # 0 PROVE Claim(d)'
    <2>1. Claim(d) /\ want'[d] = want[d]
      BY <1>6 DEF ClaimsInv
    <2> DEFINE t == target[d]
    <2>2. t \in Task /\ Alone(d)
      BY <2>1 DEF Claim
    <2>3. \A e \in Task : InJoin(e)' /\ target'[e] = t => e = d
      BY <1>6, <2>2 DEF Alone, InJoin
    <2>4. Lives(d) => t \in k'.inuse /\ inc'[t] = inc[t] /\ t \in joinable'
      BY DEF Lives, SameUse
    <2>5. Lives(d) /\ pc'[t] = "cleanup" =>
             \/ pc[t] = "cleanup" /\ exit_status'[t] = exit_status[t]
             \/ pc[d] # "join" /\ exit_status'[t] = inc[t]
      <3>1. CASE t = c
        BY <2>2, <3>1
      <3>2. CASE t # c
        BY <2>2, <3>2
      <3>3. QED
        BY <3>1, <3>2
    <2>6. inc'[t] \in Int /\ inc'[t] >= inc[t] /\ (t \notin k.used => t \notin k'.used)
      BY <1>1, <2>2 DEF SameUse
    <2>7. pc'[d] = pc[d] /\ target'[d] = target[d]
      BY <1>6
    <2>8. d \in k.active => d \in k'.active /\ k'.unblock[d] = k.unblock[d]
                            /\ exit_status'[d] = exit_status[d]
      BY <1>3
    <2>9. \A s \in Task : k.block[d] = Tcb(s) => k'.block[d] = Tcb(s)
      BY <1>2
    <2> HIDE DEF t
    <2>10. QED
      BY <2>1, <2>3, <2>4, <2>5, <2>6, <2>7, <2>8, <2>9, ClaimOn DEF t
  <1>7. QED
    BY <1>4, <1>5, <1>6 DEF ClaimsInv

LEMMA ClaimsEnvironment ==
    ASSUME SchedInv, SchedInv', LinksInv, LinksInv', ClaimsInv,
           SysTick \/ SchedulerLoop \/ TimerMatch
    PROVE  ClaimsInv'
  <1>0. TableInv
    BY DEF SchedInv
  <1>1. SameUse /\ UNCHANGED <<pc, target, joinable, exit_status, inc, want, sent>>
    BY <1>0, EnvironmentTable
  <1>2. PICK S \in SUBSET (k.timed \ k.active) :
           /\ \A t \in S : Up(t, "SLEEP")
           /\ \A t \in Task \ S : Still(t)
    BY <1>0, EnvironmentTable
  <1>3. S \in SUBSET Task /\ \A t \in Task : inc[t] \in Int
    BY DEF SchedInv, TableInv, TypeOK, Kernel
  <1>4. \A t \in S : t \notin k.active /\ \A s \in Task : k.block[t] # Tcb(s)
    BY <1>3 DEF LinksInv
  <1>5. \A t \in Task : inc'[t] >= inc[t] /\ (inc'[t] = inc[t] /\ t \notin k.used => t \notin k'.used)
    BY <1>1, <1>3 DEF SameUse
  <1>6. \A t \in k.inuse : /\ t \in k'.inuse /\ inc'[t] = inc[t]
                           /\ t \in joinable <=> t \in joinable'
                           /\ exit_status'[t] = exit_status[t]
    BY <1>1 DEF SameUse
  <1>7. /\ \A t \in Task : pc'[t] \in {pc[t], "run", "activate"}
        /\ \A t \in Task : InJoin(t) => pc'[t] = pc[t] /\ target'[t] = target[t]
    BY <1>1
  <1>8. QED
    BY <1>1, <1>2, <1>3, <1>4, <1>5, <1>6, <1>7, ClaimsWoken

LEMMA ClaimsNewTask ==
    ASSUME SchedInv, SchedInv', LinksInv, LinksInv', ClaimsInv, NEW c \in Task, NewTask(c)
    PROVE  ClaimsInv'
  <1>0. TableInv /\ EntriesInv
    BY DEF SchedInv
  <1>1. PICK i \in Task \ k.used :
              /\ i # c
              /\ k'.used = k.used \cup {i} /\ k'.inuse = k.inuse
              /\ \A t \in Task : Still(t)
              /\ target' = [target EXCEPT ![c] = i] /\ inc' = [inc EXCEPT ![i] = @ + 1]
              /\ pc' = [pc EXCEPT ![c] = "activate", ![i] = "run"]
              /\ UNCHANGED <<joinable, exit_status, want, sent>>
    BY <1>0, NewTaskTable
  <1>2. /\ pc[c] = "run" /\ pc[i] = "none" /\ pc \in [Task -> PC]
        /\ target \in [Task -> 0 .. TaskTotal - 1] /\ inc \in [Task -> Int]
        /\ k.inuse \subseteq Task /\ i \notin k.inuse
    BY <1>0, <1>1 DEF NewTask, At, TableInv, TypeOK, Kernel, EntriesInv
  <1> DEFINE S == {}
  <1>3. /\ S \in SUBSET Task /\ (\A t \in S : Up(t, "NONE")) /\ (\A t \in Task \ S : Still(t))
        /\ \A t \in S : t \notin k.active /\ \A s \in Task : k.block[t] # Tcb(s)
    BY <1>1
  <1> HIDE DEF S
  <1>4. /\ \A t \in Task : pc'[t] \in {pc[t], "run", "activate"}
        /\ \A t \in Task : InJoin(t) => pc'[t] = pc[t] /\ target'[t] = target[t]
    BY <1>1, <1>2 DEF InJoin
  <1>5. \A t \in k.inuse : /\ t \in k'.inuse /\ inc'[t] = inc[t]
                           /\ t \in joinable <=> t \in joinable'
                           /\ exit_status'[t] = exit_status[t]
    BY <1>1, <1>2
  <1>6. \A t \in Task : inc'[t] >= inc[t] /\ (inc'[t] = inc[t] /\ t \notin k.used => t \notin k'.used)
    BY <1>1, <1>2
  <1>7. sent' = sent /\ want' = want
    BY <1>1
  <1>8. QED
    BY <1>3, <1>4, <1>5, <1>6, <1>7, ClaimsWoken

LEMMA ClaimsActivate ==
    ASSUME SchedInv, SchedInv', LinksInv, LinksInv', ClaimsInv, NEW c \in Task, Activate(c)
    PROVE  ClaimsInv'
  <1>1. TableInv /\ EntriesInv /\ CreationInv
    BY DEF SchedInv
  <1>2. PICK i \in Task :
              /\ i = target[c]
              /\ k'.used = k.used /\ k'.inuse = k.inuse \cup {i}
              /\ Up(i, "NONE") /\ \A t \in Task \ {i} : Still(t)
              /\ joinable' = joinable \cup {i} \/ joinable' = joinable \ {i}
              /\ exit_status' = [exit_status EXCEPT ![i] = 0]
              /\ target' = [target EXCEPT ![c] = 0] /\ Goto(c, "run")
              /\ UNCHANGED <<inc, want, sent>>
    BY <1>1, ActivateTable
  <1>3. /\ i \in k.used \ k.inuse /\ i \notin k.active
    BY <1>1, <1>2 DEF CreationInv, EntriesInv, Unborn, Activate, At
  <1>4. /\ pc[c] = "activate" /\ pc' = [pc EXCEPT ![c] = "run"] /\ pc \in [Task -> PC]
        /\ target \in [Task -> 0 .. TaskTotal - 1] /\ inc \in [Task -> Int]
        /\ exit_status \in [Task -> 0 .. MaxBirths + 1] /\ k.inuse \subseteq Task
    BY <1>2 DEF Activate, At, Goto, SchedInv, TableInv, TypeOK, Kernel
  <1>5. k.block[i] = NULL
    BY <1>1, <1>3 DEF EntriesInv
  <1> DEFINE S == {i}
  <1>6. /\ S \in SUBSET Task /\ (\A t \in S : Up(t, "NONE")) /\ (\A t \in Task \ S : Still(t))
        /\ \A t \in S : t \notin k.active /\ \A s \in Task : k.block[t] # Tcb(s)
    BY <1>2, <1>3, <1>5, JoinObjects
  <1> HIDE DEF S
  <1>7. /\ \A t \in Task : pc'[t] \in {pc[t], "run", "activate"}
        /\ \A t \in Task : InJoin(t) => pc'[t] = pc[t] /\ target'[t] = target[t]
    BY <1>2, <1>3, <1>4 DEF InJoin
  <1>8. \A t \in k.inuse : /\ t \in k'.inuse /\ inc'[t] = inc[t]
                           /\ t \in joinable <=> t \in joinable'
                           /\ exit_status'[t] = exit_status[t]
    BY <1>2, <1>3, <1>4
  <1>9. \A t \in Task : inc'[t] >= inc[t] /\ (inc'[t] = inc[t] /\ t \notin k.used => t \notin k'.used)
    BY <1>2, <1>3, <1>4
  <1>10. sent' = sent /\ want' = want
    BY <1>2
  <1>11. QED
    BY <1>6, <1>7, <1>8, <1>9, <1>10, ClaimsWoken

\* The thread sleeps, outside a join.
LEMMA ClaimsAsleep ==
    ASSUME SchedInv, SchedInv', LinksInv, LinksInv', ClaimsInv, NEW c \in Task, k.current = c,
           pc[c] \in {"run", "exit"},
           SameUse, \A t \in Task \ {c} : Still(t),
           UNCHANGED <<pc, target, joinable, exit_status, inc, want, sent>>
    PROVE  ClaimsInv'
  <1> SUFFICES ASSUME sent = 0 PROVE ClaimsInv'
    BY DEF ClaimsInv
  <1>1. ~InJoin(c) /\ want[c] = 0 /\ pc[c] # "cleanup"
    BY DEF InJoin, ClaimsInv
  <1>2. ~InJoin(c)' /\ want'[c] = 0 /\ pc'[c] # "cleanup"
    BY <1>1 DEF InJoin
  <1>3. \A t \in Task \ {c} : /\ pc'[t] = pc[t] /\ target'[t] = target[t]
                              /\ exit_status'[t] = exit_status[t]
                              /\ want'[t] = want[t] \/ want'[t] = 0
    OBVIOUS
  <1>4. QED
    BY <1>2, <1>3, ClaimsMoved

\* The thread goes on outside the kernel.
LEMMA ClaimsLeave ==
    ASSUME SchedInv, SchedInv', LinksInv, LinksInv', ClaimsInv, NEW c \in Task,
           JoinGone(c) \/ JoinDone(c) \/ JoinRetry(c)
    PROVE  ClaimsInv'
  <1> SUFFICES ASSUME sent = 0 PROVE ClaimsInv'
    BY DEF ClaimsInv, JoinGone, JoinDone, JoinRetry
  <1>0. /\ pc \in [Task -> PC] /\ want \in [Task -> 0 .. MaxBirths + 1]
        /\ target \in [Task -> 0 .. TaskTotal - 1]
    BY DEF SchedInv, TableInv, TypeOK
  <1>1. /\ k' = k /\ k.current = c /\ UNCHANGED <<joinable, exit_status, inc, sent>> /\ InJoin(c)
        /\ pc' = [pc EXCEPT ![c] = pc'[c]] /\ pc'[c] \in {"run", "join"}
    BY <1>0 DEF JoinGone, JoinDone, JoinRetry, At, Goto, InJoin
  <1>2. want'[c] = 0
    <2>1. CASE JoinGone(c) \/ JoinDone(c)
      BY <1>0, <2>1 DEF JoinGone, JoinDone
    <2>2. CASE JoinRetry(c)
      <3>1. want' = want /\ pc[c] = "joining" /\ k.unblock[c] # "JOINED_COMPLETE"
        BY <2>2 DEF JoinRetry, At
      <3>2. k.block[c] = NULL
        BY <1>1, Running
      <3>3. want[c] # 0 => Claim(c)
        BY DEF ClaimsInv
      <3>4. QED
        BY <3>1, <3>2, <3>3, JoinObjects DEF Claim, Coming, Waiting, Joined
    <2>3. QED
      BY <2>1, <2>2 DEF JoinGone
  <1>3. \A t \in Task \ {c} : pc'[t] = pc[t] /\ target'[t] = target[t] /\ want'[t] = want[t]
    BY <1>0, <1>1 DEF JoinGone, JoinDone, JoinRetry
  <1>4. \A d \in Task \ {c} : want'[d] # 0 /\ InJoin(c)' => target'[c] # target[d]
    <2> SUFFICES ASSUME NEW d \in Task \ {c}, want[d] # 0, InJoin(c)' PROVE target'[c] # target[d]
      BY <1>3
    <2>1. target' = target
      BY <1>0 DEF JoinGone, JoinDone, JoinRetry, Goto, InJoin
    <2>2. Alone(d)
      BY DEF ClaimsInv, Claim
    <2>3. QED
      BY <1>1, <2>1, <2>2 DEF Alone
  <1>5. SameUse /\ (\A t \in Task \ {c} : Still(t)) /\ pc'[c] # "cleanup"
    BY <1>1 DEF SameUse, Still
  <1>6. QED
    BY <1>1, <1>2, <1>3, <1>4, <1>5, ClaimsMoved

\* The thread ends: it waits to be joined, or has seen its joiner.
LEMMA ClaimsEnding ==
    ASSUME SchedInv, SchedInv', LinksInv, LinksInv', ClaimsInv, NEW c \in Task,
           ThreadReturn(c) \/ WaitJoined(c)
    PROVE  ClaimsInv'
  <1> SUFFICES ASSUME sent = 0 PROVE ClaimsInv'
    BY DEF ClaimsInv, ThreadReturn, WaitJoined
  <1>0. /\ pc \in [Task -> PC] /\ exit_status \in [Task -> 0 .. MaxBirths + 1]
        /\ pc[c] \in {"run", "exit"}
    BY DEF SchedInv, TableInv, TypeOK, ThreadReturn, WaitJoined, At
  <1>1. /\ k' = k /\ k.current = c /\ UNCHANGED <<target, joinable, inc, want, sent>>
        /\ pc' = [pc EXCEPT ![c] = pc'[c]] /\ pc'[c] \in {"exit", "cleanup"}
        /\ \A t \in Task \ {c} : exit_status'[t] = exit_status[t]
    BY <1>0 DEF ThreadReturn, WaitJoined, At, Goto
  <1>2. want[c] = 0 /\ ~InJoin(c)'
    BY <1>0, <1>1 DEF ClaimsInv, InJoin
  <1>3. \A t \in Task \ {c} : pc'[t] = pc[t]
    BY <1>0, <1>1
  <1>4. pc'[c] = "cleanup" /\ c \in joinable => Joiners(c) # {} /\ exit_status'[c] = inc[c]
    BY <1>0 DEF ThreadReturn, WaitJoined, Goto
  <1>5. ASSUME NEW d \in Task, Lives(d), target[d] = c, pc'[c] = "cleanup"
        PROVE  (Alone(d) => pc[d] # "join") /\ exit_status'[c] = inc[c]
    <2>1. Joiners(c) # {} /\ exit_status'[c] = inc[c]
      BY <1>4, <1>5 DEF Lives
    <2>2. PICK e \in Task : k.block[e] = Tcb(c)
      BY <2>1 DEF Joiners
    <2>3. pc[e] = "joining" /\ target[e] = c
      BY <2>2 DEF LinksInv
    <2>4. QED
      BY <1>5, <2>1, <2>3 DEF Alone, InJoin
  <1>6. SameUse /\ \A t \in Task \ {c} : Still(t)
    BY <1>1 DEF SameUse, Still
  <1>7. QED
    BY <1>1, <1>2, <1>3, <1>4, <1>5, <1>6, ClaimsMoved

LEMMA ClaimsJoinBlock ==
    ASSUME SchedInv, SchedInv', LinksInv, LinksInv', ClaimsInv, NEW c \in Task, JoinBlock(c)
    PROVE  ClaimsInv'
  <1> SUFFICES ASSUME sent = 0 PROVE ClaimsInv'
    BY DEF ClaimsInv, JoinBlock
  <1> DEFINE t == target[c]
  <1>0. pc \in [Task -> PC] /\ pc[c] = "join" /\ k.current = c
    BY DEF SchedInv, TableInv, TypeOK, JoinBlock, At
  <1>1. /\ t \in Task /\ SameUse /\ Down(c, Tcb(t))
        /\ \A s \in Task \ {c} :
              IF s = t /\ k.block[t] = Self(t) THEN Up(s, "JOINED") ELSE Still(s)
        /\ pc' = [pc EXCEPT ![c] = "joining"]
        /\ UNCHANGED <<target, joinable, exit_status, inc, want, sent>>
    BY JoinBlockTable DEF Goto, SchedInv
  <1>2. \A s \in Task \ {c} : Still(s) \/ k.block[s] = Self(s)
    BY <1>1
  <1>3. \A s \in Task \ {c} : /\ pc'[s] = pc[s] /\ target'[s] = target[s]
                              /\ exit_status'[s] = exit_status[s]
                              /\ want'[s] = want[s] \/ want'[s] = 0
    BY <1>0, <1>1
  <1>4. pc'[c] = "joining" /\ InJoin(c) /\ InJoin(c)' /\ \A s \in Task : InJoin(s)' <=> InJoin(s)
    BY <1>0, <1>1 DEF InJoin
  <1>5. ASSUME want[c] # 0 PROVE Claim(c)'
    <2>1. Alone(c) /\ Coming(c)
      BY <1>0, <1>5 DEF ClaimsInv, Claim, Waiting, Joined
    <2>2. Alone(c)'
      BY <1>1, <1>4, <2>1 DEF Alone
    <2>3. Lives(c)' /\ k'.block[c] = Tcb(t) /\ pc'[t] # "cleanup"
      BY <1>0, <1>1, <2>1 DEF Coming, Lives, SameUse, Down
    <2>4. Waiting(c)'
      BY <1>1, <1>4, <2>3 DEF Waiting, Tcb
    <2>5. QED
      BY <1>1, <2>2, <2>4 DEF Claim
  <1>6. \A d \in Task \ {c} : want'[d] # 0 /\ InJoin(c)' => target'[c] # target[d]
    <2> SUFFICES ASSUME NEW d \in Task \ {c}, want[d] # 0 PROVE target[c] # target[d]
      BY <1>1
    <2>1. Alone(d)
      BY DEF ClaimsInv, Claim
    <2>2. QED
      BY <1>4, <2>1 DEF Alone
  <1> HIDE DEF t
  <1>7. QED
    BY <1>0, <1>1, <1>2, <1>3, <1>4, <1>5, <1>6, ClaimsMoved

LEMMA ClaimsJoinCall ==
    ASSUME SchedInv, SchedInv', LinksInv, LinksInv', ClaimsInv,
           NEW c \in Task, NEW t \in Task, JoinCall(c, t)
    PROVE  ClaimsInv'
  <1> SUFFICES ASSUME sent = 0 PROVE ClaimsInv'
    BY DEF ClaimsInv, JoinCall
  <1>0. /\ pc \in [Task -> PC] /\ want \in [Task -> 0 .. MaxBirths + 1]
        /\ target \in [Task -> 0 .. TaskTotal - 1]
    BY DEF SchedInv, TableInv, TypeOK
  <1>1. /\ k' = k /\ k.current = c /\ pc[c] = "run" /\ t \in k.inuse /\ t \in joinable /\ t # c
        /\ target' = [target EXCEPT ![c] = t] /\ pc' = [pc EXCEPT ![c] = "join"]
        /\ want' = IF Joining(t) = {}
                   THEN [want EXCEPT ![c] = inc[t]]
                   ELSE [d \in Task |-> IF d \in Joining(t) THEN 0 ELSE want[d]]
        /\ UNCHANGED <<joinable, exit_status, inc, sent>>
    BY DEF JoinCall, At, Goto
  <1>2. want[c] = 0 /\ c \notin Joining(t) /\ InJoin(c)' /\ target'[c] = t /\ pc'[c] = "join"
    BY <1>0, <1>1 DEF ClaimsInv, InJoin, Joining
  <1>3. \A d \in Task \ {c} : /\ pc'[d] = pc[d] /\ target'[d] = target[d]
                              /\ want'[d] = want[d] \/ want'[d] = 0
                              /\ exit_status'[d] = exit_status[d]
    BY <1>0, <1>1
  <1>4. \A d \in Task : d \in Joining(t) <=> InJoin(d) /\ target[d] = t
    BY DEF Joining, InJoin
  <1>5. ASSUME NEW d \in Task \ {c}, want'[d] # 0 PROVE target[d] # t
    <2>1. want[d] # 0
      BY <1>3, <1>5
    <2>2. InJoin(d)
      BY <2>1 DEF ClaimsInv
    <2>3. d \notin Joining(t)
      BY <1>1, <1>5
    <2>4. QED
      BY <1>4, <2>2, <2>3
  <1>6. ASSUME want'[c] # 0 PROVE Claim(c)'
    <2>1. Joining(t) = {} /\ want'[c] = inc[t]
      BY <1>0, <1>1, <1>2, <1>6
    <2>2. Alone(c)'
      <3> SUFFICES ASSUME NEW d \in Task, InJoin(d)', target'[d] = t, d # c PROVE FALSE
        BY <1>2 DEF Alone
      <3>1. InJoin(d) /\ target[d] = t
        BY <1>3 DEF InJoin
      <3>2. QED
        BY <1>4, <2>1, <3>1
    <2>3. pc[t] # "cleanup"
      <3> SUFFICES ASSUME pc[t] = "cleanup" PROVE FALSE
        OBVIOUS
      <3>1. PICK e \in Task : k.block[e] = Tcb(t)
        BY <1>1 DEF ClaimsInv, Joiners
      <3>2. InJoin(e) /\ target[e] = t
        BY <3>1 DEF LinksInv, InJoin
      <3>3. QED
        BY <1>4, <2>1, <3>2
    <2>4. Coming(c)'
      BY <1>1, <1>2, <1>3, <2>1, <2>3 DEF Coming, Lives
    <2>5. QED
      BY <1>2, <2>2, <2>4 DEF Claim
  <1>7. SameUse /\ \A s \in Task \ {c} : Still(s)
    BY <1>1 DEF SameUse, Still
  <1>8. \A d \in Task \ {c} : want'[d] # 0 /\ InJoin(c)' => target'[c] # target[d]
    BY <1>2, <1>5
  <1>9. QED
    BY <1>1, <1>2, <1>3, <1>6, <1>7, <1>8, ClaimsMoved

\* The end of a thread hands its status to the thread that has waited for it.
LEMMA ClaimsCleanup ==
    ASSUME SchedInv, SchedInv', LinksInv, LinksInv', ClaimsInv, NEW c \in Task, Cleanup(c)
    PROVE  ClaimsInv'
  <1> SUFFICES ASSUME sent = 0 PROVE ClaimsInv'
    BY DEF ClaimsInv, Cleanup
  <1>0. /\ pc \in [Task -> PC] /\ want \in [Task -> 0 .. MaxBirths + 1]
        /\ target \in [Task -> 0 .. TaskTotal - 1] /\ pc[c] = "cleanup"
        /\ inc \in [Task -> Int] /\ 0 \notin Task
    <2>1. /\ pc \in [Task -> PC] /\ want \in [Task -> 0 .. MaxBirths + 1]
          /\ target \in [Task -> 0 .. TaskTotal - 1] /\ pc[c] = "cleanup"
      BY DEF SchedInv, TableInv, TypeOK, Cleanup, At
    <2>2. inc \in [Task -> Int]
      BY SchedAssumption DEF SchedInv, TableInv, TypeOK
    <2>3. 0 \notin Task
      BY TableAssumption DEF Task
    <2>4. QED
      BY <2>1, <2>2, <2>3
  <1>1. /\ k'.used = k.used \ {c} /\ k'.inuse = k.inuse \ {c}
        /\ \A t \in Task \ {c} :
              IF t \in Joiners(c) THEN Up(t, "JOINED_COMPLETE") ELSE Still(t)
        /\ exit_status' = ExitStatus(c)
        /\ pc' = [pc EXCEPT ![c] = "none"] /\ target' = [target EXCEPT ![c] = 0]
        /\ want' = [want EXCEPT ![c] = 0]
        /\ UNCHANGED <<joinable, inc, sent>>
    BY CleanupTable DEF Goto, SchedInv
  <1>2. EntriesInv /\ k.block[c] = NULL /\ c \in k.used
    BY Running DEF Cleanup, At
  <1>3. /\ \A d \in Task \ {c} : pc'[d] = pc[d] /\ target'[d] = target[d] /\ want'[d] = want[d]
        /\ want'[c] = 0 /\ pc'[c] = "none"
    BY <1>0, <1>1
  <1>4. \A d \in Task : InJoin(d)' <=> InJoin(d)
    BY <1>0, <1>3 DEF InJoin
  <1>5. \A d \in Joiners(c) : pc[d] = "joining" /\ target[d] = c
    BY DEF LinksInv, Joiners
  <1>6. \A d, t \in Task : k.block[d] = Tcb(t) /\ t # c => k'.block[d] = Tcb(t)
    BY <1>1, <1>2, JoinObjects DEF Joiners, Still
  <1>7. ASSUME NEW t \in Task, pc'[t] = "cleanup", t \in joinable' PROVE Joiners(t)' # {}
    <2>1. t # c /\ pc[t] = "cleanup" /\ t \in joinable
      BY <1>1, <1>3, <1>7
    <2>2. PICK d \in Task : k.block[d] = Tcb(t)
      BY <2>1 DEF ClaimsInv, Joiners
    <2>3. k'.block[d] = Tcb(t)
      BY <1>6, <2>1, <2>2
    <2>4. QED
      BY <2>3 DEF Joiners, Tcb
  <1>8. \A d \in Task : ~InJoin(d)' => want'[d] = 0
    BY <1>0, <1>3, <1>4 DEF ClaimsInv
  <1>9. ASSUME NEW d \in Task, want'[d] # 0 PROVE Claim(d)'
    <2> DEFINE t == target[d]
    <2>1. d # c /\ Claim(d) /\ want'[d] = want[d] /\ target'[d] = t /\ pc'[d] = pc[d]
      BY <1>3, <1>9 DEF ClaimsInv
    <2>2. t \in Task /\ Alone(d)
      BY <2>1 DEF Claim
    <2>3. \A e \in Task : InJoin(e)' /\ target'[e] = t => e = d
      <3>1. ~InJoin(c)'
        BY <1>3 DEF InJoin
      <3>2. QED
        BY <1>3, <1>4, <2>2, <3>1 DEF Alone
    <2>4. Alone(d)'
      BY <2>1, <2>3 DEF Alone
    <2>5. CASE t = c /\ Waiting(d)
      <3>1. d \in Joiners(c) /\ exit_status[c] = want[d] /\ pc[d] = "joining" /\ inc[c] = want[d]
        BY <1>0, <2>5 DEF Waiting, Joiners, Lives
      <3>2. Up(d, "JOINED_COMPLETE") /\ exit_status'[d] = exit_status[c]
        BY <1>1, <2>1, <3>1 DEF ExitStatus
      <3>3. inc'[t] = want'[d] /\ t \notin k'.used
        BY <1>1, <2>1, <2>5, <3>1
      <3>4. pc'[d] = "joining" /\ d \in k'.active /\ k'.unblock[d] = "JOINED_COMPLETE"
            /\ exit_status'[d] = want'[d]
        BY <2>1, <3>1, <3>2 DEF Up
      <3> HIDE DEF t
      <3>5. Joined(d)'
        BY <2>1, <3>3, <3>4 DEF Joined
      <3>6. QED
        BY <2>1, <2>2, <2>4, <3>5 DEF Claim
    <2>6. CASE t # c \/ Joined(d)
      <3>1. ~Lives(d) \/ t # c
        <4>1. t = c => Joined(d) /\ c \in k.used
          BY <1>2, <2>6
        <4>2. Joined(d) /\ t \in k.used => inc[t] > want[d]
          BY DEF Joined
        <4>3. inc[t] \in Int /\ want[d] \in Int
          BY <1>0, <2>2
        <4> HIDE DEF t
        <4>4. t = c => inc[t] # want[d]
          BY <4>1, <4>2, <4>3
        <4>5. QED
          BY <4>4 DEF Lives, t
      <3>2. d \notin Joiners(c)
        <4>1. d \in Joiners(c) => t = c /\ k.block[d] # NULL
          BY <1>5, JoinObjects DEF Joiners
        <4>2. Joined(d) => k.block[d] = NULL
          BY <1>2 DEF Joined, EntriesInv
        <4>3. QED
          BY <2>6, <4>1, <4>2
      <3>3. Still(d) /\ exit_status'[d] = exit_status[d]
        BY <1>1, <2>1, <3>2 DEF ExitStatus
      <3>4. \A s \in Task : k.block[d] = Tcb(s) => k'.block[d] = Tcb(s)
        BY <3>3 DEF Still
      <3>5. d \in k.active => d \in k'.active /\ k'.unblock[d] = k.unblock[d]
        BY <3>3 DEF Still
      <3>6. Lives(d) => t \in k'.inuse /\ inc'[t] = inc[t] /\ t \in joinable'
        BY <1>1, <3>1 DEF Lives
      <3>7. Lives(d) /\ pc'[t] = "cleanup" => pc[t] = "cleanup" /\ exit_status'[t] = exit_status[t]
        <4>1. t \in Joiners(c) => pc[t] = "joining"
          BY <1>5
        <4>2. pc'[t] = "cleanup" => t # c /\ pc[t] = "cleanup" /\ t \notin Joiners(c)
          BY <1>3, <2>2, <4>1
        <4>3. QED
          BY <1>1, <2>2, <4>2 DEF ExitStatus
      <3>8. inc'[t] \in Int /\ inc'[t] >= inc[t] /\ (t \notin k.used => t \notin k'.used)
        BY <1>0, <1>1, <2>2
      <3> HIDE DEF t
      <3>9. QED
        BY <2>1, <2>3, <3>3, <3>4, <3>5, <3>6, <3>7, <3>8, ClaimOn DEF t
    <2>7. CASE t = c /\ Coming(d)
      BY <1>0, <2>7 DEF Coming
    <2>8. QED
      BY <2>1, <2>5, <2>6, <2>7 DEF Claim
  <1>10. QED
    BY <1>7, <1>8, <1>9 DEF ClaimsInv

LEMMA InitClaims == Init => ClaimsInv
  <1> SUFFICES ASSUME Init PROVE ClaimsInv
    OBVIOUS
  <1>1. /\ \A t \in Task : pc[t] \in {"run", "none"}
        /\ \A t \in Task : want[t] = 0
    BY DEF Init
  <1>2. QED
    BY <1>1 DEF ClaimsInv

\* Until a signal is sent the invariant of the scheduler holds.
LEMMA NoSignal ==
    ASSUME WholeInv, WholeInv', [Next]_vars, sent' = 0
    PROVE  /\ sent = 0 /\ SchedInv /\ SchedInv'
           /\ \A c \in Task : pc[c] # "signal"
  <1>1. sent \in Nat
    BY SchedAssumption DEF WholeInv, TableInv, TypeOK
  <1>2. sent' = sent \/ sent' = sent + 1
    BY DEF Next, ThreadStep, SysTick, SchedulerLoop, TimerMatch, NewTask, Activate, Sleep,
           SignalCall, SignalSend, SignalRefused, JoinCall, JoinBlock, JoinGone, JoinDone,
           JoinRetry, ThreadReturn, WaitUnjoined, WaitJoined, Cleanup, vars
  <1>3. sent = 0
    BY <1>1, <1>2
  <1>4. QED
    BY <1>3 DEF WholeInv, SignalsInv

LEMMA NextClaims ==
    ASSUME "near" \notin SleepKinds, WholeInv, WholeInv', LinksInv, LinksInv', ClaimsInv,
           [Next]_vars
    PROVE  ClaimsInv'
  <1> SUFFICES ASSUME sent' = 0 PROVE ClaimsInv'
    BY DEF ClaimsInv
  <1>0. SchedInv /\ SchedInv' /\ TableInv /\ \A c \in Task : pc[c] # "signal"
    BY NoSignal DEF WholeInv
  <1>1. ASSUME NEW c \in Task, Sleep(c) \/ WaitUnjoined(c) PROVE ClaimsInv'
    <2>1. k.current = c /\ pc[c] \in {"run", "exit"}
      BY <1>1 DEF Sleep, WaitUnjoined, At
    <2>2. SameUse /\ (\A t \in Task \ {c} : Still(t))
          /\ UNCHANGED <<pc, target, joinable, exit_status, inc, want, sent>>
      BY <1>0, <1>1, SleepTable, WaitUnjoinedTable
    <2>3. QED
      BY <1>0, <2>1, <2>2, ClaimsAsleep
  <1>2. ASSUME NEW c \in Task, NEW t \in Task,
               SignalCall(c, t) \/ SignalSend(c) \/ SignalRefused(c)
        PROVE  FALSE
    <2>1. sent \in Nat
      BY <1>0, SchedAssumption DEF TableInv, TypeOK
    <2>2. QED
      BY <1>0, <1>2, <2>1 DEF SignalCall, SignalSend, SignalRefused, At
  <1>3. ASSUME NEW c \in Task, ThreadStep(c) PROVE ClaimsInv'
    BY <1>0, <1>1, <1>2, <1>3, ClaimsNewTask, ClaimsActivate, ClaimsJoinCall, ClaimsJoinBlock,
       ClaimsLeave, ClaimsEnding, ClaimsCleanup
       DEF ThreadStep
  <1>4. CASE UNCHANGED vars
    BY <1>4 DEF vars, ClaimsInv, Claim, Alone, Coming, Waiting, Joined, Lives, InJoin,
                Joiners, Tcb
  <1>5. QED
    BY <1>0, <1>3, <1>4, ClaimsEnvironment DEF Next

\* For any number of threads and reuses of their entries: while no signal has
\* been sent, a join that is the only one of its thread returns zero only after
\* the end of that thread, with the status the thread has left
\* (pthread_join(), priv_wait_joined(), priv_cleanup()).
THEOREM JoinsReturnStatus ==
    ASSUME "near" \notin SleepKinds
    PROVE  Spec => []JoinReturnsStatus
  <1>1. WholeInv /\ ClaimsInv => JoinReturnsStatus
    <2> SUFFICES ASSUME WholeInv, ClaimsInv, sent = 0, NEW c \in Task,
                        At(c, "joining"), want[c] # 0
                 PROVE  exit_status[c] = want[c] /\ Ended(target[c], want[c])
      BY DEF JoinReturnsStatus
    <2>1. Claim(c) /\ SchedInv
      BY DEF ClaimsInv, WholeInv, SignalsInv
    <2>2. k.block[c] = NULL /\ pc[c] = "joining"
      BY <2>1, Running DEF At
    <2>3. Joined(c)
      BY <2>1, <2>2, JoinObjects DEF Claim, Coming, Waiting
    <2>4. QED
      BY <2>3 DEF Joined, Ended
  <1>2. WholeInv /\ LinksInv /\ [Next]_vars => LinksInv'
    BY NextLinks DEF WholeInv
  <1>3. WholeInv /\ WholeInv' /\ LinksInv /\ LinksInv' /\ ClaimsInv /\ [Next]_vars => ClaimsInv'
    BY NextClaims
  <1>4. QED
    BY <1>1, <1>2, <1>3, InitWholeInv, NextWholeInv, InitLinks, InitClaims, PTL DEF Spec
=============================================================================
