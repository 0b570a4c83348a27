--------------------------- MODULE ProcessProofs ---------------------------
(***************************************************************************)
(* Proofs about processes and signals.                                     *)
(***************************************************************************)
EXTENDS Process, SchedTableProofs

\* What every table here is like, whatever happens.
Sound(K) == K \in Kernel /\ K.exec \subseteq K.used /\ K.current \in K.used \cup {0}

\* The execute flags agree with the ready tasks, except that tasks which are
\* stopped when nothing else is ready keep theirs.
Agrees(K) ==
    /\ K.exec \subseteq K.used \cap K.active
    /\ Ready(K) = {} => K.exec \subseteq K.stopped /\ K.cur = NoPriority
    /\ Ready(K) # {} => /\ \A t \in Ready(K) : K.prio[t] <= K.cur
                        /\ K.exec = {t \in Ready(K) : K.prio[t] = K.cur}
                        /\ K.exec # {}

\* ... and what is executed has its execute flag.
Executes(K) == Agrees(K) /\ K.current \in K.exec \cup {0}

\* What stays of table K when only the execute flags are recomputed.
SameTasks(U, K) ==
    /\ U.used = K.used /\ U.inuse = K.inuse /\ U.active = K.active
    /\ U.stopped = K.stopped /\ U.prio = K.prio

-----------------------------------------------------------------------------
\* The least entry of a set.
LEMMA MinOfTasks ==
    ASSUME NEW S \in SUBSET Task, S # {}
    PROVE  Min(S) \in S /\ \A t \in S : Min(S) <= t
  <1>1. S \in SUBSET Nat
    BY TableAssumption DEF Task
  <1>2. \E x \in S : \A y \in S : x <= y
    BY <1>1, LeastExists
  <1>3. Min(S) = CHOOSE x \in S : \A y \in S : x <= y
    BY DEF Min
  <1>4. QED
    BY <1>2, <1>3, Zenon

\* The end of a call.
LEMMA LeaveTable ==
    ASSUME NEW K \in Kernel, K.exec \subseteq K.used,
           K.pend \/ K.current \in K.used \cup {0}, NEW R \in Leave(K)
    PROVE  /\ Sound(R) /\ SameTasks(R, K)
           /\ R.exec = K.exec /\ R.cur = K.cur
           /\ IF K.pend THEN R.current \in K.exec \cup {0} ELSE R.current = K.current
  <1> DEFINE N == [t \in Task |-> "NONE"]
             M == [K EXCEPT !.unblock = N]
  <1>1. N \in [Task -> UnblockType]
    BY DEF UnblockType
  <1> HIDE DEF N
  <1>2. M \in Kernel
    BY <1>1 DEF Kernel
  <1>3. SameTasks(M, K) /\ M.exec = K.exec /\ M.cur = K.cur /\ M.current = K.current /\ M.pend = K.pend
    BY DEF Kernel, SameTasks
  <1>4. R \in Return(M)
    BY DEF Leave, N
  <1> HIDE DEF M
  <1>5. CASE K.pend
    <2>1. PICK d \in K.exec \cup {0} : R = [M EXCEPT !.pend = FALSE, !.current = d]
      BY <1>3, <1>4, <1>5 DEF Return, Dispatch
    <2>2. d \in 0 .. TaskTotal - 1
      BY TableAssumption DEF Kernel, Task
    <2>3. R \in Kernel /\ SameTasks(R, M) /\ R.exec = M.exec /\ R.cur = M.cur /\ R.current = d
      BY <1>2, <2>1, <2>2 DEF Kernel, SameTasks
    <2>4. QED
      BY <1>3, <1>5, <2>3 DEF Sound, SameTasks
  <1>6. CASE ~K.pend
    <2>1. R = M
      BY <1>3, <1>4, <1>6 DEF Return
    <2>2. QED
      BY <1>2, <1>3, <1>6, <2>1 DEF Sound, SameTasks
  <1>7. QED
    BY <1>5, <1>6

\* ... which keeps the agreement.
LEMMA LeaveExecutes ==
    ASSUME NEW K \in Kernel, Agrees(K), K.pend \/ K.current \in K.exec \cup {0},
           NEW R \in Leave(K)
    PROVE  Executes(R)
  <1>1. K.exec \subseteq K.used
    BY DEF Agrees
  <1>2. /\ SameTasks(R, K) /\ R.exec = K.exec /\ R.cur = K.cur
        /\ IF K.pend THEN R.current \in K.exec \cup {0} ELSE R.current = K.current
    BY <1>1, LeaveTable
  <1>3. Ready(R) = Ready(K)
    BY <1>2 DEF Ready, SameTasks
  <1>4. Agrees(R)
    BY <1>2, <1>3 DEF Agrees, SameTasks
  <1>5. QED
    BY <1>2, <1>4 DEF Executes

\* sched_priv_update_on_wake(), with the priority of a task that is ready now
\* and no less than that of any other that was not ready before.
LEMMA WakeAgrees ==
    ASSUME NEW K0 \in Kernel, Agrees(K0), NEW K \in Kernel, NEW p \in Priority,
           Ready(K0) \subseteq Ready(K),
           \A t \in Ready(K0) : K.prio[t] = K0.prio[t],
           \A t \in Ready(K) \ Ready(K0) : K.prio[t] <= p,
           \E t \in Ready(K) : K.prio[t] = p,
           K.cur = K0.cur, K.exec = K0.exec, K.used = K0.used, K0.active \subseteq K.active
    PROVE  LET U == UpdateOnWake(K, p)
           IN  /\ U \in Kernel /\ Agrees(U) /\ SameTasks(U, K) /\ U.current = K.current
               /\ U.pend \/ K0.exec \subseteq U.exec
  <1> DEFINE U == UpdateOnWake(K, p)
             X == {t \in Ready(K) : K.prio[t] = p}
  <1>1. /\ p \in Int /\ p > NoPriority /\ K.cur \in Int /\ Ready(K) \subseteq Task
        /\ \A t \in Ready(K) : K.prio[t] \in Int
        /\ Ready(K) \subseteq K.used \cap K.active /\ Ready(K) # {}
        /\ K0.exec \subseteq K.used \cap K.active
    BY TableAssumption DEF Kernel, Priority, NoPriority, Ready, Agrees
  <1>2. U \in Kernel
    <2>1. p \in NoPriority .. HighestPriority
      BY TableAssumption DEF Priority, NoPriority
    <2>2. QED
      BY <2>1, UpdateOnWakeKernel
  <1>3. CASE p < K.cur
    <2>1. U = K
      BY <1>3 DEF UpdateOnWake
    <2>2. Ready(K0) # {}
      BY <1>1, <1>3 DEF Agrees
    <2>3. /\ \A t \in Ready(K0) : K0.prio[t] <= K.cur
          /\ K.exec = {t \in Ready(K0) : K0.prio[t] = K.cur} /\ K.exec # {}
      BY <2>2 DEF Agrees
    <2>4. \A t \in Ready(K) \ Ready(K0) : K.prio[t] < K.cur
      BY <1>1, <1>3
    <2>5. K.exec = {t \in Ready(K) : K.prio[t] = K.cur}
      BY <1>1, <2>3, <2>4
    <2>6. \A t \in Ready(K) : K.prio[t] <= K.cur
      BY <1>1, <2>3, <2>4
    <2>7. Agrees(K)
      BY <1>1, <2>3, <2>5, <2>6 DEF Agrees
    <2>8. QED
      BY <1>2, <2>1, <2>7 DEF SameTasks
  <1>4. CASE ~(p < K.cur)
    <2>1. U = [K EXCEPT !.cur = p, !.exec = X, !.pend = @ \/ p > K.cur]
      BY <1>4 DEF UpdateOnWake
    <2> HIDE DEF X
    <2>2. /\ SameTasks(U, K) /\ U.current = K.current /\ U.exec = X /\ U.cur = p
          /\ p > K.cur => U.pend
      BY <2>1 DEF Kernel, SameTasks
    <2> HIDE DEF U
    <2>3. Ready(U) = Ready(K)
      BY <2>2 DEF Ready, SameTasks
    <2>4. \A t \in Ready(K) : K.prio[t] <= p
      <3>1. \A t \in Ready(K0) : K0.prio[t] <= K0.cur
        BY DEF Agrees
      <3>2. QED
        BY <1>1, <1>4, <3>1
    <2>5. Agrees(U)
      BY <1>1, <2>2, <2>3, <2>4 DEF Agrees, SameTasks, X
    <2>6. p = K.cur => K0.exec \subseteq X
      <3>1. p = K.cur => Ready(K0) # {}
        BY <1>1 DEF Agrees
      <3>2. Ready(K0) # {} => K0.exec = {t \in Ready(K0) : K0.prio[t] = K.cur}
        BY DEF Agrees
      <3>3. QED
        BY <3>1, <3>2 DEF X
    <2>7. U.pend \/ K0.exec \subseteq U.exec
      BY <1>1, <1>4, <2>2, <2>6
    <2>8. QED
      BY <1>2, <2>2, <2>5, <2>7 DEF U
  <1>5. QED
    BY <1>3, <1>4

\* Without the agreement, the table stays sound.
LEMMA WakeSound ==
    ASSUME NEW K \in Kernel, K.exec \subseteq K.used, NEW p \in NoPriority .. HighestPriority
    PROVE  LET U == UpdateOnWake(K, p)
           IN  /\ U \in Kernel /\ U.exec \subseteq U.used /\ SameTasks(U, K)
               /\ U.current = K.current
  <1> DEFINE U == UpdateOnWake(K, p)
             X == {t \in Ready(K) : K.prio[t] = p}
  <1>1. U \in Kernel
    BY UpdateOnWakeKernel
  <1>2. CASE p < K.cur
    BY <1>1, <1>2 DEF UpdateOnWake, SameTasks
  <1>3. CASE ~(p < K.cur)
    <2>1. U = [K EXCEPT !.cur = p, !.exec = X, !.pend = @ \/ p > K.cur]
      BY <1>3 DEF UpdateOnWake
    <2>2. X \subseteq K.used
      BY DEF Ready
    <2> HIDE DEF X
    <2>3. SameTasks(U, K) /\ U.current = K.current /\ U.exec = X
      BY <2>1 DEF Kernel, SameTasks
    <2> HIDE DEF U
    <2>4. QED
      BY <1>1, <2>2, <2>3 DEF SameTasks, U
  <1>4. QED
    BY <1>2, <1>3

\* sched_priv_update_on_stopped() brings the agreement about, and switches.
LEMMA StopAgrees ==
    ASSUME NEW K \in Kernel, K.exec \subseteq K.used
    PROVE  LET U == UpdateOnStopped(K)
           IN  /\ U \in Kernel /\ U.exec \subseteq U.used /\ SameTasks(U, K) /\ U.pend
               /\ K.exec \subseteq K.active => Agrees(U)
  <1> DEFINE K1 == [K EXCEPT !.cur = NoPriority]
             p  == TopPriority(K1, Ready(K1))
             X  == {t \in Ready(K1) : K1.prio[t] = p}
             U  == UpdateOnStopped(K)
  <1>1. K1 \in Kernel
    BY TableAssumption DEF Kernel, NoPriority
  <1>2. SameTasks(K1, K) /\ K1.exec = K.exec /\ K1.cur = NoPriority
    BY DEF SameTasks, Kernel
  <1>3. U \in Kernel
    BY UpdateOnStoppedKernel
  <1>4. U = IF Ready(K1) = {} THEN SwitchContext(K1) ELSE UpdateOnWake(K1, p)
    BY DEF UpdateOnStopped
  <1>5. Ready(K1) \subseteq Task /\ Ready(K1) \subseteq (K.used \cap K.active) \ K.stopped
    BY <1>2 DEF Ready, SameTasks, Kernel
  <1> HIDE DEF K1
  <1>6. CASE Ready(K1) = {}
    <2>1. U = [K1 EXCEPT !.pend = TRUE]
      BY <1>4, <1>6 DEF SwitchContext
    <2>2. SameTasks(U, K1) /\ U.exec = K1.exec /\ U.cur = NoPriority /\ U.pend
      BY <1>1, <1>2, <2>1 DEF SameTasks, Kernel
    <2> HIDE DEF U
    <2>3. Ready(U) = {}
      BY <1>6, <2>2 DEF Ready, SameTasks
    <2>4. K.exec \subseteq K.active => K.exec \subseteq K.stopped
      BY <1>2, <1>6 DEF Ready, SameTasks
    <2>5. K.exec \subseteq K.active => Agrees(U)
      BY <1>2, <2>2, <2>3, <2>4 DEF Agrees, SameTasks
    <2>6. QED
      BY <1>2, <1>3, <2>2, <2>5 DEF SameTasks, U
  <1>7. CASE Ready(K1) # {}
    <2>1. /\ p \in Priority /\ \E t \in Ready(K1) : K1.prio[t] = p
          /\ \A t \in Ready(K1) : K1.prio[t] <= p
      BY <1>1, <1>5, <1>7, TopPriorityIsMax
    <2>2. p \in Int /\ p > NoPriority
      BY <2>1, TableAssumption DEF Priority, NoPriority
    <2> HIDE DEF p
    <2>3. U = [K1 EXCEPT !.cur = p, !.exec = X, !.pend = @ \/ p > K1.cur]
      BY <1>2, <1>4, <1>7, <2>2 DEF UpdateOnWake, NoPriority
    <2> HIDE DEF X
    <2>4. SameTasks(U, K1) /\ U.exec = X /\ U.cur = p /\ U.pend
      BY <1>1, <1>2, <2>2, <2>3 DEF SameTasks, Kernel
    <2> HIDE DEF U
    <2>5. Ready(U) = Ready(K1)
      BY <2>4 DEF Ready, SameTasks
    <2>6. X # {} /\ X \subseteq K.used \cap K.active
      BY <1>5, <2>1 DEF X
    <2>7. Agrees(U)
      BY <1>2, <1>7, <2>1, <2>4, <2>5, <2>6 DEF Agrees, SameTasks, X
    <2>8. QED
      BY <1>2, <1>3, <2>4, <2>6, <2>7 DEF SameTasks, U
  <1>8. QED
    BY <1>6, <1>7

-----------------------------------------------------------------------------
\* What the privileged calls leave behind.

\* Waking a task or more: the table is sound, and agrees if it agreed before
\* and the priority is right.
LEMMA WakeTable ==
    ASSUME NEW K \in Kernel, K.exec \subseteq K.used, K.current \in K.used \cup {0},
           NEW p \in NoPriority .. HighestPriority, NEW R \in Leave(UpdateOnWake(K, p))
    PROVE  Sound(R) /\ SameTasks(R, K)
  <1> DEFINE U == UpdateOnWake(K, p)
  <1>1. /\ U \in Kernel /\ U.exec \subseteq U.used /\ SameTasks(U, K)
        /\ U.current = K.current
    BY WakeSound
  <1>2. R \in Leave(U)
    OBVIOUS
  <1> HIDE DEF U
  <1>3. U.current \in U.used \cup {0}
    BY <1>1 DEF SameTasks
  <1>4. Sound(R) /\ SameTasks(R, U)
    BY <1>1, <1>2, <1>3, LeaveTable
  <1>5. QED
    BY <1>1, <1>4 DEF SameTasks

LEMMA WakeExecutes ==
    ASSUME NEW K0 \in Kernel, Executes(K0), NEW K \in Kernel, NEW p \in Priority,
           Ready(K0) \subseteq Ready(K),
           \A t \in Ready(K0) : K.prio[t] = K0.prio[t],
           \A t \in Ready(K) \ Ready(K0) : K.prio[t] <= p,
           \E t \in Ready(K) : K.prio[t] = p,
           K.cur = K0.cur, K.exec = K0.exec, K.used = K0.used, K0.active \subseteq K.active,
           K.current = K0.current, NEW R \in Leave(UpdateOnWake(K, p))
    PROVE  Executes(R)
  <1> DEFINE U == UpdateOnWake(K, p)
  <1>1. Agrees(K0) /\ K0.current \in K0.exec \cup {0}
    BY DEF Executes
  <1>2. /\ U \in Kernel /\ Agrees(U) /\ U.current = K.current
        /\ U.pend \/ K0.exec \subseteq U.exec
    BY <1>1, WakeAgrees
  <1>3. R \in Leave(U)
    OBVIOUS
  <1> HIDE DEF U
  <1>4. U.pend \/ U.current \in U.exec \cup {0}
    BY <1>1, <1>2
  <1>5. QED
    BY <1>2, <1>3, <1>4, LeaveExecutes

\* sched_priv_update_on_stopped()
LEMMA StopTable ==
    ASSUME NEW K \in Kernel, K.exec \subseteq K.used, NEW R \in Leave(UpdateOnStopped(K))
    PROVE  /\ Sound(R) /\ SameTasks(R, K)
           /\ K.exec \subseteq K.active => Executes(R)
  <1> DEFINE U == UpdateOnStopped(K)
  <1>1. /\ U \in Kernel /\ U.exec \subseteq U.used /\ SameTasks(U, K) /\ U.pend
        /\ K.exec \subseteq K.active => Agrees(U)
    BY StopAgrees
  <1>2. R \in Leave(U)
    OBVIOUS
  <1> HIDE DEF U
  <1>3. Sound(R) /\ SameTasks(R, U)
    BY <1>1, <1>2, LeaveTable
  <1>4. K.exec \subseteq K.active => Executes(R)
    BY <1>1, <1>2, LeaveExecutes
  <1>5. QED
    BY <1>1, <1>3, <1>4 DEF SameTasks

\* The running task goes to sleep.
LEMMA SleepTable ==
    ASSUME NEW K \in Kernel, K.exec \subseteq K.used, NEW R \in Leave(UpdateOnSleep(K))
    PROVE  /\ Sound(R)
           /\ R.used = K.used /\ R.inuse = K.inuse /\ R.active = K.active \ {K.current}
           /\ R.stopped = K.stopped
           /\ K.exec \subseteq K.active => Executes(R)
  <1> DEFINE D == DeassertActive(K, K.current)
  <1>1. /\ D \in Kernel /\ D.used = K.used /\ D.inuse = K.inuse
        /\ D.active = K.active \ {K.current} /\ D.exec = K.exec \ {K.current}
        /\ D.stopped = K.stopped
    BY DEF DeassertActive, Kernel
  <1>2. R \in Leave(UpdateOnStopped(D))
    BY DEF UpdateOnSleep
  <1> HIDE DEF D
  <1>3. /\ Sound(R) /\ SameTasks(R, D)
        /\ D.exec \subseteq D.active => Executes(R)
    BY <1>1, <1>2, StopTable
  <1>4. QED
    BY <1>1, <1>3 DEF SameTasks

\* Tasks other than the running one are deleted.
LEMMA DeletedTable ==
    ASSUME NEW K, Sound(K), NEW S \in SUBSET Task, K.current \in Task \ S,
           NEW R \in Leave(Deleted(K, S))
    PROVE  /\ Sound(R)
           /\ R.used = K.used \ S /\ R.inuse = K.inuse \ S /\ R.active = K.active \ S
           /\ R.stopped = K.stopped \ S
           /\ Executes(K) => Executes(R)
  <1> DEFINE D == Deleted(K, S)
  <1>1. /\ D \in Kernel /\ D.used = K.used \ S /\ D.inuse = K.inuse \ S
        /\ D.active = K.active \ S /\ D.exec = K.exec \ S
        /\ D.stopped = K.stopped \ S /\ D.current = K.current
        /\ D.prio = K.prio /\ D.cur = K.cur
    BY DEF Deleted, Kernel, Sound
  <1>2. R \in Leave(D)
    OBVIOUS
  <1> HIDE DEF D
  <1>3. D.exec \subseteq D.used /\ D.current \in D.used \cup {0}
    BY <1>1 DEF Sound
  <1>4. Sound(R) /\ SameTasks(R, D)
    BY <1>1, <1>2, <1>3, LeaveTable
  <1>5. ASSUME Executes(K) PROVE Executes(R)
    <2>1. Ready(D) = Ready(K) \ S
      BY <1>1 DEF Ready
    <2>2. K.current \in K.exec \cup {0} /\ Agrees(K)
      BY <1>5 DEF Executes
    <2>3. D.current \in D.exec \cup {0}
      BY <1>1, <2>2
    <2>4. CASE Ready(K) = {}
      <3>1. Agrees(D)
        BY <1>1, <2>1, <2>2, <2>4 DEF Agrees
      <3>2. QED
        BY <1>1, <1>2, <2>3, <3>1, LeaveExecutes
    <2>5. CASE Ready(K) # {}
      <3>1. /\ \A t \in Ready(K) : K.prio[t] <= K.cur
            /\ K.exec = {t \in Ready(K) : K.prio[t] = K.cur}
            /\ K.exec \subseteq K.used \cap K.active
        BY <2>2, <2>5 DEF Agrees
      <3>2. /\ \A t \in Ready(D) : D.prio[t] <= D.cur
            /\ D.exec = {t \in Ready(D) : D.prio[t] = D.cur}
            /\ D.exec \subseteq D.used \cap D.active
        BY <1>1, <2>1, <3>1
      <3>3. D.exec # {} /\ Ready(D) # {}
        <4>1. K.current \in K.exec \ S
          BY <2>2, TableAssumption DEF Task
        <4>2. QED
          BY <1>1, <3>2, <4>1
      <3>4. Agrees(D)
        BY <3>2, <3>3 DEF Agrees
      <3>5. QED
        BY <1>1, <1>2, <2>3, <3>4, LeaveExecutes
    <2>6. QED
      BY <2>4, <2>5
  <1>6. QED
    BY <1>1, <1>4, <1>5 DEF SameTasks

-----------------------------------------------------------------------------
\* The last steps of _exit(), which only a zombie takes, and all of them.
Late   == {"close", "chld", "send", "zombie"}
Ending == Late \cup {"exit"}

Reg == [new : 0 .. TaskTotal - 1, prio : Priority, send : BOOLEAN, to : Nat, next : Nat,
        want : Nat, tid : Int]

\* Where things are: entries that are not in use run no code, and an entry that
\* a thread is about to start, or to signal, is one of the table.
Places ==
    /\ Sound(k)
    /\ pid \in [Task -> Pid] /\ parent \in [Task -> 0 .. TaskTotal - 1]
    /\ zombie \subseteq k.used /\ pc \in [Task -> PC] /\ reg \in [Task -> Reg]
    /\ \A t \in Task \ k.used : pc[t] = "none"
    /\ \A t \in Task : pc[t] \in {"init", "send"} => reg[t].new \in Task

\* A process in the table has not been reaped, and a zombie is alone in its
\* process and stays in _exit().
FamilyInv ==
    /\ pids \in 1 .. MaxPids /\ reaps \in [Pid -> 0 .. 1]
    /\ \A p \in Pid : p > pids => reaps[p] = 0
    /\ \A t \in k.used : pid[t] \in 1 .. pids /\ reaps[pid[t]] = 0
    /\ \A t \in Task : parent[t] # 0 => pid[parent[t]] # 0
    /\ \A z \in zombie : /\ pc[z] \in Ending
                         /\ \A t \in k.used : pid[t] = pid[z] => t = z

\* Thread c sleeps in a waitpid() that z would end ...
WaitsFor(c, z) ==
    /\ pc[c] = "woken" /\ c \notin k.active
    /\ z \in Children(c) /\ reg[c].want \in {0, pid[z]}

\* ... and z has SIGCHLD for c before it.
WillTell(z, c) ==
    \/ pc[z] = "exit"
    \/ pc[z] = "close" /\ reg[z].send /\ reg[z].next = 0
    \/ pc[z] = "chld" /\ reg[z].to = pid[c] /\ reg[z].next <= c
    \/ pc[z] = "send" /\ reg[z].to = pid[c] /\ (reg[z].next <= c \/ reg[z].new = c)

NotifyInv ==
    spoilt \cap {"again", "adopted"} = {} =>
        \A z \in zombie, c \in k.used : WaitsFor(c, z) => WillTell(z, c)

\* No entry is executed before the scheduler knows it; its creator goes on to
\* activate it, unless it ends together with it.
BirthInv ==
    /\ k.inuse \subseteq k.used /\ k.active \subseteq k.used \ Unborn
    /\ \A t \in Task : pc[t] \in Late => t \in zombie
    /\ \A t \in Task : pc[t] = "init" =>
          /\ reg[t].new \in Unborn
          /\ \A s \in Task : pc[s] = "init" /\ reg[s].new = reg[t].new => s = t
          /\ pid[reg[t].new] # pid[t] =>
                \A s \in k.used : pid[s] = pid[reg[t].new] => s = reg[t].new

ProcessInv ==
    /\ Places /\ FamilyInv /\ NotifyInv
    /\ spoilt = {} => BirthInv /\ Executes(k)

\* The running thread.
LEMMA Runner ==
    ASSUME ProcessInv, NEW c \in Task, k.current = c
    PROVE  /\ c \in k.used /\ pid[c] \in 1 .. pids
           /\ spoilt = {} => c \in k.exec /\ c \in k.active /\ c \notin Unborn
  <1>1. c # 0
    BY TableAssumption DEF Task
  <1>2. c \in k.used /\ pid[c] \in 1 .. pids
    BY <1>1 DEF ProcessInv, Places, Sound, FamilyInv
  <1>3. ASSUME spoilt = {} PROVE c \in k.exec /\ c \in k.active /\ c \notin Unborn
    BY <1>1, <1>3 DEF ProcessInv, BirthInv, Executes, Agrees
  <1>4. QED
    BY <1>2, <1>3

\* Thread c takes a step in which no entry is handed out, deleted or reaped.
LEMMA OwnStep ==
    ASSUME ProcessInv, NEW c \in Task,
           UNCHANGED <<pid, parent, zombie, pids, reaps>>, spoilt \subseteq spoilt',
           Sound(k'), k'.used = k.used, k.active \ {c} \subseteq k'.active,
           pc' \in [Task -> PC], reg' \in [Task -> Reg],
           \A t \in Task \ {c} : pc'[t] = pc[t] /\ reg'[t] = reg[t],
           c \in k.used \/ pc'[c] = "none",
           pc'[c] \in {"init", "send"} => reg'[c].new \in Task,
           c \in zombie => pc'[c] \in Ending,
           pc'[c] = "woken" =>
              \/ pc[c] = "woken" /\ reg'[c].want = reg[c].want /\ (c \in k.active => c \in k'.active)
              \/ \A z \in zombie \cap Children(c) : reg'[c].want \notin {0, pid[z]},
           c \in zombie => \A d \in k.used \ k'.active :
              WaitsFor(d, c) /\ WillTell(c, d) => WillTell(c, d)',
           spoilt' = {} => /\ Executes(k')
                           /\ k'.active \ k.active \subseteq k.used \ Unborn
                           /\ k'.inuse \subseteq k.inuse /\ k.inuse \subseteq k'.inuse \cup zombie
                           /\ pc'[c] \in Late => c \in zombie
                           /\ pc'[c] = "init" => pc[c] = "init" /\ reg'[c].new = reg[c].new
    PROVE  ProcessInv'
  <1> USE DEF ProcessInv
  <1>1. Places'
    BY DEF Places
  <1>2. FamilyInv'
    <2>1. zombie \subseteq Task
      BY DEF Places, Sound, Kernel
    <2>2. \A z \in zombie : pc'[z] \in Ending
      BY <2>1 DEF FamilyInv
    <2>3. QED
      BY <2>2 DEF FamilyInv
  <1>3. NotifyInv'
    <2> SUFFICES ASSUME spoilt' \cap {"again", "adopted"} = {},
                        NEW z \in zombie', NEW d \in k'.used, WaitsFor(d, z)'
                 PROVE  WillTell(z, d)'
      BY DEF NotifyInv
    <2>1. /\ z \in zombie /\ z \in Task /\ d \in k.used /\ d \in Task
          /\ pc'[d] = "woken" /\ d \notin k'.active
          /\ z \in Children(d) /\ reg'[d].want \in {0, pid[z]}
      BY DEF WaitsFor, Children, PidOf, Places, Sound, Kernel
    <2>2. WaitsFor(d, z)
      <3>1. CASE d = c
        BY <2>1, <3>1 DEF WaitsFor
      <3>2. CASE d # c
        BY <2>1, <3>2 DEF WaitsFor
      <3>3. QED
        BY <3>1, <3>2
    <2>3. WillTell(z, d)
      BY <2>1, <2>2 DEF NotifyInv
    <2>4. CASE z = c
      BY <2>1, <2>2, <2>3, <2>4
    <2>5. CASE z # c
      BY <2>1, <2>3, <2>5 DEF WillTell
    <2>6. QED
      BY <2>4, <2>5
  <1>4. ASSUME spoilt' = {} PROVE BirthInv'
    <2>1. BirthInv
      BY <1>4
    <2>2. Unborn' = Unborn
      BY <1>4 DEF Unborn
    <2>3. k'.inuse \subseteq k'.used /\ k'.active \subseteq k'.used \ Unborn
      BY <1>4, <2>1 DEF BirthInv
    <2>4. \A t \in Task : pc'[t] \in Late => t \in zombie
      BY <1>4, <2>1 DEF BirthInv
    <2>5. \A t \in Task : pc'[t] = "init" => pc[t] = "init" /\ reg'[t].new = reg[t].new
      BY <1>4
    <2>6. QED
      BY <2>1, <2>2, <2>3, <2>4, <2>5 DEF BirthInv
  <1>5. QED
    BY <1>1, <1>2, <1>3, <1>4

\* Nothing but the table changes.
LEMMA TableStep ==
    ASSUME ProcessInv,
           UNCHANGED <<pid, parent, zombie, pids, reaps, pc, reg>>, spoilt \subseteq spoilt',
           Sound(k'), k'.used = k.used, k'.inuse = k.inuse, k.active \subseteq k'.active,
           spoilt' = {} => Executes(k') /\ k'.active \ k.active \subseteq k.used \ Unborn
    PROVE  ProcessInv'
  <1>1. 1 \in Task
    BY TableAssumption DEF Task
  <1>2. /\ pc' \in [Task -> PC] /\ reg' \in [Task -> Reg]
        /\ 1 \in k.used \/ pc'[1] = "none"
        /\ pc'[1] \in {"init", "send"} => reg'[1].new \in Task
        /\ 1 \in zombie => pc'[1] \in Ending
    BY <1>1 DEF ProcessInv, Places, FamilyInv
  <1>3. 1 \in zombie => \A d \in k.used \ k'.active : WillTell(1, d) => WillTell(1, d)'
    BY DEF WillTell
  <1>4. spoilt' = {} => (pc'[1] \in Late => 1 \in zombie)
    BY <1>1 DEF ProcessInv, BirthInv
  <1>5. /\ \A t \in Task \ {1} : pc'[t] = pc[t] /\ reg'[t] = reg[t]
        /\ k.active \ {1} \subseteq k'.active
        /\ pc'[1] = "woken" =>
              pc[1] = "woken" /\ reg'[1].want = reg[1].want /\ (1 \in k.active => 1 \in k'.active)
        /\ pc'[1] = "init" => pc[1] = "init" /\ reg'[1].new = reg[1].new
    OBVIOUS
  <1>6. QED
    BY <1>1, <1>2, <1>3, <1>4, <1>5, OwnStep

-----------------------------------------------------------------------------
\* The tasks of S are made active; before, their flags and priorities may have
\* been set.
LEMMA AssertedTable ==
    ASSUME NEW K0, Sound(K0), NEW K \in Kernel,
           K.used = K0.used, K.exec = K0.exec, K.cur = K0.cur, K.active = K0.active,
           K.current = K0.current,
           NEW S \in SUBSET Task, NEW u \in UnblockType, NEW p \in Priority,
           NEW R \in Leave(UpdateOnWake(AssertActive(K, S, u), p))
    PROVE  /\ Sound(R) /\ R.used = K.used /\ R.inuse = K.inuse
           /\ R.active = K.active \cup S /\ R.stopped = K.stopped
           /\ /\ Executes(K0) /\ S \subseteq K.used \ K.stopped
              /\ K.stopped \ S = K0.stopped \ S
              /\ \A t \in Ready(K0) : K.prio[t] = K0.prio[t]
              /\ \A t \in S : K.prio[t] <= p
              /\ \E t \in S : K.prio[t] = p
              => Executes(R)
  <1> DEFINE A == AssertActive(K, S, u)
  <1>1. A \in Kernel
    BY AssertActiveKernel
  <1>2. /\ A.used = K.used /\ A.inuse = K.inuse /\ A.active = K.active \cup S
        /\ A.stopped = K.stopped /\ A.prio = K.prio /\ A.exec = K.exec /\ A.cur = K.cur
        /\ A.current = K.current
    BY DEF AssertActive, Kernel
  <1>3. R \in Leave(UpdateOnWake(A, p))
    OBVIOUS
  <1> HIDE DEF A
  <1>4. p \in NoPriority .. HighestPriority
    BY TableAssumption DEF Priority, NoPriority
  <1>5. A.exec \subseteq A.used /\ A.current \in A.used \cup {0}
    BY <1>2 DEF Sound
  <1>6. Sound(R) /\ SameTasks(R, A)
    BY <1>1, <1>3, <1>4, <1>5, WakeTable
  <1>7. ASSUME Executes(K0), S \subseteq K.used \ K.stopped, K.stopped \ S = K0.stopped \ S,
               \A t \in Ready(K0) : K.prio[t] = K0.prio[t],
               \A t \in S : K.prio[t] <= p, \E t \in S : K.prio[t] = p
        PROVE  Executes(R)
    <2>1. Ready(A) = Ready(K0) \cup S
      BY <1>2, <1>7 DEF Ready
    <2>2. /\ Ready(K0) \subseteq Ready(A)
          /\ \A t \in Ready(K0) : A.prio[t] = K0.prio[t]
          /\ \A t \in Ready(A) \ Ready(K0) : A.prio[t] <= p
          /\ \E t \in Ready(A) : A.prio[t] = p
      BY <1>2, <1>7, <2>1
    <2>3. K0 \in Kernel /\ A.cur = K0.cur /\ A.exec = K0.exec /\ A.used = K0.used
          /\ K0.active \subseteq A.active /\ A.current = K0.current
      BY <1>2 DEF Sound
    <2>4. QED
      BY <1>1, <1>3, <1>7, <2>2, <2>3, WakeExecutes
  <1>8. QED
    BY <1>2, <1>6, <1>7 DEF SameTasks

\* signal_priv_activate(), of a task that is still there.
LEMMA ActivatedTable ==
    ASSUME NEW K, Sound(K), NEW t \in Task, NEW R \in Leave(SignalActivate(K, t))
    PROVE  /\ Sound(R) /\ R.used = K.used /\ R.inuse = K.inuse
           /\ R.active = K.active \cup {t}
           /\ Executes(K) /\ t \in K.used => Executes(R)
  <1> DEFINE M == [K EXCEPT !.stopped = @ \ {t}]
  <1>1. /\ M \in Kernel /\ M.used = K.used /\ M.exec = K.exec /\ M.cur = K.cur
        /\ M.active = K.active /\ M.current = K.current /\ M.inuse = K.inuse
        /\ M.stopped = K.stopped \ {t} /\ M.prio = K.prio
    BY DEF Sound, Kernel
  <1>2. K.prio[t] \in Priority /\ "SIGNAL" \in UnblockType /\ {t} \in SUBSET Task
    BY DEF Sound, Kernel, UnblockType
  <1>3. R \in Leave(UpdateOnWake(AssertActive(M, {t}, "SIGNAL"), K.prio[t]))
    BY DEF SignalActivate
  <1> HIDE DEF M
  <1>4. /\ Sound(R) /\ R.used = M.used /\ R.inuse = M.inuse /\ R.active = M.active \cup {t}
        /\ /\ Executes(K) /\ {t} \subseteq M.used \ M.stopped
           /\ M.stopped \ {t} = K.stopped \ {t}
           /\ \A s \in Ready(K) : M.prio[s] = K.prio[s]
           /\ \A s \in {t} : M.prio[s] <= K.prio[t]
           /\ \E s \in {t} : M.prio[s] = K.prio[t]
           => Executes(R)
    BY <1>1, <1>2, <1>3, AssertedTable
  <1>5. K.prio[t] <= K.prio[t]
    BY <1>2 DEF Priority
  <1>6. QED
    BY <1>1, <1>4, <1>5

\* priv_init_sched_task() and priv_activate_thread() write the entry of a task
\* that sleeps, or has never been executed, and make it active.
LEMMA BornTable ==
    ASSUME NEW K, Sound(K), NEW t \in Task, NEW p \in Priority, NEW R,
           R \in Leave(UpdateOnWake(AssertActive(
                           [K EXCEPT !.inuse = @ \cup {t}, !.stopped = @ \ {t},
                                     !.prio[t] = p, !.base[t] = p], {t}, "NONE"), p))
    PROVE  /\ Sound(R) /\ R.used = K.used /\ R.inuse = K.inuse \cup {t}
           /\ R.active = K.active \cup {t}
           /\ Executes(K) /\ t \in K.used \ K.active => Executes(R)
  <1> DEFINE M == [K EXCEPT !.inuse = @ \cup {t}, !.stopped = @ \ {t},
                            !.prio[t] = p, !.base[t] = p]
  <1>0. R \in Leave(UpdateOnWake(AssertActive(M, {t}, "NONE"), p))
    OBVIOUS
  <1>1. /\ M \in Kernel /\ M.used = K.used /\ M.exec = K.exec /\ M.cur = K.cur
        /\ M.active = K.active /\ M.current = K.current /\ M.inuse = K.inuse \cup {t}
        /\ M.stopped = K.stopped \ {t}
        /\ M.prio[t] = p /\ \A s \in Task \ {t} : M.prio[s] = K.prio[s]
    BY DEF Sound, Kernel
  <1>2. "NONE" \in UnblockType /\ {t} \in SUBSET Task /\ p <= p
    BY DEF UnblockType, Priority
  <1> HIDE DEF M
  <1>3. /\ Sound(R) /\ R.used = M.used /\ R.inuse = M.inuse /\ R.active = M.active \cup {t}
        /\ /\ Executes(K) /\ {t} \subseteq M.used \ M.stopped
           /\ M.stopped \ {t} = K.stopped \ {t}
           /\ \A s \in Ready(K) : M.prio[s] = K.prio[s]
           /\ \A s \in {t} : M.prio[s] <= p
           /\ \E s \in {t} : M.prio[s] = p
           => Executes(R)
    BY <1>0, <1>1, <1>2, AssertedTable
  <1>4. Ready(K) \subseteq Task /\ (t \notin K.active => t \notin Ready(K))
    BY DEF Ready, Sound, Kernel
  <1>5. QED
    BY <1>1, <1>2, <1>3, <1>4

\* SysTick and PendSV
LEMMA SysTickInv ==
    ASSUME ProcessInv, SysTick
    PROVE  ProcessInv'
  <1> DEFINE K == SwitchContext(k)
  <1>1. Sound(k)
    BY DEF ProcessInv, Places
  <1>2. K \in Kernel /\ SameTasks(K, k) /\ K.exec = k.exec /\ K.cur = k.cur /\ K.pend
    BY <1>1 DEF SwitchContext, Sound, Kernel, SameTasks
  <1>3. k' \in Leave(K) /\ UNCHANGED <<pid, parent, zombie, pids, reaps, pc, reg, spoilt>>
    BY DEF SysTick, proc, bounds
  <1> HIDE DEF K
  <1>4. K.exec \subseteq K.used
    BY <1>1, <1>2 DEF Sound, SameTasks
  <1>5. Sound(k') /\ SameTasks(k', K)
    BY <1>2, <1>3, <1>4, LeaveTable
  <1>6. ASSUME spoilt = {} PROVE Executes(k')
    <2>1. Agrees(k)
      BY <1>6 DEF ProcessInv, Executes
    <2>2. Ready(K) = Ready(k)
      BY <1>2 DEF Ready, SameTasks
    <2>3. Agrees(K)
      BY <1>2, <2>1, <2>2 DEF Agrees, SameTasks
    <2>4. QED
      BY <1>2, <1>3, <2>3, LeaveExecutes
  <1>7. /\ k'.used = k.used /\ k'.inuse = k.inuse /\ k'.active = k.active
    BY <1>2, <1>5 DEF SameTasks
  <1>8. QED
    BY <1>3, <1>5, <1>6, <1>7, TableStep

\* The timer wakes sleepers.
LEMMA TimerMatchInv ==
    ASSUME ProcessInv, TimerMatch
    PROVE  ProcessInv'
  <1>1. Sound(k) /\ k \in Kernel
    BY DEF ProcessInv, Places, Sound
  <1>2. PICK S \in (SUBSET Sleepers(k)) \ {{}} :
           /\ k' \in Leave(MatchEvent(k, S))
           /\ spoilt' = spoilt \cup Spoil("woken", S \cap k.stopped # {})
                               \cup Spoil("unborn", S \cap Unborn # {})
           /\ UNCHANGED <<proc, frames, pc, reg, reaps, bounds>>
    BY DEF TimerMatch
  <1>3. S \in SUBSET Task /\ S # {} /\ S \subseteq k.used
    BY <1>1, <1>2 DEF Sleepers, Kernel
  <1> DEFINE p == TopPriority(k, S)
  <1>4. /\ p \in Priority /\ \E t \in S : k.prio[t] = p
        /\ \A t \in S : k.prio[t] <= p
    BY <1>1, <1>3, TopPriorityIsMax
  <1>5. k' \in Leave(UpdateOnWake(AssertActive(k, S, "SLEEP"), p)) /\ "SLEEP" \in UnblockType
    BY <1>2 DEF MatchEvent, UnblockType
  <1> HIDE DEF p
  <1>6. /\ Sound(k') /\ k'.used = k.used /\ k'.inuse = k.inuse
        /\ k'.active = k.active \cup S
        /\ /\ Executes(k) /\ S \subseteq k.used \ k.stopped
           => Executes(k')
    BY <1>1, <1>3, <1>4, <1>5, AssertedTable
  <1>7. ASSUME spoilt' = {}
        PROVE  Executes(k') /\ k'.active \ k.active \subseteq k.used \ Unborn
    <2>1. spoilt = {} /\ S \cap k.stopped = {} /\ S \cap Unborn = {}
      BY <1>2, <1>7 DEF Spoil
    <2>2. Executes(k)
      BY <2>1 DEF ProcessInv
    <2>3. QED
      BY <1>3, <1>6, <2>1, <2>2
  <1>8. spoilt \subseteq spoilt' /\ UNCHANGED <<pid, parent, zombie, pids, reaps, pc, reg>>
    BY <1>2 DEF proc, bounds
  <1>9. QED
    BY <1>6, <1>7, <1>8, TableStep

\* signal_priv_send() and task_interrupt(), whether or not the entry is a task's.
LEMMA SignalInv ==
    ASSUME ProcessInv, NEW t \in Task, NEW s \in Signo, Signal(t, s)
    PROVE  ProcessInv'
  <1>1. Sound(k)
    BY DEF ProcessInv, Places
  <1>2. /\ k' \in Leave(SignalActivate(k, t))
        /\ UNCHANGED <<pid, parent, zombie, pids, reaps, pc, reg>>
        /\ spoilt' = spoilt \cup Spoil("ghost", t \notin k.used) \cup Spoil("unborn", t \in Unborn)
    BY DEF Signal, Interrupt, proc
  <1>3. /\ Sound(k') /\ k'.used = k.used /\ k'.inuse = k.inuse
        /\ k'.active = k.active \cup {t}
        /\ Executes(k) /\ t \in k.used => Executes(k')
    BY <1>1, <1>2, ActivatedTable
  <1>4. ASSUME spoilt' = {}
        PROVE  Executes(k') /\ k'.active \ k.active \subseteq k.used \ Unborn
    <2>1. spoilt = {} /\ t \in k.used /\ t \notin Unborn
      BY <1>2, <1>4 DEF Spoil
    <2>2. Executes(k)
      BY <2>1 DEF ProcessInv
    <2>3. QED
      BY <1>3, <2>1, <2>2
  <1>5. spoilt \subseteq spoilt' /\ k.active \subseteq k'.active
    BY <1>2, <1>3
  <1>6. QED
    BY <1>2, <1>3, <1>4, <1>5, TableStep

-----------------------------------------------------------------------------
\* Steps of a thread.

\* The thread in the middle of a step has an entry, and its registers.
LEMMA Here ==
    ASSUME ProcessInv, NEW c \in Task, NEW l, At(c, l)
    PROVE  /\ k.current = c /\ pc[c] = l /\ c \in k.used /\ pid[c] \in 1 .. pids
           /\ Sound(k) /\ pc \in [Task -> PC] /\ reg \in [Task -> Reg] /\ reg[c] \in Reg
           /\ c \in zombie => l \in Ending
           /\ l \notin Ending => c \notin zombie
           /\ pid[c] \in Nat \ {0}
           /\ NoReg \in Reg
           /\ spoilt = {} => /\ c \in k.exec /\ c \in k.active /\ c \notin Unborn
                             /\ Executes(k) /\ BirthInv /\ (l \in Late => c \in zombie)
  <1>1. k.current = c /\ pc[c] = l
    BY DEF At
  <1>2. /\ c \in k.used /\ pid[c] \in 1 .. pids
        /\ spoilt = {} => c \in k.exec /\ c \in k.active /\ c \notin Unborn
    BY <1>1, Runner
  <1>3. Sound(k) /\ pc \in [Task -> PC] /\ reg \in [Task -> Reg] /\ reg[c] \in Reg
    BY DEF ProcessInv, Places
  <1>4. (c \in zombie => l \in Ending) /\ pids \in Int
    BY <1>1 DEF ProcessInv, FamilyInv
  <1>5. pid[c] \in Nat \ {0}
    BY <1>2, <1>4
  <1>6. NoReg \in Reg
    BY TableAssumption DEF NoReg, Reg, Priority
  <1>7. spoilt = {} => Executes(k) /\ BirthInv /\ (l \in Late => c \in zombie)
    BY <1>1 DEF ProcessInv, BirthInv
  <1>8. QED
    BY <1>1, <1>2, <1>3, <1>4, <1>5, <1>6, <1>7

\* The files are closed; the zombie still has SIGCHLD for its parent before it.
LEMMA CloseFilesInv ==
    ASSUME ProcessInv, NEW c \in Task, CloseFiles(c)
    PROVE  ProcessInv'
  <1>1. At(c, "close")
    BY DEF CloseFiles
  <1>2. /\ k.current = c /\ pc[c] = "close" /\ c \in k.used
        /\ Sound(k) /\ pc \in [Task -> PC] /\ reg \in [Task -> Reg] /\ reg[c] \in Reg
        /\ spoilt = {} => Executes(k) /\ BirthInv /\ c \in zombie
    BY <1>1, Here DEF Late
  <1> DEFINE l == IF reg[c].send THEN "chld" ELSE "zombie"
             n == IF reg[c].send THEN PidOf(parent[c]) ELSE 0
  <1>3. /\ pc' = [pc EXCEPT ![c] = l] /\ reg' = [reg EXCEPT ![c] = [reg[c] EXCEPT !.to = n]]
        /\ UNCHANGED <<k, pid, parent, zombie, pids, reaps, spoilt>>
    BY DEF CloseFiles, Goto, Set, proc, bounds
  <1>4. n \in Nat
    <2>1. parent[c] \in 0 .. TaskTotal - 1 /\ (parent[c] # 0 => parent[c] \in Task)
          /\ pid \in [Task -> Nat]
      BY TableAssumption DEF ProcessInv, Places, Task, Pid
    <2>2. QED
      BY <2>1 DEF PidOf
  <1>5. l \in PC /\ l \in Late /\ l \in {"chld", "zombie"} /\ (reg[c].send => l = "chld")
    BY DEF PC, Late
  <1>6. c \in zombie => \A d \in k.used \ k'.active :
              WaitsFor(d, c) /\ WillTell(c, d) => WillTell(c, d)'
    <2> SUFFICES ASSUME NEW d \in k.used \ k'.active, WaitsFor(d, c), WillTell(c, d)
                 PROVE  WillTell(c, d)'
      OBVIOUS
    <2>1. reg[c].send /\ reg[c].next = 0 /\ PidOf(parent[c]) = pid[d] /\ d \in Task
      BY <1>2 DEF WaitsFor, WillTell, Children, Sound, Kernel
    <2> SUFFICES pc'[c] = "chld" /\ reg'[c].to = pid[d] /\ reg'[c].next <= d
      BY <1>3 DEF WillTell
    <2>2. pc'[c] = "chld" /\ reg'[c].to = n /\ reg'[c].next = 0
      BY <1>2, <1>3, <1>5, <2>1 DEF Reg
    <2>3. n = pid[d] /\ 0 <= d
      BY <2>1, TableAssumption DEF Task
    <2>4. QED
      BY <2>2, <2>3
  <1> HIDE DEF l, n
  <1>7. pc' \in [Task -> PC] /\ reg' \in [Task -> Reg]
    BY <1>2, <1>3, <1>4, <1>5 DEF Reg
  <1>8. /\ pc'[c] = l /\ \A t \in Task \ {c} : pc'[t] = pc[t] /\ reg'[t] = reg[t]
    BY <1>2, <1>3
  <1>9. QED
    BY <1>2, <1>3, <1>5, <1>6, <1>7, <1>8, OwnStep DEF Ending

\* The loop over the parent's threads comes to every thread that waits.
LEMMA NextTargetInv ==
    ASSUME ProcessInv, NEW c \in Task, NextTarget(c)
    PROVE  ProcessInv'
  <1>1. At(c, "chld")
    BY DEF NextTarget
  <1>2. /\ k.current = c /\ pc[c] = "chld" /\ c \in k.used
        /\ Sound(k) /\ pc \in [Task -> PC] /\ reg \in [Task -> Reg] /\ reg[c] \in Reg
        /\ NoReg \in Reg
        /\ spoilt = {} => Executes(k) /\ BirthInv /\ c \in zombie
    BY <1>1, Here DEF Late
  <1>3. UNCHANGED <<k, pid, parent, zombie, pids, reaps, spoilt>>
    BY DEF NextTarget, proc, bounds
  <1>4. ASSUME NEW l \in {"send", "zombie"}, NEW r \in Reg, l = "send" => r.new \in Task,
               pc' = [pc EXCEPT ![c] = l], reg' = [reg EXCEPT ![c] = r],
               c \in zombie => \A d \in k.used \ k'.active :
                  WaitsFor(d, c) /\ WillTell(c, d) => WillTell(c, d)'
        PROVE  ProcessInv'
    <2>1. pc' \in [Task -> PC] /\ reg' \in [Task -> Reg] /\ l \in Ending /\ l \notin {"woken", "init"}
      BY <1>2, <1>4 DEF PC, Late, Ending
    <2>2. /\ pc'[c] = l /\ \A t \in Task \ {c} : pc'[t] = pc[t] /\ reg'[t] = reg[t]
          /\ pc'[c] \in {"init", "send"} => reg'[c].new \in Task
      BY <1>2, <1>4
    <2>3. QED
      BY <1>2, <1>3, <1>4, <2>1, <2>2, OwnStep
  <1>5. Targets(c) \in SUBSET Task
    BY <1>2 DEF Targets, Sound, Kernel
  <1>6. /\ reg[c].next \in Nat /\ reg[c].to \in Nat
        /\ \A d \in k.used : WaitsFor(d, c) /\ WillTell(c, d) =>
              d \in Targets(c) /\ reg[c].to = pid[d]
    <2>1. reg[c].next \in Nat /\ reg[c].to \in Nat
      BY <1>2 DEF Reg
    <2>2. \A d \in k.used : d \in Int
      BY <1>2 DEF Sound, Kernel, Task
    <2>3. QED
      BY <1>2, <2>1, <2>2 DEF WillTell, Targets
  <1>7. CASE Targets(c) # {}
    <2> DEFINE m == Min(Targets(c))
               r == [reg[c] EXCEPT !.new = m, !.next = m + 1]
    <2>1. m \in Targets(c) /\ \A t \in Targets(c) : m <= t
      BY <1>5, <1>7, MinOfTasks
    <2>2. pc' = [pc EXCEPT ![c] = "send"] /\ reg' = [reg EXCEPT ![c] = r]
      BY <1>7 DEF NextTarget, Goto, Set
    <2> HIDE DEF m
    <2>3. m \in Task /\ m \in 0 .. TaskTotal - 1 /\ m + 1 \in Nat
      BY <1>5, <2>1, TableAssumption DEF Task
    <2>4. r \in Reg /\ r.new = m /\ r.next = m + 1 /\ r.to = reg[c].to
      BY <1>2, <2>3 DEF Reg
    <2> HIDE DEF r
    <2>5. ASSUME NEW d \in k.used \ k'.active, WaitsFor(d, c), WillTell(c, d)
          PROVE  WillTell(c, d)'
      <3>1. m <= d /\ reg[c].to = pid[d] /\ d \in Int /\ m \in Int
        BY <1>5, <1>6, <2>1, <2>3, <2>5 DEF Task
      <3>2. m + 1 <= d \/ m = d
        BY <3>1
      <3>3. pc'[c] = "send" /\ reg'[c] = r
        BY <1>2, <2>2
      <3>4. QED
        BY <1>3, <2>4, <3>1, <3>2, <3>3 DEF WillTell
    <2>6. QED
      BY <1>4, <2>2, <2>3, <2>4, <2>5
  <1>8. CASE Targets(c) = {}
    <2> DEFINE b == reg[c].next > 0
               r == [NoReg EXCEPT !.send = b]
    <2>1. pc' = [pc EXCEPT ![c] = "zombie"] /\ reg' = [reg EXCEPT ![c] = r]
      BY <1>8 DEF NextTarget, Goto, Set
    <2>2. b \in BOOLEAN
      OBVIOUS
    <2> HIDE DEF b
    <2>3. r \in Reg
      BY <1>2, <2>2 DEF Reg
    <2> HIDE DEF r
    <2>4. QED
      BY <1>4, <1>6, <1>8, <2>1, <2>3
  <1>9. QED
    BY <1>7, <1>8

\* SIGCHLD makes its target active.
LEMMA SendChldInv ==
    ASSUME ProcessInv, NEW c \in Task, SendChld(c)
    PROVE  ProcessInv'
  <1>1. At(c, "send")
    BY DEF SendChld
  <1>2. /\ k.current = c /\ pc[c] = "send" /\ c \in k.used
        /\ Sound(k) /\ pc \in [Task -> PC] /\ reg \in [Task -> Reg]
        /\ spoilt = {} => Executes(k) /\ BirthInv /\ c \in zombie
    BY <1>1, Here DEF Late
  <1> DEFINE n == reg[c].new
  <1>3. n \in Task
    BY <1>2 DEF ProcessInv, Places
  <1>4. /\ k' \in Leave(SignalActivate(k, n)) /\ pc' = [pc EXCEPT ![c] = "chld"]
        /\ spoilt' = spoilt \cup Spoil("ghost", n \notin k.used) \cup Spoil("unborn", n \in Unborn)
        /\ UNCHANGED <<pid, parent, zombie, pids, reaps, reg>>
    BY DEF SendChld, Interrupt, Goto, proc, bounds
  <1> HIDE DEF n
  <1>5. /\ Sound(k') /\ k'.used = k.used /\ k'.inuse = k.inuse
        /\ k'.active = k.active \cup {n}
        /\ Executes(k) /\ n \in k.used => Executes(k')
    BY <1>2, <1>3, <1>4, ActivatedTable
  <1>6. pc' \in [Task -> PC] /\ pc'[c] = "chld" /\ \A t \in Task \ {c} : pc'[t] = pc[t]
    BY <1>2, <1>4 DEF PC
  <1>7. \A d \in k.used \ k'.active : WillTell(c, d) => WillTell(c, d)'
    BY <1>2, <1>4, <1>5, <1>6 DEF WillTell, n
  <1>8. ASSUME spoilt' = {}
        PROVE  /\ Executes(k') /\ k'.active \ k.active \subseteq k.used \ Unborn
               /\ pc'[c] \in Late => c \in zombie
    <2>1. spoilt = {} /\ n \in k.used /\ n \notin Unborn
      BY <1>4, <1>8 DEF Spoil
    <2>2. QED
      BY <1>2, <1>5, <2>1
  <1>9. "chld" \in Ending
    BY DEF Ending, Late
  <1>10. QED
    BY <1>2, <1>4, <1>5, <1>6, <1>7, <1>8, <1>9, OwnStep

\* The running thread goes to sleep with a wake time.
LEMMA SleepInv ==
    ASSUME ProcessInv, NEW c \in Task, Sleep(c)
    PROVE  ProcessInv'
  <1>1. At(c, "run")
    BY DEF Sleep
  <1>2. /\ k.current = c /\ pc[c] = "run" /\ c \in k.used /\ c \notin zombie
        /\ Sound(k) /\ pc \in [Task -> PC] /\ reg \in [Task -> Reg]
        /\ spoilt = {} => Executes(k)
    BY <1>1, Here DEF Late, Ending
  <1> DEFINE K == [k EXCEPT !.block[c] = NULL, !.timed = @ \cup {c}]
  <1>3. NULL \in Object
    BY DEF NULL, Object, ObjectKind
  <1>4. /\ K \in Kernel /\ K.used = k.used /\ K.exec = k.exec /\ K.inuse = k.inuse
        /\ K.active = k.active /\ K.stopped = k.stopped /\ K.current = c
    BY <1>2, <1>3 DEF Sound, Kernel
  <1>5. /\ k' \in Leave(UpdateOnSleep(K))
        /\ UNCHANGED <<pid, parent, zombie, pids, reaps, pc, reg, spoilt>>
    BY <1>2 DEF Sleep, TimedBlock, proc, bounds
  <1> HIDE DEF K
  <1>6. /\ Sound(k') /\ k'.used = k.used /\ k'.inuse = k.inuse
        /\ k'.active = k.active \ {c}
        /\ k.exec \subseteq k.active => Executes(k')
    BY <1>2, <1>4, <1>5, SleepTable DEF Sound
  <1>7. spoilt = {} => Executes(k')
    BY <1>2, <1>6 DEF Executes, Agrees
  <1>8. "run" \notin Late
    BY DEF Late
  <1>9. QED
    BY <1>2, <1>5, <1>6, <1>7, <1>8, OwnStep

\* waitpid() after its sleep
LEMMA WokenInv ==
    ASSUME ProcessInv, NEW c \in Task, Woken(c)
    PROVE  ProcessInv'
  <1>1. At(c, "woken")
    BY DEF Woken
  <1>2. /\ k.current = c /\ pc[c] = "woken" /\ c \in k.used /\ c \notin zombie
        /\ Sound(k) /\ pc \in [Task -> PC] /\ reg \in [Task -> Reg] /\ NoReg \in Reg
        /\ spoilt = {} => Executes(k)
    BY <1>1, Here DEF Late, Ending
  <1>3. UNCHANGED <<k, pid, parent, zombie, pids, reaps, spoilt>>
    BY DEF Woken, proc, bounds
  <1>4. PICK l \in {"wait", "run"}, r \in Reg :
           pc' = [pc EXCEPT ![c] = l] /\ reg' = [reg EXCEPT ![c] = r]
    <2>1. CASE pid[c] \notin caught /\ reg[c].tid = 0
      <3>1. pc' = [pc EXCEPT ![c] = "wait"] /\ reg' = reg
        BY <2>1 DEF Woken, Goto
      <3>2. reg' = [reg EXCEPT ![c] = reg[c]] /\ reg[c] \in Reg
        BY <1>2, <3>1
      <3>3. QED
        BY <3>1, <3>2
    <2>2. CASE ~(pid[c] \notin caught /\ reg[c].tid = 0)
      BY <1>2, <2>2 DEF Woken, Goto, Set
    <2>3. QED
      BY <2>1, <2>2
  <1>5. /\ pc' \in [Task -> PC] /\ reg' \in [Task -> Reg] /\ pc'[c] = l
        /\ \A t \in Task \ {c} : pc'[t] = pc[t] /\ reg'[t] = reg[t]
    BY <1>2, <1>4 DEF PC
  <1>6. l \notin Late \cup {"woken", "init", "send"}
    BY <1>4 DEF Late
  <1>7. QED
    BY <1>2, <1>3, <1>5, <1>6, OwnStep

-----------------------------------------------------------------------------
\* Entry i, of thread c or of a zombie that c reaps, is deleted.
LEMMA GoneStep ==
    ASSUME ProcessInv, NEW c \in Task, NEW i \in k.used,
           UNCHANGED <<pid, parent, pids, spoilt>>, zombie' = zombie \ {i},
           Sound(k'), k'.used = k.used \ {i}, k'.inuse = k.inuse \ {i},
           k'.active = k.active \ {i},
           pc' \in [Task -> PC], reg' \in [Task -> Reg], pc'[i] = "none",
           c # i => pc'[c] = "run" /\ c \in k.used /\ c \notin zombie,
           \A t \in Task \ {c, i} : pc'[t] = pc[t] /\ reg'[t] = reg[t],
           reaps' \in [Pid -> 0 .. 1], \A p \in Pid : p > pids => reaps'[p] = 0,
           \A t \in k.used \ {i} : reaps'[pid[t]] = 0,
           spoilt = {} => i \notin Unborn /\ Executes(k')
    PROVE  ProcessInv'
  <1> USE DEF ProcessInv
  <1>0. k.used \subseteq Task /\ zombie \subseteq k.used
    BY DEF Places, Sound, Kernel
  <1>1. Places'
    BY <1>0 DEF Places
  <1>2. FamilyInv'
    <2>1. \A z \in zombie \ {i} : z # c /\ z \in Task \ {c, i}
      BY <1>0
    <2>2. \A z \in zombie' : pc'[z] \in Ending /\ \A t \in k'.used : pid[t] = pid[z] => t = z
      BY <1>0, <2>1 DEF FamilyInv
    <2>3. QED
      BY <2>2 DEF FamilyInv
  <1>3. NotifyInv'
    <2> SUFFICES ASSUME spoilt' \cap {"again", "adopted"} = {},
                        NEW z \in zombie', NEW d \in k'.used, WaitsFor(d, z)'
                 PROVE  WillTell(z, d)'
      BY DEF NotifyInv
    <2>1. /\ z \in zombie \ {i} /\ z \in Task \ {c, i} /\ d \in k.used \ {i} /\ d \in Task
          /\ pc'[d] = "woken" /\ d \notin k.active
          /\ z \in Children(d) /\ reg'[d].want \in {0, pid[z]}
      BY <1>0 DEF WaitsFor, Children, PidOf
    <2>2. d \in Task \ {c, i}
      BY <2>1
    <2>3. WaitsFor(d, z)
      BY <2>1, <2>2 DEF WaitsFor
    <2>4. WillTell(z, d)
      BY <2>1, <2>3 DEF NotifyInv
    <2>5. QED
      BY <2>1, <2>4 DEF WillTell
  <1>4. ASSUME spoilt' = {} PROVE BirthInv'
    <2>1. BirthInv /\ i \notin Unborn
      BY <1>4
    <2>2. Unborn' = Unborn
      BY <2>1 DEF Unborn
    <2>3. k'.inuse \subseteq k'.used /\ k'.active \subseteq k'.used \ Unborn
      BY <2>1 DEF BirthInv
    <2>4. \A t \in Task : pc'[t] \in Late => t \in zombie /\ t # i
      BY <2>1 DEF BirthInv, Late
    <2>5. \A t \in Task : pc'[t] = "init" => pc[t] = "init" /\ reg'[t].new = reg[t].new
      BY DEF BirthInv
    <2>6. QED
      BY <2>1, <2>2, <2>3, <2>4, <2>5 DEF BirthInv
  <1>5. QED
    BY <1>1, <1>2, <1>3, <1>4

\* priv_check_for_zombie_child() finds a zombie of the caller's, if there is one.
LEMMA FoundChild ==
    ASSUME ProcessInv, NEW c \in Task, NEW want
    PROVE  /\ Found(c, want) \in Int
           /\ Found(c, want) > 0 => Found(c, want) \in Children(c) \cap zombie
           /\ Found(c, want) <= 0 =>
                 \A z \in zombie \cap Children(c) : want \notin {0, pid[z]}
  <1> DEFINE Z == {t \in Children(c) \cap zombie : want \in {0, pid[t]}}
  <1>1. Z \in SUBSET Task /\ \A t \in Task : t \in Int /\ t > 0
    BY TableAssumption DEF Children, Task
  <1>2. CASE Z # {}
    <2>1. Found(c, want) = Min(Z)
      BY <1>2 DEF Found
    <2> HIDE DEF Z
    <2>2. Min(Z) \in Z
      BY <1>1, <1>2, MinOfTasks
    <2>3. QED
      BY <1>1, <2>1, <2>2 DEF Z
  <1>3. CASE Z = {}
    <2>1. Found(c, want) \in {0, -1}
      BY <1>3 DEF Found
    <2>2. QED
      BY <1>3, <2>1
  <1>4. QED
    BY <1>2, <1>3

\* A zombie is reaped, once.
LEMMA ReapInv ==
    ASSUME ProcessInv, NEW c \in Task, NEW l \in {"run", "wait"}, At(c, l),
           NEW i, i \in Children(c) \cap zombie, Reap(c, i),
           UNCHANGED <<pid, parent, spoilt, pids>>
    PROVE  ProcessInv'
  <1>1. /\ k.current = c /\ c \in k.used /\ c \notin zombie
        /\ Sound(k) /\ pc \in [Task -> PC] /\ reg \in [Task -> Reg] /\ NoReg \in Reg
        /\ spoilt = {} => Executes(k)
    BY Here DEF Late, Ending
  <1>2. i \in Task /\ i \in k.used /\ i # c /\ i \in zombie
    BY <1>1 DEF Children, ProcessInv, Places
  <1>3. /\ k' \in Leave(Deleted(k, {i})) /\ zombie' = zombie \ {i}
        /\ reaps' = [reaps EXCEPT ![pid[i]] = @ + 1]
        /\ pc' = [pc EXCEPT ![c] = "run", ![i] = "none"]
        /\ reg' = [reg EXCEPT ![c] = NoReg, ![i] = NoReg]
    BY DEF Reap
  <1>4. /\ Sound(k') /\ k'.used = k.used \ {i} /\ k'.inuse = k.inuse \ {i}
        /\ k'.active = k.active \ {i}
        /\ Executes(k) => Executes(k')
    BY <1>1, <1>2, <1>3, DeletedTable
  <1>5. /\ pc' \in [Task -> PC] /\ reg' \in [Task -> Reg] /\ pc'[i] = "none" /\ pc'[c] = "run"
        /\ \A t \in Task \ {c, i} : pc'[t] = pc[t] /\ reg'[t] = reg[t]
    BY <1>1, <1>2, <1>3 DEF PC
  <1>6. /\ reaps' \in [Pid -> 0 .. 1] /\ \A p \in Pid : p > pids => reaps'[p] = 0
        /\ \A t \in k.used \ {i} : reaps'[pid[t]] = 0
    <2>1. /\ pids \in 1 .. MaxPids /\ reaps \in [Pid -> 0 .. 1]
          /\ \A p \in Pid : p > pids => reaps[p] = 0
          /\ \A t \in k.used : pid[t] \in 1 .. pids /\ reaps[pid[t]] = 0
          /\ \A t \in k.used : pid[t] = pid[i] => t = i
      BY <1>2 DEF ProcessInv, FamilyInv
    <2>2. pid[i] \in Pid /\ pid[i] <= pids /\ reaps[pid[i]] = 0 /\ MaxPids \in Int
      BY <1>2, <2>1, ProcessAssumption DEF Pid
    <2>3. \A t \in k.used : pid[t] \in Pid
      BY <2>1, ProcessAssumption DEF Pid
    <2>4. reaps' = [reaps EXCEPT ![pid[i]] = 1]
      BY <1>3, <2>2
    <2>5. \A p \in Pid : p > pids => p # pid[i]
      BY <2>1, <2>2 DEF Pid
    <2>6. QED
      BY <2>1, <2>2, <2>3, <2>4, <2>5
  <1>7. i \notin Unborn
    BY <1>2 DEF Unborn
  <1>8. QED
    BY <1>1, <1>2, <1>3, <1>4, <1>5, <1>6, <1>7, GoneStep

\* waitpid(), up to its sleep
LEMMA WaitCallInv ==
    ASSUME ProcessInv, NEW c \in Task, NEW want \in Nat, NEW nohang, WaitCall(c, want, nohang)
    PROVE  ProcessInv'
  <1>1. At(c, "run")
    BY DEF WaitCall
  <1>2. /\ k.current = c /\ pc[c] = "run" /\ c \in k.used /\ c \notin zombie
        /\ Sound(k) /\ pc \in [Task -> PC] /\ reg \in [Task -> Reg] /\ NoReg \in Reg
        /\ spoilt = {} => Executes(k)
    BY <1>1, Here DEF Late, Ending
  <1> DEFINE i == Found(c, want)
  <1>3. UNCHANGED <<pid, parent, spoilt, pids>>
    BY DEF WaitCall, bounds
  <1>4. CASE i > 0 /\ Reap(c, i)
    <2>1. i \in Children(c) \cap zombie
      BY <1>4, FoundChild
    <2> HIDE DEF i
    <2>2. QED
      BY <1>1, <1>3, <1>4, <2>1, ReapInv
  <1>5. CASE UNCHANGED <<k, zombie, reaps, pc, reg>>
    BY <1>2, <1>3, <1>5, TableStep
  <1>6. CASE /\ Goto(c, "wait") /\ Set(c, [NoReg EXCEPT !.want = want])
             /\ UNCHANGED <<k, zombie, reaps>>
    <2> DEFINE r == [NoReg EXCEPT !.want = want]
    <2>1. r \in Reg
      BY <1>2 DEF Reg
    <2>2. pc' = [pc EXCEPT ![c] = "wait"] /\ reg' = [reg EXCEPT ![c] = r]
      BY <1>6 DEF Goto, Set
    <2> HIDE DEF r
    <2>3. /\ pc' \in [Task -> PC] /\ reg' \in [Task -> Reg] /\ pc'[c] = "wait"
          /\ \A t \in Task \ {c} : pc'[t] = pc[t] /\ reg'[t] = reg[t]
      BY <1>2, <2>1, <2>2 DEF PC
    <2>4. "wait" \notin Late
      BY DEF Late
    <2>5. QED
      BY <1>2, <1>3, <1>6, <2>3, <2>4, OwnStep
  <1>7. QED
    BY <1>4, <1>5, <1>6 DEF WaitCall

\* The check and the sleep are one call, so no zombie is there to wait for.
LEMMA WaitChildInv ==
    ASSUME ProcessInv, NEW c \in Task, WaitChild(c)
    PROVE  ProcessInv'
  <1>1. At(c, "wait")
    BY DEF WaitChild
  <1>2. /\ k.current = c /\ pc[c] = "wait" /\ c \in k.used /\ c \notin zombie
        /\ Sound(k) /\ pc \in [Task -> PC] /\ reg \in [Task -> Reg] /\ reg[c] \in Reg
        /\ spoilt = {} => Executes(k)
    BY <1>1, Here DEF Late, Ending
  <1> DEFINE i == Found(c, reg[c].want)
  <1>3. UNCHANGED <<pid, parent, spoilt, pids>>
    BY DEF WaitChild, bounds
  <1>4. CASE i > 0 /\ Reap(c, i)
    <2>1. i \in Children(c) \cap zombie
      BY <1>4, FoundChild
    <2> HIDE DEF i
    <2>2. QED
      BY <1>1, <1>3, <1>4, <2>1, ReapInv
  <1>5. CASE /\ i <= 0 /\ k' \in Leave(UpdateOnSleep(k)) /\ Goto(c, "woken")
             /\ Set(c, [reg[c] EXCEPT !.tid = i]) /\ UNCHANGED <<zombie, reaps>>
    <2> DEFINE r == [reg[c] EXCEPT !.tid = i]
    <2>1. i \in Int /\ \A z \in zombie \cap Children(c) : reg[c].want \notin {0, pid[z]}
      BY <1>5, FoundChild
    <2> HIDE DEF i
    <2>2. r \in Reg /\ r.want = reg[c].want
      BY <1>2, <2>1 DEF Reg
    <2>3. pc' = [pc EXCEPT ![c] = "woken"] /\ reg' = [reg EXCEPT ![c] = r]
      BY <1>5 DEF Goto, Set
    <2> HIDE DEF r
    <2>4. /\ pc' \in [Task -> PC] /\ reg' \in [Task -> Reg] /\ pc'[c] = "woken"
          /\ \A t \in Task \ {c} : pc'[t] = pc[t] /\ reg'[t] = reg[t]
          /\ \A z \in zombie \cap Children(c) : reg'[c].want \notin {0, pid[z]}
      BY <1>2, <2>1, <2>2, <2>3 DEF PC
    <2>5. /\ Sound(k') /\ k'.used = k.used /\ k'.inuse = k.inuse
          /\ k'.active = k.active \ {c}
          /\ k.exec \subseteq k.active => Executes(k')
      BY <1>2, <1>5, SleepTable DEF Sound
    <2>6. spoilt = {} => Executes(k')
      BY <1>2, <2>5 DEF Executes, Agrees
    <2>7. "woken" \notin Late
      BY DEF Late
    <2>8. QED
      BY <1>2, <1>3, <1>5, <2>4, <2>5, <2>6, <2>7, OwnStep
  <1>6. QED
    BY <1>4, <1>5 DEF WaitChild

\* The last call of _exit(): the entry of a zombie stays until it is reaped, or
\* is deleted when nobody is to reap it.
LEMMA ZombieProcessInv ==
    ASSUME ProcessInv, NEW c \in Task, ZombieProcess(c)
    PROVE  ProcessInv'
  <1>1. At(c, "zombie")
    BY DEF ZombieProcess
  <1>2. /\ k.current = c /\ pc[c] = "zombie" /\ c \in k.used /\ k \in Kernel
        /\ k.exec \subseteq k.used
        /\ Sound(k) /\ pc \in [Task -> PC] /\ reg \in [Task -> Reg]
        /\ spoilt = {} => Executes(k) /\ c \in zombie /\ c \notin Unborn
    BY <1>1, Here DEF Late, Sound
  <1>3. UNCHANGED <<pid, parent, spoilt, pids, reaps, reg>>
    BY DEF ZombieProcess, bounds
  <1>4. CASE reg[c].send
    <2> DEFINE K == [k EXCEPT !.inuse = @ \ {c}]
    <2>1. /\ k' \in Leave(UpdateOnSleep(K)) /\ UNCHANGED <<zombie, pc>>
      BY <1>4 DEF ZombieProcess
    <2>2. /\ K \in Kernel /\ K.used = k.used /\ K.exec = k.exec /\ K.active = k.active
          /\ K.inuse = k.inuse \ {c} /\ K.current = c
      BY <1>2 DEF Kernel
    <2> HIDE DEF K
    <2>3. /\ Sound(k') /\ k'.used = k.used /\ k'.inuse = k.inuse \ {c}
          /\ k'.active = k.active \ {c}
          /\ k.exec \subseteq k.active => Executes(k')
      BY <1>2, <2>1, <2>2, SleepTable
    <2>4. spoilt = {} => Executes(k')
      BY <1>2, <2>3 DEF Executes, Agrees
    <2>5. \A d \in k.used : WillTell(c, d) => WillTell(c, d)'
      BY <1>3, <2>1 DEF WillTell
    <2>6. "zombie" \in Ending
      BY DEF Ending, Late
    <2>7. QED
      BY <1>2, <1>3, <2>1, <2>3, <2>4, <2>5, <2>6, OwnStep
  <1>5. CASE ~reg[c].send
    <2> DEFINE D == Deleted(k, {c})
    <2>1. /\ k' \in Leave(UpdateOnSleep(D)) /\ zombie' = zombie \ {c}
          /\ pc' = [pc EXCEPT ![c] = "none"]
      BY <1>5 DEF ZombieProcess, Goto
    <2>2. /\ D \in Kernel /\ D.used = k.used \ {c} /\ D.exec = k.exec \ {c}
          /\ D.active = k.active \ {c} /\ D.inuse = k.inuse \ {c} /\ D.current = c
      BY <1>2 DEF Deleted, Kernel
    <2> HIDE DEF D
    <2>3. D.exec \subseteq D.used /\ (k.exec \subseteq k.active => D.exec \subseteq D.active)
      BY <1>2, <2>2
    <2>4. /\ Sound(k') /\ k'.used = k.used \ {c} /\ k'.inuse = k.inuse \ {c}
          /\ k'.active = k.active \ {c}
          /\ k.exec \subseteq k.active => Executes(k')
      BY <2>1, <2>2, <2>3, SleepTable
    <2>5. spoilt = {} => Executes(k')
      BY <1>2, <2>4 DEF Executes, Agrees
    <2>6. /\ pc' \in [Task -> PC] /\ pc'[c] = "none"
          /\ \A t \in Task \ {c} : pc'[t] = pc[t]
      BY <1>2, <2>1 DEF PC
    <2>7. /\ reaps' \in [Pid -> 0 .. 1] /\ \A p \in Pid : p > pids => reaps'[p] = 0
          /\ \A t \in k.used \ {c} : reaps'[pid[t]] = 0
      BY <1>3 DEF ProcessInv, FamilyInv
    <2>8. QED
      BY <1>2, <1>3, <2>1, <2>4, <2>5, <2>6, <2>7, GoneStep
  <1>6. QED
    BY <1>4, <1>5

\* The priority that SIGCONT looks up is the largest in the group ...
LEMMA ContPriorityIsMax ==
    ASSUME NEW c \in Task, k \in Kernel
    PROVE  /\ ContPriority(c) \in Priority
           /\ Group(c) \in SUBSET Task /\ c \in Group(c)
           /\ \A t \in Group(c) : k.prio[t] <= ContPriority(c)
  <1>1. Group(c) \in SUBSET Task /\ c \in Group(c)
    BY DEF Group
  <1> DEFINE V == {k.prio[t] : t \in Group(c)}
             p == TopPriority(k, Group(c))
             M == CHOOSE x \in V : \A y \in V : x >= y
  <1>2. /\ p \in Priority /\ \E t \in Group(c) : k.prio[t] = p
        /\ \A t \in Group(c) : k.prio[t] <= p
    BY <1>1, TopPriorityIsMax
  <1> HIDE DEF p
  <1>3. \A t \in Group(c) : k.prio[t] \in Priority /\ k.prio[t] \in Int
    BY <1>1 DEF Kernel, Priority
  <1>4. p \in V /\ \A y \in V : p >= y
    BY <1>2, <1>3 DEF Priority
  <1>5. M \in V /\ \A y \in V : M >= y
    <2> HIDE DEF V
    <2>1. QED
      BY <1>4, Zenon
  <1>6. ContPriority(c) = M
    BY DEF ContPriority, Max
  <1> HIDE DEF M
  <1>7. ContPriority(c) \in Priority
    BY <1>3, <1>5, <1>6
  <1>8. \A t \in Group(c) : k.prio[t] <= ContPriority(c)
    BY <1>3, <1>5, <1>6
  <1>9. QED
    BY <1>1, <1>7, <1>8

\* ... and that of the running thread, if it is no larger than all that are
\* executed.
LEMMA ContPriorityIsOwn ==
    ASSUME NEW c \in Task, Sound(k), Executes(k), k.current = c,
           ~(ContPriority(c) > TopPriority(k, Ready(k) \cup {c}))
    PROVE  k.prio[c] = ContPriority(c)
  <1> DEFINE T == TopPriority(k, Ready(k) \cup {c})
             S == Ready(k) \cup {c}
  <1>1. k \in Kernel /\ S \in SUBSET Task /\ S # {} /\ \A t \in Task : k.prio[t] \in Int
    BY DEF Sound, Kernel, Ready, Priority
  <1>2. /\ T \in Priority /\ \E t \in S : k.prio[t] = T
    BY <1>1, TopPriorityIsMax
  <1>3. c \in k.exec
    BY TableAssumption DEF Executes, Task
  <1>4. \A t \in Ready(k) : k.prio[t] <= k.prio[c]
    BY <1>3 DEF Executes, Agrees
  <1>5. ContPriority(c) \in Priority /\ k.prio[c] <= ContPriority(c)
    BY <1>1, ContPriorityIsMax
  <1> HIDE DEF T
  <1>6. T <= k.prio[c]
    BY <1>1, <1>2, <1>4
  <1>7. ~(ContPriority(c) > T)
    BY DEF T
  <1>8. QED
    BY <1>1, <1>2, <1>5, <1>6, <1>7 DEF Priority

\* The handlers of the signals.
LEMMA HandleInv ==
    ASSUME ProcessInv, NEW c \in Task, NEW s, Handle(c, s)
    PROVE  ProcessInv'
  <1>1. /\ k.current = c /\ c \in k.used /\ Sound(k) /\ k \in Kernel
        /\ spoilt = {} => c \in k.active /\ c \in k.exec /\ Executes(k) /\ BirthInv
    BY Runner DEF Handle, ProcessInv, Places, Sound
  <1>2. pc \in [Task -> PC] /\ reg \in [Task -> Reg]
    BY DEF ProcessInv, Places
  <1>3. /\ UNCHANGED <<pid, parent, zombie, reg, reaps, pids>>
        /\ spoilt \subseteq spoilt'
        /\ pc' = pc \/ pc' = [pc EXCEPT ![c] = "exit"]
        /\ spoilt' = {} /\ s = "SIGCONT" =>
              ~(ContPriority(c) > TopPriority(k, Ready(k) \cup {c}))
    BY DEF Handle, Goto, bounds, Spoil
  <1>4. /\ Sound(k') /\ k'.used = k.used /\ k'.inuse = k.inuse /\ k'.active = k.active
        /\ spoilt' = {} => Executes(k')
    <2>1. CASE s = "SIGSTOP"
      <3> DEFINE K == [k EXCEPT !.stopped = @ \cup Group(c)]
      <3>1. Group(c) \in SUBSET Task
        BY <1>1, ContPriorityIsMax
      <3>2. /\ K \in Kernel /\ K.used = k.used /\ K.exec = k.exec /\ K.active = k.active
            /\ K.inuse = k.inuse
        BY <1>1, <3>1 DEF Kernel
      <3>3. k' \in Leave(UpdateOnStopped(K))
        BY <2>1 DEF Handle, StopPid
      <3> HIDE DEF K
      <3>4. /\ Sound(k') /\ SameTasks(k', K)
            /\ K.exec \subseteq K.active => Executes(k')
        BY <1>1, <3>2, <3>3, StopTable DEF Sound
      <3>5. spoilt' = {} => k.exec \subseteq k.active
        BY <1>1, <1>3 DEF Executes, Agrees
      <3>6. QED
        BY <3>2, <3>4, <3>5 DEF SameTasks
    <2>2. CASE s = "SIGCONT"
      <3> DEFINE K == [k EXCEPT !.stopped = @ \ Group(c)]
                 p == ContPriority(c)
      <3>1. /\ p \in Priority /\ Group(c) \in SUBSET Task /\ c \in Group(c)
            /\ \A t \in Group(c) : k.prio[t] <= p
        BY <1>1, ContPriorityIsMax
      <3>2. /\ K \in Kernel /\ K.used = k.used /\ K.exec = k.exec /\ K.active = k.active
            /\ K.inuse = k.inuse /\ K.stopped = k.stopped \ Group(c) /\ K.prio = k.prio
            /\ K.cur = k.cur /\ K.current = k.current
        BY <1>1, <3>1 DEF Kernel
      <3>3. k' \in Leave(UpdateOnWake(K, p))
        BY <2>2 DEF Handle, ContPid
      <3>4. spoilt' = {} => k.prio[c] = p
        BY <1>1, <1>3, <2>2, ContPriorityIsOwn
      <3> HIDE DEF K, p
      <3>5. p \in NoPriority .. HighestPriority
        BY <3>1, TableAssumption DEF Priority, NoPriority
      <3>6. Sound(k') /\ SameTasks(k', K)
        BY <1>1, <3>2, <3>3, <3>5, WakeTable DEF Sound
      <3>7. ASSUME spoilt' = {} PROVE Executes(k')
        <4>1. Executes(k) /\ c \in k.active /\ k.prio[c] = p
          BY <1>1, <1>3, <3>4, <3>7
        <4>2. /\ Ready(k) \subseteq Ready(K) /\ c \in Ready(K)
              /\ \A t \in Ready(K) \ Ready(k) : t \in Group(c)
          BY <1>1, <3>1, <3>2, <4>1 DEF Ready
        <4>3. /\ \A t \in Ready(k) : K.prio[t] = k.prio[t]
              /\ \A t \in Ready(K) \ Ready(k) : K.prio[t] <= p
              /\ \E t \in Ready(K) : K.prio[t] = p
              /\ k.active \subseteq K.active
          BY <3>1, <3>2, <4>1, <4>2
        <4>4. QED
          BY <1>1, <3>1, <3>2, <3>3, <4>1, <4>2, <4>3, WakeExecutes
      <3>8. QED
        BY <3>2, <3>6, <3>7 DEF SameTasks
    <2>3. CASE s \notin {"SIGSTOP", "SIGCONT"}
      <3>1. k' = k
        BY <2>3 DEF Handle
      <3>2. QED
        BY <1>1, <1>3, <3>1
    <2>4. QED
      BY <2>1, <2>2, <2>3
  <1>5. CASE pc' = pc
    <2>1. spoilt' = {} => Executes(k') /\ k'.active \ k.active \subseteq k.used \ Unborn
      BY <1>4
    <2>2. QED
      BY <1>3, <1>4, <1>5, <2>1, TableStep
  <1>6. CASE pc' = [pc EXCEPT ![c] = "exit"]
    <2>1. /\ pc' \in [Task -> PC] /\ pc'[c] = "exit"
          /\ \A t \in Task \ {c} : pc'[t] = pc[t]
      BY <1>2, <1>6 DEF PC
    <2>2. "exit" \in Ending /\ "exit" \notin Late
      BY DEF Ending, Late
    <2>3. \A d \in k.used : WillTell(c, d)'
      BY <2>1 DEF WillTell
    <2>4. QED
      BY <1>1, <1>2, <1>3, <1>4, <2>1, <2>2, <2>3, OwnStep
  <1>7. QED
    BY <1>3, <1>5, <1>6

-----------------------------------------------------------------------------
\* The other threads of the process are deleted, and the caller is a zombie
\* that will notify its parent.
LEMMA StopThreadsInv ==
    ASSUME ProcessInv, NEW c \in Task, StopThreads(c)
    PROVE  ProcessInv'
  <1> USE DEF ProcessInv
  <1> DEFINE S == {t \in Task : pid[t] = pid[c]} \ {c}
             b == c \notin zombie /\ PidOf(parent[c]) # 0
             r == [NoReg EXCEPT !.send = b]
  <1>1. k.current = c /\ (At(c, "run") \/ At(c, "exit"))
    BY DEF StopThreads, At
  <1>2. /\ c \in k.used /\ pid[c] \in Nat \ {0} /\ Sound(k)
        /\ pc \in [Task -> PC] /\ reg \in [Task -> Reg] /\ NoReg \in Reg
        /\ spoilt = {} => c \notin Unborn /\ Executes(k) /\ BirthInv
    BY <1>1, Here
  <1>3. /\ k' \in Leave(Deleted(k, S)) /\ zombie' = (zombie \ S) \cup {c}
        /\ pc' = [t \in Task |-> IF t \in S THEN "none" ELSE IF t = c THEN "close" ELSE pc[t]]
        /\ reg' = [reg EXCEPT ![c] = r]
        /\ spoilt' = spoilt \cup Spoil("again", c \in zombie)
        /\ UNCHANGED <<pid, parent, reaps, pids>>
    BY DEF StopThreads, Set, bounds
  <1>4. b \in BOOLEAN /\ (b <=> c \notin zombie /\ PidOf(parent[c]) # 0)
    OBVIOUS
  <1> HIDE DEF b
  <1>5. r \in Reg /\ r.send = b /\ r.next = 0
    BY <1>2, <1>4 DEF Reg, NoReg
  <1> HIDE DEF r
  <1>6. /\ S \in SUBSET Task /\ c \notin S
        /\ \A t \in Task \ {c} : t \in S <=> pid[t] = pid[c]
    OBVIOUS
  <1>7. k.used \subseteq Task /\ zombie \subseteq k.used
    BY DEF Places, Sound, Kernel
  <1> HIDE DEF S
  <1>8. /\ Sound(k') /\ k'.used = k.used \ S /\ k'.inuse = k.inuse \ S
        /\ k'.active = k.active \ S
        /\ Executes(k) => Executes(k')
    BY <1>1, <1>2, <1>3, <1>6, DeletedTable
  <1>9. /\ pc' \in [Task -> PC] /\ reg' \in [Task -> Reg]
        /\ pc'[c] = "close" /\ reg'[c] = r
        /\ \A t \in S : pc'[t] = "none"
        /\ \A t \in Task \ {c} : reg'[t] = reg[t]
        /\ \A t \in Task \ (S \cup {c}) : pc'[t] = pc[t]
    BY <1>2, <1>3, <1>5, <1>6 DEF PC
  <1>10. Places'
    BY <1>2, <1>3, <1>6, <1>7, <1>8, <1>9 DEF Places
  <1>11. FamilyInv'
    <2>1. \A z \in zombie' : pc'[z] \in Ending
      BY <1>3, <1>7, <1>9 DEF FamilyInv, Ending, Late
    <2>2. \A z \in zombie' : \A t \in k'.used : pid[t] = pid[z] => t = z
      BY <1>3, <1>6, <1>7, <1>8 DEF FamilyInv
    <2>3. QED
      BY <1>3, <1>8, <2>1, <2>2 DEF FamilyInv
  <1>12. NotifyInv'
    <2> SUFFICES ASSUME spoilt' \cap {"again", "adopted"} = {},
                        NEW z \in zombie', NEW d \in k'.used, WaitsFor(d, z)'
                 PROVE  WillTell(z, d)'
      BY DEF NotifyInv
    <2>1. /\ d \in k.used \ S /\ d \in Task /\ pc'[d] = "woken" /\ d \notin k'.active
          /\ z \in Children(d) /\ reg'[d].want \in {0, pid[z]}
      BY <1>3, <1>7, <1>8 DEF WaitsFor, Children, PidOf
    <2>2. d # c /\ pc[d] = "woken" /\ d \notin k.active /\ reg[d].want \in {0, pid[z]}
      BY <1>8, <1>9, <2>1
    <2>3. WaitsFor(d, z)
      BY <2>1, <2>2 DEF WaitsFor
    <2>4. CASE z = c
      <3>1. c \notin zombie
        BY <1>3 DEF Spoil
      <3>2. PidOf(parent[c]) = pid[d] /\ pid[d] # 0
        BY <2>1, <2>4 DEF Children, FamilyInv
      <3>3. r.send
        BY <1>4, <1>5, <3>1, <3>2
      <3>4. QED
        BY <1>5, <1>9, <2>4, <3>3 DEF WillTell
    <2>5. CASE z # c
      <3>1. z \in zombie /\ z \in Task \ (S \cup {c})
        BY <1>3, <1>7, <2>5
      <3>2. WillTell(z, d)
        BY <1>3, <2>1, <2>3, <3>1 DEF NotifyInv
      <3>3. QED
        BY <1>3, <1>9, <3>1, <3>2 DEF WillTell
    <2>6. QED
      BY <2>4, <2>5
  <1>13. ASSUME spoilt' = {} PROVE BirthInv'
    <2>1. BirthInv /\ c \notin Unborn /\ c \notin zombie
      BY <1>2, <1>3, <1>13 DEF Spoil
    <2>2. Unborn' = (Unborn \ S) \ {c} /\ Unborn' = Unborn \ S
      BY <1>3, <1>6, <1>8, <2>1 DEF Unborn
    <2>3. k'.inuse \subseteq k'.used /\ k'.active \subseteq k'.used \ Unborn'
      BY <1>8, <2>1, <2>2 DEF BirthInv
    <2>4. \A t \in Task : pc'[t] \in Late => t \in zombie'
      BY <1>3, <1>9, <2>1 DEF BirthInv, Late
    <2>5. \A t \in Task : pc'[t] = "init" =>
             pc[t] = "init" /\ reg'[t] = reg[t] /\ t \notin S /\ t # c
      BY <1>9
    <2>6. ASSUME NEW t \in Task, pc'[t] = "init"
          PROVE  reg[t].new \notin S
      <3>1. /\ reg[t].new \in Unborn /\ reg[t].new \in k.used /\ reg[t].new # c
            /\ pid[reg[t].new] # pid[t] =>
                  \A s \in k.used : pid[s] = pid[reg[t].new] => s = reg[t].new
        BY <2>1, <2>5, <2>6 DEF BirthInv, Unborn
      <3>2. pid[t] # pid[c]
        BY <1>6, <2>5, <2>6
      <3>3. pid[reg[t].new] # pid[c]
        BY <1>2, <3>1, <3>2
      <3>4. QED
        BY <1>6, <1>7, <3>1, <3>3
    <2>7. \A t \in Task : pc'[t] = "init" =>
          /\ reg'[t].new \in Unborn'
          /\ \A s \in Task : pc'[s] = "init" /\ reg'[s].new = reg'[t].new => s = t
      BY <2>1, <2>2, <2>5, <2>6 DEF BirthInv
    <2>8. \A t \in Task : pc'[t] = "init" /\ pid[reg'[t].new] # pid[t] =>
                \A s \in k'.used : pid[s] = pid[reg'[t].new] => s = reg'[t].new
      BY <1>8, <2>1, <2>5 DEF BirthInv
    <2>9. QED
      BY <1>3, <2>3, <2>4, <2>7, <2>8 DEF BirthInv
  <1>14. spoilt' = {} => Executes(k')
    BY <1>2, <1>3, <1>8
  <1>15. QED
    BY <1>10, <1>11, <1>12, <1>13, <1>14

\* The new task is activated; the scheduler's entry is its own from now on.
LEMMA InitTaskInv ==
    ASSUME ProcessInv, NEW c \in Task, InitTask(c)
    PROVE  ProcessInv'
  <1> USE DEF ProcessInv
  <1> DEFINE i == reg[c].new
             p == reg[c].prio
             K == [k EXCEPT !.inuse = @ \cup {i}, !.stopped = @ \ {i},
                            !.prio[i] = p, !.base[i] = p]
  <1>1. At(c, "init")
    BY DEF InitTask
  <1>2. /\ k.current = c /\ pc[c] = "init" /\ c \in k.used /\ c \notin zombie
        /\ Sound(k) /\ k \in Kernel /\ pc \in [Task -> PC] /\ reg \in [Task -> Reg]
        /\ reg[c] \in Reg /\ NoReg \in Reg
        /\ spoilt = {} => Executes(k) /\ BirthInv
    BY <1>1, Here DEF Late, Ending, Sound
  <1>3. i \in Task /\ p \in Priority
    BY <1>2 DEF Places, Reg
  <1>4. /\ k' \in Leave(UpdateOnWake(AssertActive(K, {i}, "NONE"), p))
        /\ zombie' = zombie \ {i}
        /\ pc' = [pc EXCEPT ![c] = "run"] /\ reg' = [reg EXCEPT ![c] = NoReg]
        /\ UNCHANGED <<pid, parent, reaps, spoilt, pids>>
    BY DEF InitTask, Goto, Set, bounds
  <1> HIDE DEF i, p
  <1>5. /\ Sound(k') /\ k'.used = k.used /\ k'.inuse = k.inuse \cup {i}
        /\ k'.active = k.active \cup {i}
        /\ Executes(k) /\ i \in k.used \ k.active => Executes(k')
    <2> HIDE DEF ProcessInv
    <2>1. Sound(k) /\ k' \in Leave(UpdateOnWake(AssertActive(K, {i}, "NONE"), p))
      BY <1>2, <1>4
    <2>2. QED
      BY <1>3, <2>1, BornTable, Zenon
  <1>6. /\ pc' \in [Task -> PC] /\ reg' \in [Task -> Reg] /\ pc'[c] = "run"
        /\ \A t \in Task \ {c} : pc'[t] = pc[t] /\ reg'[t] = reg[t]
    BY <1>2, <1>4 DEF PC
  <1>7. k.used \subseteq Task /\ zombie \subseteq k.used
    BY <1>2 DEF Places, Kernel
  <1>8. Places'
    BY <1>2, <1>4, <1>5, <1>6, <1>7 DEF Places
  <1>9. FamilyInv'
    <2>1. \A z \in zombie' : /\ pc'[z] \in Ending
                             /\ \A t \in k.used : pid[t] = pid[z] => t = z
      BY <1>2, <1>4, <1>6, <1>7 DEF FamilyInv
    <2>2. QED
      BY <1>4, <1>5, <2>1 DEF FamilyInv
  <1>10. NotifyInv'
    <2> SUFFICES ASSUME spoilt' \cap {"again", "adopted"} = {},
                        NEW z \in zombie', NEW d \in k'.used, WaitsFor(d, z)'
                 PROVE  WillTell(z, d)'
      BY DEF NotifyInv
    <2>1. /\ z \in zombie /\ z \in Task \ {c} /\ d \in k.used /\ d \in Task
          /\ pc'[d] = "woken" /\ d \notin k.active
          /\ z \in Children(d) /\ reg'[d].want \in {0, pid[z]}
      BY <1>2, <1>4, <1>5, <1>7 DEF WaitsFor, Children, PidOf
    <2>2. d # c
      BY <1>6, <2>1
    <2>3. WaitsFor(d, z)
      BY <1>6, <2>1, <2>2 DEF WaitsFor
    <2>4. WillTell(z, d)
      BY <1>4, <2>1, <2>3 DEF NotifyInv
    <2>5. QED
      BY <1>4, <1>6, <2>1, <2>4 DEF WillTell
  <1>11. ASSUME spoilt' = {} PROVE BirthInv' /\ Executes(k')
    <2>1. BirthInv /\ Executes(k) /\ i \in Unborn
      BY <1>2, <1>4, <1>11 DEF BirthInv, i
    <2>2. zombie' = zombie /\ i \in k.used /\ i \notin k.active /\ Unborn' = Unborn \ {i}
      BY <1>4, <1>5, <2>1 DEF Unborn, BirthInv
    <2>3. k'.inuse \subseteq k'.used /\ k'.active \subseteq k'.used \ Unborn'
      BY <1>5, <2>1, <2>2 DEF BirthInv
    <2>4. \A t \in Task : pc'[t] \in Late => t \in zombie'
      BY <1>6, <2>1, <2>2 DEF BirthInv, Late
    <2>5. \A t \in Task : pc'[t] = "init" =>
             pc[t] = "init" /\ reg'[t] = reg[t] /\ reg[t].new # i
      BY <1>2, <1>6, <2>1 DEF BirthInv, i
    <2>6. BirthInv'
      BY <1>4, <1>5, <2>1, <2>2, <2>3, <2>4, <2>5 DEF BirthInv
    <2>7. QED
      BY <1>5, <2>1, <2>2, <2>6
  <1>12. QED
    BY <1>8, <1>9, <1>10, <1>11

\* A free entry is handed out: what names it as a parent has found a new one.
LEMMA NewTaskInv ==
    ASSUME ProcessInv, NEW c \in Task, NEW thread \in BOOLEAN, NEW p \in Priority,
           NewTask(c, thread, p)
    PROVE  ProcessInv'
  <1> USE DEF ProcessInv
  <1> DEFINE i    == Min(FreeTasks(k))
             zero == {t \in k.used : pid[t] = pid[c] /\ t \notin isthread}
             K    == [k EXCEPT !.used = @ \cup {i}, !.exec = @ \ {i}, !.fifo = @ \ {i}]
             r    == [NoReg EXCEPT !.new = i, !.prio = p]
  <1>1. At(c, "run") /\ FreeTasks(k) # {}
    BY DEF NewTask
  <1>2. /\ k.current = c /\ pc[c] = "run" /\ c \in k.used /\ c \notin zombie
        /\ pid[c] \in 1 .. pids
        /\ Sound(k) /\ k \in Kernel /\ pc \in [Task -> PC] /\ reg \in [Task -> Reg]
        /\ NoReg \in Reg
        /\ spoilt = {} => Executes(k) /\ BirthInv /\ c \notin Unborn
    BY <1>1, Here DEF Late, Ending, Sound
  <1>3. i \in Task /\ i \notin k.used
    <2>1. FreeTasks(k) \in SUBSET Task
      BY DEF FreeTasks
    <2>2. i \in FreeTasks(k)
      BY <1>1, <2>1, MinOfTasks
    <2>3. QED
      BY <2>2 DEF FreeTasks
  <1>4. /\ k' \in Leave(K)
        /\ pc' = [pc EXCEPT ![c] = "init", ![i] = "run"]
        /\ reg' = [reg EXCEPT ![c] = r, ![i] = NoReg]
        /\ spoilt' = spoilt \cup Spoil("adopted", \E t \in k.used : parent[t] = i)
        /\ UNCHANGED <<zombie, reaps>>
    BY DEF NewTask
  <1>5. \/ /\ zero # {} /\ UNCHANGED pids
           /\ pid' = [pid EXCEPT ![i] = pid[c]]
           /\ parent' = [parent EXCEPT ![i] = parent[Min(zero)]]
        \/ /\ pids < MaxPids /\ pids' = pids + 1
           /\ pid' = [pid EXCEPT ![i] = pids + 1]
           /\ parent' = [parent EXCEPT ![i] = c]
    BY DEF NewTask
  <1>6. k.used \subseteq Task /\ zombie \subseteq k.used /\ zero \in SUBSET Task
    BY <1>2 DEF Places, Kernel
  <1>7. zero # {} => Min(zero) \in Task
    BY <1>6, MinOfTasks
  <1> HIDE DEF i, zero
  <1>8. i # c
    BY <1>2, <1>3
  <1>9. /\ pids \in 1 .. MaxPids /\ MaxPids \in Nat /\ pid \in [Task -> Pid]
        /\ parent \in [Task -> 0 .. TaskTotal - 1]
        /\ \A t \in Task : parent[t] # 0 => parent[t] \in Task /\ pid[parent[t]] # 0
    BY ProcessAssumption, TableAssumption DEF Places, FamilyInv, Task
  \* The new entry's pid and parent, as far as the invariants care.
  <1>10. PICK n \in Pid, q \in 0 .. TaskTotal - 1 :
           /\ pid' = [pid EXCEPT ![i] = n] /\ parent' = [parent EXCEPT ![i] = q]
           /\ pids' \in 1 .. MaxPids /\ pids <= pids' /\ n \in 1 .. pids'
           /\ n = pid[c] \/ n = pids + 1
           /\ q # 0 => q \in Task /\ pid[q] # 0
    <2>1. CASE /\ zero # {} /\ UNCHANGED pids
               /\ pid' = [pid EXCEPT ![i] = pid[c]]
               /\ parent' = [parent EXCEPT ![i] = parent[Min(zero)]]
      <3>1. pid[c] \in Pid /\ parent[Min(zero)] \in 0 .. TaskTotal - 1
        BY <1>7, <1>9, <2>1
      <3>2. /\ pid[c] \in 1 .. pids /\ pids <= pids /\ pids' = pids
            /\ parent[Min(zero)] # 0 => parent[Min(zero)] \in Task /\ pid[parent[Min(zero)]] # 0
        BY <1>2, <1>7, <1>9, <2>1
      <3>3. QED
        BY <1>9, <2>1, <3>1, <3>2
    <2>2. CASE /\ pids < MaxPids /\ pids' = pids + 1
               /\ pid' = [pid EXCEPT ![i] = pids + 1]
               /\ parent' = [parent EXCEPT ![i] = c]
      <3>1. /\ pids + 1 \in Pid /\ c \in 0 .. TaskTotal - 1 /\ pid[c] # 0
            /\ pids + 1 \in 1 .. MaxPids /\ pids <= pids + 1 /\ pids + 1 \in 1 .. pids + 1
        BY <1>2, <1>9, <2>2, TableAssumption DEF Pid, Task
      <3>2. QED
        BY <2>2, <3>1
    <2>3. QED
      BY <1>5, <2>1, <2>2
  <1>11. /\ pid' \in [Task -> Pid] /\ parent' \in [Task -> 0 .. TaskTotal - 1]
         /\ pid'[i] = n /\ parent'[i] = q
         /\ \A t \in Task \ {i} : pid'[t] = pid[t] /\ parent'[t] = parent[t]
    BY <1>3, <1>9, <1>10
  <1>12. /\ K \in Kernel /\ K.used = k.used \cup {i} /\ K.exec = k.exec \ {i}
         /\ K.inuse = k.inuse /\ K.active = k.active /\ K.stopped = k.stopped
         /\ K.prio = k.prio /\ K.cur = k.cur /\ K.current = c
    BY <1>2, <1>3 DEF Kernel
  <1> HIDE DEF K
  <1>13. /\ K.exec \subseteq K.used /\ K.current \in K.used \cup {0}
    BY <1>2, <1>12 DEF Sound
  <1>14. Sound(k') /\ SameTasks(k', K)
    BY <1>4, <1>12, <1>13, LeaveTable
  <1>15. /\ k'.used = k.used \cup {i} /\ k'.inuse = k.inuse /\ k'.active = k.active
    BY <1>12, <1>14 DEF SameTasks
  <1>16. r \in Reg /\ r.new = i
    <2>1. i \in 0 .. TaskTotal - 1
      BY <1>3, TableAssumption DEF Task
    <2>2. QED
      BY <1>2, <2>1 DEF Reg
  <1> HIDE DEF r
  <1>17. /\ pc' \in [Task -> PC] /\ reg' \in [Task -> Reg]
         /\ pc'[c] = "init" /\ pc'[i] = "run" /\ reg'[c].new = i
         /\ \A t \in Task \ {c, i} : pc'[t] = pc[t] /\ reg'[t] = reg[t]
    BY <1>2, <1>3, <1>4, <1>8, <1>16 DEF PC
  <1>18. Places'
    BY <1>2, <1>3, <1>4, <1>6, <1>11, <1>14, <1>15, <1>17 DEF Places
  <1>19. FamilyInv'
    <2>1. \A t \in k'.used : pid'[t] \in 1 .. pids' /\ reaps[pid'[t]] = 0
      <3> SUFFICES ASSUME NEW t \in k'.used PROVE pid'[t] \in 1 .. pids' /\ reaps[pid'[t]] = 0
        OBVIOUS
      <3>1. CASE t = i
        <4>1. n \in Pid /\ (n > pids => reaps[n] = 0)
          BY DEF FamilyInv
        <4>2. n = pid[c] => reaps[n] = 0
          BY <1>2 DEF FamilyInv
        <4>3. n = pids + 1 => n > pids
          BY <1>9
        <4>4. QED
          BY <1>10, <1>11, <3>1, <4>1, <4>2, <4>3
      <3>2. CASE t # i
        <4>1. t \in k.used /\ pid'[t] = pid[t] /\ pid[t] \in 1 .. pids /\ reaps[pid[t]] = 0
          BY <1>6, <1>11, <1>15, <3>2 DEF FamilyInv
        <4>2. QED
          BY <1>9, <1>10, <4>1
      <3>3. QED
        BY <3>1, <3>2
    <2>2. \A t \in Task : parent'[t] # 0 => pid'[parent'[t]] # 0
      <3>1. n # 0 /\ pid'[i] # 0
        BY <1>10, <1>11
      <3>2. \A s \in Task : pid[s] # 0 => pid'[s] # 0
        BY <1>11, <3>1
      <3>3. QED
        BY <1>9, <1>10, <1>11, <3>2
    <2>3. \A z \in zombie : pc'[z] \in Ending /\ z \in Task \ {c, i}
      BY <1>2, <1>3, <1>6, <1>17 DEF FamilyInv
    <2>4. \A z \in zombie : \A t \in k'.used : pid'[t] = pid'[z] => t = z
      <3> SUFFICES ASSUME NEW z \in zombie, NEW t \in k'.used, pid'[t] = pid'[z]
                   PROVE  t = z
        OBVIOUS
      <3>1. pid'[z] = pid[z] /\ pid[z] \in 1 .. pids /\ (\A s \in k.used : pid[s] = pid[z] => s = z)
        BY <1>6, <1>11, <2>3 DEF FamilyInv
      <3>2. CASE t = i
        <4>1. n = pid[z]
          BY <1>11, <3>1, <3>2
        <4>2. n # pids + 1
          BY <1>9, <3>1, <4>1
        <4>3. c = z
          BY <1>2, <1>10, <3>1, <4>1, <4>2
        <4>4. QED
          BY <1>2, <4>3
      <3>3. CASE t # i
        BY <1>6, <1>11, <1>15, <3>1, <3>3
      <3>4. QED
        BY <3>2, <3>3
    <2>5. pids' \in 1 .. MaxPids /\ reaps' = reaps /\ \A x \in Pid : x > pids' => reaps[x] = 0
      <3>1. \A x \in Pid : x > pids' => x > pids
        BY <1>9, <1>10 DEF Pid
      <3>2. QED
        BY <1>4, <1>10, <3>1 DEF FamilyInv
    <2>6. reaps' \in [Pid -> 0 .. 1] /\ zombie' = zombie
      BY <1>4 DEF FamilyInv
    <2>7. QED
      BY <2>1, <2>2, <2>3, <2>4, <2>5, <2>6 DEF FamilyInv
  <1>20. NotifyInv'
    <2> SUFFICES ASSUME spoilt' \cap {"again", "adopted"} = {},
                        NEW z \in zombie', NEW d \in k'.used, WaitsFor(d, z)'
                 PROVE  WillTell(z, d)'
      BY DEF NotifyInv
    <2>1. z \in zombie /\ z \in k.used /\ z \in Task \ {c, i}
      BY <1>2, <1>3, <1>4, <1>6
    <2>2. pc'[d] = "woken" /\ d \in Task /\ d \in k.used /\ d \in Task \ {c, i}
      BY <1>3, <1>6, <1>15, <1>17 DEF WaitsFor
    <2>3. parent'[z] = parent[z] /\ parent[z] # i /\ pid'[z] = pid[z] /\ pid'[d] = pid[d]
      BY <1>4, <1>11, <2>1, <2>2 DEF Spoil
    <2>4. PidOf(parent[z])' = PidOf(parent[z])
      BY <1>9, <1>11, <2>1, <2>3 DEF PidOf
    <2>5. WaitsFor(d, z)
      BY <1>15, <1>17, <2>1, <2>2, <2>3, <2>4 DEF WaitsFor, Children
    <2>6. WillTell(z, d)
      BY <1>4, <2>1, <2>2, <2>5 DEF NotifyInv
    <2>7. QED
      BY <1>17, <2>1, <2>3, <2>6 DEF WillTell
  <1>21. ASSUME spoilt' = {} PROVE BirthInv' /\ Executes(k')
    <2>1. Executes(k) /\ BirthInv /\ c \notin Unborn
      BY <1>2, <1>4, <1>21
    <2>2. /\ Unborn' = Unborn \cup {i} /\ Unborn \subseteq k.used /\ i \notin k.active
          /\ i \notin k.inuse
      BY <1>3, <1>4, <1>6, <1>15, <2>1 DEF Unborn, BirthInv
    <2>3. k'.inuse \subseteq k'.used /\ k'.active \subseteq k'.used \ Unborn'
      BY <1>15, <2>1, <2>2 DEF BirthInv
    <2>4. \A t \in Task : pc'[t] \in Late => t \in zombie'
      BY <1>4, <1>17, <2>1 DEF BirthInv, Late
    <2>5. ASSUME NEW t \in Task, pc'[t] = "init"
          PROVE  /\ reg'[t].new \in Unborn'
                 /\ \A s \in Task : pc'[s] = "init" /\ reg'[s].new = reg'[t].new => s = t
                 /\ pid'[reg'[t].new] # pid'[t] =>
                       \A s \in k'.used : pid'[s] = pid'[reg'[t].new] => s = reg'[t].new
      <3>1. \A s \in Task \ {c} : pc'[s] = "init" =>
               /\ s \in Task \ {c, i} /\ pc[s] = "init" /\ reg'[s].new = reg[s].new
               /\ reg[s].new \in Unborn /\ reg[s].new # i /\ reg[s].new \in Task
        BY <1>3, <1>6, <1>17, <2>1, <2>2 DEF BirthInv
      <3>2. CASE t = c
        <4>1. \A s \in k.used : n = pids + 1 => pid[s] # n
          BY <1>9 DEF FamilyInv
        <4>2. \A s \in k'.used : pid'[i] # pid'[c] /\ pid'[s] = pid'[i] => s = i
          BY <1>2, <1>6, <1>8, <1>10, <1>11, <1>15, <4>1
        <4>3. QED
          BY <1>17, <2>2, <3>1, <3>2, <4>2
      <3>3. CASE t # c
        <4> DEFINE m == reg[t].new
        <4>1. /\ t \in Task \ {c, i} /\ pc[t] = "init" /\ reg'[t].new = m
              /\ m \in Unborn /\ m # i /\ m \in k.used /\ m \in Task
          BY <2>2, <2>5, <3>1, <3>3
        <4>2. /\ \A s \in Task : pc[s] = "init" /\ reg[s].new = m => s = t
              /\ pid[m] # pid[t] => \A s \in k.used : pid[s] = pid[m] => s = m
          BY <2>1, <4>1 DEF BirthInv
        <4> HIDE DEF m
        <4>3. \A s \in Task : pc'[s] = "init" /\ reg'[s].new = m => s = t
          BY <1>17, <3>1, <4>1, <4>2
        <4>4. ASSUME pid'[m] # pid'[t], NEW s \in k'.used, pid'[s] = pid'[m]
              PROVE  s = m
          <5>1. pid'[m] = pid[m] /\ pid'[t] = pid[t] /\ pid[m] \in 1 .. pids
            BY <1>11, <4>1 DEF FamilyInv
          <5>2. \A x \in k.used : pid[x] = pid[m] => x = m
            BY <4>2, <4>4, <5>1
          <5>3. CASE s = i
            <6>1. n = pid[m] /\ n # pids + 1
              BY <1>9, <1>11, <4>4, <5>1, <5>3
            <6>2. c = m
              BY <1>2, <1>10, <5>2, <6>1
            <6>3. QED
              BY <2>1, <4>1, <6>2
          <5>4. CASE s # i
            BY <1>6, <1>11, <1>15, <4>4, <5>1, <5>2, <5>4
          <5>5. QED
            BY <5>3, <5>4
        <4>5. QED
          BY <2>2, <4>1, <4>3, <4>4
      <3>4. QED
        BY <3>2, <3>3
    <2>6. BirthInv'
      BY <2>3, <2>4, <2>5 DEF BirthInv
    <2>7. Executes(k')
      <3>1. Ready(K) = Ready(k) /\ Agrees(k) /\ k.current \in k.exec \cup {0}
        BY <1>12, <2>1, <2>2 DEF Ready, Executes
      <3>2. K.exec = k.exec
        BY <1>3, <1>12, <3>1 DEF Agrees
      <3>3. Agrees(K)
        BY <1>12, <3>1, <3>2 DEF Agrees
      <3>4. QED
        BY <1>2, <1>4, <1>12, <3>1, <3>2, <3>3, LeaveExecutes
    <2>8. QED
      BY <2>6, <2>7
  <1>22. QED
    BY <1>18, <1>19, <1>20, <1>21

-----------------------------------------------------------------------------
LEMMA InitInv ==
    ASSUME Init
    PROVE  ProcessInv
  <1> USE DEF Init
  <1>1. 1 \in Task /\ MaxPids \in Nat \ {0} /\ 0 \in Priority /\ 0 \in NoPriority .. HighestPriority
    BY TableAssumption, ProcessAssumption DEF Task, Priority, NoPriority
  <1>2. NULL \in Object /\ "NONE" \in UnblockType
    BY DEF NULL, Object, ObjectKind, UnblockType
  <1>3. k \in Kernel /\ Sound(k)
    BY <1>1, <1>2, TableAssumption DEF Kernel, Sound
  <1>4. Places
    <2>1. NoReg \in Reg
      BY <1>1, TableAssumption DEF NoReg, Reg
    <2>2. \A t \in Task : pc[t] = IF t = 1 THEN "run" ELSE "none"
      OBVIOUS
    <2>3. pid \in [Task -> Pid] /\ parent \in [Task -> 0 .. TaskTotal - 1]
      BY <1>1, TableAssumption DEF Pid
    <2>4. QED
      BY <1>3, <2>1, <2>2, <2>3 DEF Places, PC
  <1>5. FamilyInv
    BY <1>1 DEF FamilyInv, Pid
  <1>6. NotifyInv
    BY DEF NotifyInv
  <1>7. BirthInv
    BY DEF BirthInv, Unborn, Late
  <1>8. Executes(k)
    BY <1>1 DEF Executes, Agrees, Ready
  <1>9. QED
    BY <1>4, <1>5, <1>6, <1>7, <1>8 DEF ProcessInv

\* Every step keeps the invariant.
LEMMA NextInv ==
    ASSUME ProcessInv, [Next]_vars
    PROVE  ProcessInv'
  <1>1. CASE SysTick
    BY <1>1, SysTickInv
  <1>2. CASE TimerMatch
    BY <1>2, TimerMatchInv
  <1>3. ASSUME NEW t \in Task, NEW s \in Signo, Signal(t, s) PROVE ProcessInv'
    BY <1>3, SignalInv
  <1>4. ASSUME NEW c \in Task, ThreadStep(c) PROVE ProcessInv'
    <2>1. ASSUME NEW thread \in BOOLEAN, NEW p \in Priority, NewTask(c, thread, p)
          PROVE  ProcessInv'
      BY <2>1, NewTaskInv
    <2>2. CASE InitTask(c)
      BY <2>2, InitTaskInv
    <2>3. CASE StopThreads(c)
      BY <2>3, StopThreadsInv
    <2>4. CASE CloseFiles(c)
      BY <2>4, CloseFilesInv
    <2>5. CASE NextTarget(c)
      BY <2>5, NextTargetInv
    <2>6. CASE SendChld(c)
      BY <2>6, SendChldInv
    <2>7. CASE ZombieProcess(c)
      BY <2>7, ZombieProcessInv
    <2>8. ASSUME NEW want \in {0} \cup 2 .. MaxPids, NEW nohang \in BOOLEAN,
                 WaitCall(c, want, nohang)
          PROVE  ProcessInv'
      <3>1. want \in Nat
        BY ProcessAssumption
      <3>2. QED
        BY <2>8, <3>1, WaitCallInv
    <2>9. CASE WaitChild(c)
      BY <2>9, WaitChildInv
    <2>10. CASE Woken(c)
      BY <2>10, WokenInv
    <2>11. CASE Sleep(c)
      BY <2>11, SleepInv
    <2>12. ASSUME NEW s \in Signo, Handle(c, s) PROVE ProcessInv'
      BY <2>12, HandleInv
    <2>13. QED
      BY <1>4, <2>1, <2>2, <2>3, <2>4, <2>5, <2>6, <2>7, <2>8, <2>9, <2>10, <2>11, <2>12
         DEF ThreadStep
  <1>5. CASE UNCHANGED vars
    <2>1. UNCHANGED <<k, pid, parent, zombie, pids, reaps, pc, reg, spoilt>>
      BY <1>5 DEF vars, proc, bounds
    <2>2. Sound(k) /\ (spoilt = {} => Executes(k))
      BY DEF ProcessInv, Places
    <2>3. QED
      BY <2>1, <2>2, TableStep
  <1>6. QED
    BY <1>1, <1>2, <1>3, <1>4, <1>5 DEF Next

LEMMA ProcessInvHolds == Spec => []ProcessInv
  <1>1. Init => ProcessInv
    BY InitInv
  <1>2. ProcessInv /\ [Next]_vars => ProcessInv'
    BY NextInv
  <1>3. QED
    BY <1>1, <1>2, PTL DEF Spec

\* A parent is not left asleep in waitpid() with a zombie that has sent its last
\* SIGCHLD, for any number of processes, threads and signals: as long as no
\* process ends twice and no parent's entry is handed out again, the zombie has
\* a notification for the sleeper before it (_exit.c, _wait.c).
THEOREM ChildrenNotMissed == Spec => []NoMissedChild
  <1>1. ProcessInv => NoMissedChild
    <2> SUFFICES ASSUME ProcessInv, spoilt \cap {"again", "adopted"} = {},
                        NEW c \in k.used, NEW z \in k.used,
                        pc[c] = "woken", c \notin k.active,
                        z \in zombie \cap Children(c), pc[z] = "zombie",
                        reg[c].want \in {0, pid[z]}
                 PROVE  FALSE
      BY DEF NoMissedChild
    <2>1. WaitsFor(c, z)
      BY DEF WaitsFor
    <2>2. WillTell(z, c)
      BY <2>1 DEF ProcessInv, NotifyInv
    <2>3. QED
      BY <2>2 DEF WillTell
  <1>2. QED
    BY <1>1, ProcessInvHolds, PTL

\* No process is taken by two calls of waitpid(): a process that is in the table
\* has not been reaped, and a zombie is the only entry of its process.
THEOREM ReapedAtMostOnce == Spec => []ReapedOnce
  <1>1. ProcessInv => ReapedOnce
    BY DEF ProcessInv, FamilyInv, ReapedOnce
  <1>2. QED
    BY <1>1, ProcessInvHolds, PTL

\* Creating, deleting, stopping, continuing and signalling tasks leaves the
\* execute flags with the ready tasks of the top priority, in behaviours without
\* the mishaps that the model records.
THEOREM TopTasksRun == Spec => []RightTasksRun
  <1>1. ProcessInv => RightTasksRun
    <2> SUFFICES ASSUME ProcessInv, spoilt = {}
                 PROVE  IF Ready(k) = {} THEN k.exec \subseteq k.stopped
                        ELSE k.exec = {t \in Ready(k) : k.prio[t] = TopPriority(k, Ready(k))}
      BY DEF RightTasksRun
    <2>1. k \in Kernel /\ Agrees(k)
      BY DEF ProcessInv, Places, Sound, Executes
    <2>2. CASE Ready(k) = {}
      BY <2>1, <2>2 DEF Agrees
    <2>3. CASE Ready(k) # {}
      <3>1. Ready(k) \in SUBSET Task /\ \A t \in Task : k.prio[t] \in Int
        BY <2>1 DEF Ready, Kernel, Priority
      <3>2. /\ TopPriority(k, Ready(k)) \in Priority
            /\ \E t \in Ready(k) : k.prio[t] = TopPriority(k, Ready(k))
            /\ \A t \in Ready(k) : k.prio[t] <= TopPriority(k, Ready(k))
        BY <2>1, <2>3, <3>1, TopPriorityIsMax
      <3>3. /\ \A t \in Ready(k) : k.prio[t] <= k.cur
            /\ k.exec = {t \in Ready(k) : k.prio[t] = k.cur} /\ k.exec # {}
        BY <2>1, <2>3 DEF Agrees
      <3>4. k.cur \in Int /\ TopPriority(k, Ready(k)) \in Int
        BY <2>1, <3>2, TableAssumption DEF Kernel, NoPriority, Priority
      <3>5. TopPriority(k, Ready(k)) = k.cur
        BY <3>1, <3>2, <3>3, <3>4
      <3>6. QED
        BY <2>3, <3>3, <3>5
    <2>4. QED
      BY <2>2, <2>3
  <1>2. QED
    BY <1>1, ProcessInvHolds, PTL
=============================================================================
