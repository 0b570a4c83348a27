-------------------------- MODULE SchedTableProofs --------------------------
(***************************************************************************)
(* Lemmas about the task table's operators: they keep the table well       *)
(* formed, and its caches in agreement with the ready tasks.  The first    *)
(* ones are about the least and best elements that the models choose with  *)
(* CHOOSE where the code has a loop.                                       *)
(***************************************************************************)
EXTENDS SchedTable, TLAPS, WellFoundedInduction, NaturalsInduction

\* A non-empty set of natural numbers has a least element.
LEMMA LeastExists ==
    ASSUME NEW S \in SUBSET Nat, S # {}
    PROVE  \E d \in S : \A e \in S : d <= e
  <1>1. IsWellFoundedOn(OpToRel(<, Nat), Nat)
    BY NatLessThanWellFounded
  <1> DEFINE R == {ss \in Nat \X Nat : ss[1] < ss[2]}
  <1>2. OpToRel(<, Nat) = R
    BY Zenon DEF OpToRel
  <1>3. PICK d \in S : \A e \in S : ~(<<e, d>> \in OpToRel(<, Nat))
    BY <1>1, WFMin, Zenon
  <1>4. \A e \in S : ~(<<e, d>> \in R)
    BY <1>2, <1>3, Zenon
  <1>5. \A e, f \in Nat : e < f => <<e, f>> \in R
    OBVIOUS
  <1> HIDE DEF R
  <1>6. \A e \in S : ~(e < d)
    BY <1>4, <1>5
  <1>7. QED
    BY <1>6

\* A loop that keeps the better of two entries of a table finds the best: a
\* non-empty set of indices has a best element in any total preorder R.
LEMMA BestExists ==
    ASSUME NEW N \in Nat, NEW R,
           \A x, y \in 1 .. N : <<x, y>> \in R \/ <<y, x>> \in R,
           \A x, y, z \in 1 .. N :
              <<x, y>> \in R /\ <<y, z>> \in R => <<x, z>> \in R,
           NEW S \in SUBSET (1 .. N), S # {}
    PROVE  \E b \in S : \A s \in S : <<b, s>> \in R
  <1> DEFINE Without == {T \in SUBSET (1 .. N) :
                            T # {} /\ ~ \E b \in T : \A s \in T : <<b, s>> \in R}
             Bad     == {n \in Nat : \E T \in Without : T \subseteq 1 .. n}
  <1>1. SUFFICES ASSUME Without # {} PROVE FALSE
    OBVIOUS
  <1> HIDE DEF Without
  <1>2. Without \subseteq SUBSET (1 .. N)
    BY DEF Without
  <1>3. N \in Bad
    BY <1>1, <1>2
  <1>4. PICK n \in Bad : \A m \in Bad : n <= m
    <2>1. Bad \in SUBSET Nat /\ Bad # {}
      BY <1>3
    <2> HIDE DEF Bad
    <2>2. QED
      BY <2>1, LeastExists
  <1>5. PICK T \in Without : T \subseteq 1 .. n
    BY <1>4
  <1>6. T # {} /\ T \subseteq 1 .. N /\ ~ \E b \in T : \A s \in T : <<b, s>> \in R
    BY <1>5 DEF Without
  <1>7. n \in 1 .. N
    <2>1. n \in Nat /\ n <= N
      BY <1>3, <1>4
    <2>2. n # 0
      <3>1. \A x \in 1 .. 0 : FALSE
        OBVIOUS
      <3>2. PICK x \in T : TRUE
        BY <1>6
      <3>3. QED
        BY <1>5, <3>1, <3>2
    <2>3. QED
      BY <2>1, <2>2
  <1> DEFINE U == T \ {n}
  <1>8. U \notin Without
    <2>1. U \subseteq 1 .. n - 1 /\ n - 1 \in Nat
      <3> HIDE DEF Bad
      <3>1. QED
        BY <1>5, <1>7
    <2>2. ~(n <= n - 1)
      BY <1>7
    <2> HIDE DEF U
    <2>3. QED
      BY <1>4, <2>1, <2>2
  <1>9. U # {} => \E b \in U : \A s \in U : <<b, s>> \in R
    BY <1>6, <1>8 DEF Without
  <1>10. n \in T
    BY <1>6, <1>9
  <1>11. <<n, n>> \in R
    BY <1>7
  <1>12. CASE U = {}
    BY <1>6, <1>10, <1>11, <1>12
  <1>13. CASE U # {}
    <2>1. PICK b \in U : \A s \in U : <<b, s>> \in R
      BY <1>9, <1>13
    <2>2. b \in T /\ b \in 1 .. N
      BY <1>6, <2>1
    <2>3. CASE <<b, n>> \in R
      BY <1>6, <2>1, <2>2, <2>3
    <2>4. CASE <<n, b>> \in R
      <3>1. \A s \in U : <<n, s>> \in R
        BY <1>6, <1>7, <2>1, <2>2, <2>4
      <3>2. QED
        BY <1>6, <1>10, <1>11, <3>1
    <2>5. QED
      BY <1>7, <2>2, <2>3, <2>4
  <1>14. QED
    BY <1>12, <1>13
-----------------------------------------------------------------------------
\* The execute flags and the current priority agree with the ready tasks.
IsTop(K) ==
    /\ \A t \in Ready(K) : K.prio[t] <= K.cur
    /\ Ready(K) # {} => \E t \in Ready(K) : K.prio[t] = K.cur
    /\ Ready(K) = {} => K.cur = NoPriority
    /\ K.exec = {t \in Ready(K) : K.prio[t] = K.cur}

\* TopPriority is a maximum: it exists because priorities are bounded.
LEMMA TopPriorityIsMax ==
    ASSUME NEW K \in Kernel, NEW S \in SUBSET Task, S # {}
    PROVE  /\ TopPriority(K, S) \in Priority
           /\ \E t \in S : K.prio[t] = TopPriority(K, S)
           /\ \A t \in S : K.prio[t] <= TopPriority(K, S)
  <1> DEFINE V == {K.prio[t] : t \in S}
             D == {d \in Nat : HighestPriority - d \in V}
  <1>0. HighestPriority \in Nat
    BY TableAssumption
  <1>1. K.prio \in [Task -> Priority]
    BY DEF Kernel
  <1>2. V \subseteq 0 .. HighestPriority /\ V # {}
    BY <1>1 DEF Priority
  <1>3. \A p \in V : HighestPriority - p \in D
    <2> SUFFICES ASSUME NEW p \in V PROVE HighestPriority - p \in D
      OBVIOUS
    <2>1. p \in 0 .. HighestPriority
      BY <1>2
    <2> HIDE DEF V
    <2>2. HighestPriority - (HighestPriority - p) = p /\ HighestPriority - p \in Nat
      BY <2>1, <1>0
    <2>3. QED
      BY <2>2
  <1> HIDE DEF V
  <1>4. PICK d \in D : \A e \in D : d <= e
    <2>1. D \in SUBSET Nat /\ D # {}
      BY <1>2, <1>3
    <2> HIDE DEF D
    <2>2. QED
      BY <2>1, LeastExists
  <1> DEFINE m == HighestPriority - d
  <1>6. m \in V /\ d \in Nat
    BY <1>4
  <1>7. \A p \in V : p <= m
    <2> SUFFICES ASSUME NEW p \in V PROVE p <= m
      OBVIOUS
    <2>1. d <= HighestPriority - p
      BY <1>3, <1>4
    <2>2. p \in 0 .. HighestPriority
      BY <1>2
    <2>3. QED
      BY <2>1, <2>2, <1>6, <1>0
  <1> HIDE DEF m
  <1> USE DEF V
  <1>8. TopPriority(K, S) \in V /\ \A t \in S : K.prio[t] <= TopPriority(K, S)
    <2> DEFINE T == CHOOSE p \in V : \A t \in S : K.prio[t] <= p
    <2>1. \E p \in V : \A t \in S : K.prio[t] <= p
      BY <1>6, <1>7
    <2>2. T \in V /\ \A t \in S : K.prio[t] <= T
      BY <2>1, Zenon
    <2>3. TopPriority(K, S) = T
      BY DEF TopPriority
    <2>4. QED
      BY <2>2, <2>3
  <1>9. QED
    BY <1>2, <1>8 DEF Priority
-----------------------------------------------------------------------------
\* The operators map tables to tables.

\* The privileged functions keep the tables well formed:
\* sched_priv_assert_active() ...
LEMMA AssertActiveKernel ==
    ASSUME NEW K \in Kernel, NEW S \in SUBSET Task, NEW u \in UnblockType
    PROVE  AssertActive(K, S, u) \in Kernel
  <1>1. NULL \in Object
    BY DEF NULL, Object, ObjectKind
  <1>2. QED
    BY <1>1 DEF AssertActive, Kernel

\* ... sched_priv_update_on_wake(), for any priority or none ...
LEMMA UpdateOnWakeKernel ==
    ASSUME NEW K \in Kernel, NEW p \in NoPriority .. HighestPriority
    PROVE  UpdateOnWake(K, p) \in Kernel
  <1>1. CASE p < K.cur
    BY <1>1 DEF UpdateOnWake
  <1>2. CASE ~(p < K.cur)
    <2>1. {t \in Ready(K) : K.prio[t] = p} \subseteq Task
      BY DEF Ready, Kernel
    <2>2. UpdateOnWake(K, p) =
            [K EXCEPT !.cur  = p, !.exec = {t \in Ready(K) : K.prio[t] = p},
                      !.pend = @ \/ p > K.cur]
      BY <1>2 DEF UpdateOnWake
    <2>3. PICK e \in SUBSET Task : e = {t \in Ready(K) : K.prio[t] = p}
      BY <2>1
    <2>4. (K.pend \/ p > K.cur) \in BOOLEAN
      OBVIOUS
    <2>5. UpdateOnWake(K, p) = [K EXCEPT !.cur = p, !.exec = e, !.pend = @ \/ p > K.cur]
      BY <2>2, <2>3
    <2>6. QED
      BY <2>4, <2>5 DEF Kernel
  <1>3. QED
    BY <1>1, <1>2

\* ... sched_priv_update_on_stopped() ...
LEMMA UpdateOnStoppedKernel ==
    ASSUME NEW K \in Kernel
    PROVE  UpdateOnStopped(K) \in Kernel
  <1> DEFINE K1 == [K EXCEPT !.cur = NoPriority]
  <1>1. K1 \in Kernel
    BY TableAssumption DEF Kernel, NoPriority
  <1>2. Ready(K1) \in SUBSET Task
    BY <1>1 DEF Ready, Kernel
  <1> HIDE DEF K1
  <1>3. CASE Ready(K1) = {}
    BY <1>1, <1>3 DEF UpdateOnStopped, K1, SwitchContext, Kernel
  <1>4. CASE Ready(K1) # {}
    <2>1. TopPriority(K1, Ready(K1)) \in Priority
      BY <1>1, <1>2, <1>4, TopPriorityIsMax
    <2>2. TopPriority(K1, Ready(K1)) \in NoPriority .. HighestPriority
      BY <2>1, TableAssumption DEF Priority, NoPriority
    <2>3. QED
      BY <1>1, <1>4, <2>2, UpdateOnWakeKernel DEF UpdateOnStopped, K1
  <1>5. QED
    BY <1>3, <1>4

\* ... and sched_priv_update_on_sleep().
LEMMA UpdateOnSleepKernel ==
    ASSUME NEW K \in Kernel
    PROVE  UpdateOnSleep(K) \in Kernel
  <1>1. DeassertActive(K, K.current) \in Kernel
    BY DEF DeassertActive, Kernel
  <1>2. QED
    BY <1>1, UpdateOnStoppedKernel DEF UpdateOnSleep
-----------------------------------------------------------------------------
\* What UpdateOnWake, UpdateOnStopped and Return leave alone.
Entries(K) == <<K.used, K.fifo, K.inuse, K.active, K.stopped, K.timed,
                K.prio, K.base, K.block, K.unblock>>

\* K1 is K with the tasks S made active, and p is the largest priority in S.
Wakes(K, K1, S, p) ==
    /\ S \in SUBSET Task
    /\ Ready(K1) = Ready(K) \cup S
    /\ \A t \in Ready(K) : K1.prio[t] = K.prio[t]
    /\ K1.cur = K.cur /\ K1.exec = K.exec /\ K1.current = K.current
    /\ \A t \in S : K1.prio[t] <= p
    /\ S # {} => \E t \in S : K1.prio[t] = p
    /\ S = {} => p = NoPriority

\* Waking the tasks S, which have the largest priority p, keeps the execute
\* flags and the current priority in agreement with the ready tasks; without a
\* context switch, no task loses its execute flag.
LEMMA UpdateOnWakeTop ==
    ASSUME NEW K \in Kernel, NEW K1 \in Kernel, NEW S,
           NEW p \in NoPriority .. HighestPriority,
           IsTop(K), Wakes(K, K1, S, p)
    PROVE  LET U == UpdateOnWake(K1, p)
           IN  /\ IsTop(U)
               /\ U.pend \/ K1.exec \subseteq U.exec
               /\ Entries(U) = Entries(K1)
               /\ U.current = K1.current
  <1> DEFINE U == UpdateOnWake(K1, p)
             X == {t \in Ready(K1) : K1.prio[t] = p}
  <1> USE DEF Wakes
  <1>0. /\ K.cur \in Int /\ p \in Int /\ NoPriority \in Int
        /\ \A t \in Task : K.prio[t] \in Int /\ K1.prio[t] \in Int
        /\ \A t \in Task : K.prio[t] > NoPriority /\ K1.prio[t] > NoPriority
        /\ Ready(K1) \subseteq Task
    BY TableAssumption DEF Kernel, Priority, NoPriority, Ready
  <1>1. CASE p < K.cur
    <2>1. U = K1
      BY <1>1 DEF UpdateOnWake
    <2>2. \A t \in S : K1.prio[t] # K.cur /\ K1.prio[t] <= K.cur
      BY <1>0, <1>1
    <2>3. K1.exec = {t \in Ready(K1) : K1.prio[t] = K1.cur}
      BY <2>2 DEF IsTop
    <2>4. IsTop(K1)
      BY <2>2, <2>3, <1>0, <1>1 DEF IsTop
    <2>5. QED
      BY <2>1, <2>4
  <1>2. CASE ~(p < K.cur)
    <2>1. U = [K1 EXCEPT !.cur = p, !.exec = X, !.pend = @ \/ p > K1.cur]
      BY <1>2 DEF UpdateOnWake
    <2> HIDE DEF X
    <2>2. /\ U.cur = p /\ U.exec = X /\ U.pend = (K1.pend \/ p > K1.cur)
          /\ Entries(U) = Entries(K1) /\ U.current = K1.current
      BY <2>1 DEF Kernel, Entries
    <2>3. Ready(U) = Ready(K1) /\ U.prio = K1.prio
      BY <2>2 DEF Entries, Ready
    <2>4. \A t \in Ready(K1) : K1.prio[t] <= p
      BY <1>0, <1>2 DEF IsTop
    <2>5. Ready(K1) # {} => \E t \in Ready(K1) : K1.prio[t] = p
      <3>1. CASE S # {}
        BY <3>1
      <3>2. CASE S = {}
        BY <3>2, <1>0, <1>2, <2>4 DEF IsTop
      <3>3. QED
        BY <3>1, <3>2
    <2>6. Ready(K1) = {} => p = NoPriority
      OBVIOUS
    <2>7. IsTop(U)
      BY <2>2, <2>3, <2>4, <2>5, <2>6 DEF IsTop, X
    <2>8. ~(p > K1.cur) => K1.exec \subseteq X
      BY <1>0, <1>2 DEF IsTop, X
    <2>9. QED
      BY <2>2, <2>7, <2>8
  <1>3. QED
    BY <1>1, <1>2

\* After sched_priv_update_on_stopped() the table is in agreement whatever it
\* was before, if only no unready task kept its execute flag.
LEMMA UpdateOnStoppedTop ==
    ASSUME NEW K \in Kernel, K.exec \subseteq Ready(K)
    PROVE  LET U == UpdateOnStopped(K)
           IN  /\ IsTop(U)
               /\ U.pend
               /\ Entries(U) = Entries(K)
               /\ U.current = K.current
  <1> DEFINE U  == UpdateOnStopped(K)
             K1 == [K EXCEPT !.cur = NoPriority]
             p  == TopPriority(K1, Ready(K1))
             X  == {t \in Ready(K1) : K1.prio[t] = p}
  <1>1. /\ K1 \in Kernel /\ Ready(K1) = Ready(K) /\ K1.cur = NoPriority
        /\ Entries(K1) = Entries(K) /\ K1.current = K.current
        /\ K1.exec = K.exec
    BY TableAssumption DEF Kernel, NoPriority, Ready, Entries
  <1>2. Ready(K1) \in SUBSET Task
    BY <1>1 DEF Ready, Kernel
  <1> HIDE DEF K1
  <1>3. CASE Ready(K1) = {}
    <2>1. U = [K1 EXCEPT !.pend = TRUE]
      BY <1>3 DEF UpdateOnStopped, SwitchContext, K1
    <2>2. /\ U.pend /\ Entries(U) = Entries(K1) /\ U.current = K1.current
          /\ U.exec = {} /\ U.cur = NoPriority
      BY <2>1, <1>1, <1>3 DEF Kernel, Entries
    <2>3. Ready(U) = {}
      BY <2>2, <1>3 DEF Entries, Ready
    <2>4. QED
      BY <1>1, <2>2, <2>3 DEF IsTop
  <1>4. CASE Ready(K1) # {}
    <2>1. /\ p \in Priority /\ \E t \in Ready(K1) : K1.prio[t] = p
          /\ \A t \in Ready(K1) : K1.prio[t] <= p
      BY <1>1, <1>2, <1>4, TopPriorityIsMax
    <2>2. U = UpdateOnWake(K1, p)
      BY <1>4 DEF UpdateOnStopped, K1
    <2>3. p > K1.cur /\ ~(p < K1.cur)
      BY <2>1, <1>1, TableAssumption DEF Priority, NoPriority
    <2> HIDE DEF p
    <2>4. U = [K1 EXCEPT !.cur = p, !.exec = X, !.pend = @ \/ p > K1.cur]
      BY <2>2, <2>3 DEF UpdateOnWake
    <2> HIDE DEF X
    <2>5. /\ U.pend /\ Entries(U) = Entries(K1) /\ U.current = K1.current
          /\ U.exec = X /\ U.cur = p
      BY <2>3, <2>4, <1>1 DEF Kernel, Entries
    <2>6. Ready(U) = Ready(K1) /\ U.prio = K1.prio
      BY <2>5 DEF Entries, Ready
    <2>7. QED
      BY <1>1, <1>4, <2>1, <2>5, <2>6 DEF IsTop, X
  <1>5. QED
    BY <1>3, <1>4

\* sched_priv_update_on_sleep(): what the running task leaves behind is
\* recomputed, so the caches are right again.
LEMMA UpdateOnSleepTop ==
    ASSUME NEW K \in Kernel, K.exec \subseteq Ready(K) \cup {K.current}
    PROVE  LET U == UpdateOnSleep(K)
           IN  /\ U \in Kernel
               /\ IsTop(U)
               /\ U.pend
               /\ Entries(U) = Entries(DeassertActive(K, K.current))
               /\ U.current = K.current
  <1> DEFINE D == DeassertActive(K, K.current)
  <1>1. D \in Kernel /\ D.current = K.current
    BY DEF DeassertActive, Kernel
  <1>2. D.exec \subseteq Ready(D)
    BY DEF DeassertActive, Kernel, Ready
  <1> HIDE DEF D
  <1>3. QED
    BY <1>1, <1>2, UpdateOnStoppedTop, UpdateOnStoppedKernel DEF UpdateOnSleep, D

\* Returning from a privileged call gives the CPU to a task whose execute flag
\* is set, or to the scheduler.
LEMMA ReturnTop ==
    ASSUME NEW K \in Kernel, IsTop(K),
           K.pend \/ K.current \in K.exec \cup {0},
           NEW R \in Return(K)
    PROVE  /\ R \in Kernel
           /\ IsTop(R)
           /\ R.pend = FALSE
           /\ R.current \in R.exec \cup {0}
           /\ Entries(R) = Entries(K)
  <1>1. CASE K.pend
    <2>1. PICK c \in K.exec \cup {0} : R = [K EXCEPT !.pend = FALSE, !.current = c]
      BY <1>1 DEF Return, Dispatch
    <2>2. c \in 0 .. TaskTotal - 1
      BY TableAssumption DEF Kernel, Task
    <2>3. /\ R \in Kernel /\ R.pend = FALSE /\ R.current = c
          /\ R.exec = K.exec /\ R.cur = K.cur /\ Entries(R) = Entries(K)
      BY <2>1, <2>2 DEF Kernel, Entries
    <2>4. Ready(R) = Ready(K) /\ R.prio = K.prio
      BY <2>3 DEF Ready, Entries
    <2>5. IsTop(R)
      BY <2>3, <2>4 DEF IsTop
    <2>6. QED
      BY <2>1, <2>3, <2>5
  <1>2. CASE ~K.pend
    <2>1. R = K
      BY <1>2 DEF Return
    <2>2. K.pend = FALSE
      BY <1>2 DEF Kernel
    <2>3. QED
      BY <1>2, <2>1, <2>2
  <1>3. QED
    BY <1>1, <1>2
-----------------------------------------------------------------------------
\* The rest of what a privileged call is made of keeps the table well formed.
LEMMA ReturnKernel ==
    ASSUME NEW K \in Kernel, NEW R \in Return(K)
    PROVE  R \in Kernel
  <1>1. CASE K.pend
    <2>1. PICK c \in K.exec \cup {0} : R = [K EXCEPT !.pend = FALSE, !.current = c]
      BY <1>1 DEF Return, Dispatch
    <2>2. c \in 0 .. TaskTotal - 1
      BY TableAssumption DEF Kernel, Task
    <2>3. QED
      BY <2>1, <2>2 DEF Kernel
  <1>2. CASE ~K.pend
    BY <1>2 DEF Return
  <1>3. QED
    BY <1>1, <1>2

LEMMA TopPriorityRange ==
    ASSUME NEW K \in Kernel, NEW S \in SUBSET Task
    PROVE  TopPriority(K, S) \in NoPriority .. HighestPriority
  <1>1. CASE S = {}
    BY <1>1, TableAssumption DEF TopPriority, NoPriority
  <1>2. CASE S # {}
    BY <1>2, TopPriorityIsMax, TableAssumption DEF Priority, NoPriority
  <1>3. QED
    BY <1>1, <1>2

LEMMA TimedBlockKernel ==
    ASSUME NEW K \in Kernel, K.current \in Task, NEW obj \in Object, NEW kind
    PROVE  TimedBlock(K, obj, kind) \in Kernel
  <1> DEFINE T  == CASE kind = "never" -> K.timed \ {K.current}
                     [] kind \in {"future", "near"} -> K.timed \cup {K.current}
                     [] OTHER -> K.timed
             K1 == [K EXCEPT !.block[K.current] = obj, !.timed = T]
  <1>1. T \in SUBSET Task
    BY DEF Kernel
  <1>2. TimedBlock(K, obj, kind) =
          IF obj = NULL /\ kind \in {"near", "past"} THEN K1 ELSE UpdateOnSleep(K1)
    BY DEF TimedBlock
  <1> HIDE DEF T
  <1>3. K1 \in Kernel
    BY <1>1 DEF Kernel
  <1>4. QED
    BY <1>2, <1>3, UpdateOnSleepKernel

LEMMA MatchEventKernel ==
    ASSUME NEW K \in Kernel, NEW S \in SUBSET Task
    PROVE  MatchEvent(K, S) \in Kernel
  <1>1. AssertActive(K, S, "SLEEP") \in Kernel
    BY AssertActiveKernel DEF UnblockType
  <1>2. TopPriority(K, S) \in NoPriority .. HighestPriority
    BY TopPriorityRange
  <1>3. QED
    BY <1>1, <1>2, UpdateOnWakeKernel DEF MatchEvent

\* A task that is made active by itself.
LEMMA WakeOneKernel ==
    ASSUME NEW K \in Kernel, NEW t \in Task, NEW u \in UnblockType
    PROVE  UpdateOnWake(AssertActive(K, {t}, u), K.prio[t]) \in Kernel
  <1>1. AssertActive(K, {t}, u) \in Kernel
    BY AssertActiveKernel
  <1>2. K.prio[t] \in NoPriority .. HighestPriority
    BY TableAssumption DEF Kernel, Priority, NoPriority
  <1>3. QED
    BY <1>1, <1>2, UpdateOnWakeKernel

\* sched_get_highest_priority_blocked() finds a task that is blocked, if there
\* is one.
LEMMA HighestPriorityBlockedTask ==
    ASSUME NEW K \in Kernel, NEW obj
    PROVE  \/ HighestPriorityBlocked(K, obj) = -1 /\ BlockedOn(K, obj) = {}
           \/ HighestPriorityBlocked(K, obj) \in BlockedOn(K, obj)
  <1> DEFINE N == TaskTotal - 1
             B == BlockedOn(K, obj)
             R == {p \in (1 .. N) \X (1 .. N) :
                     \/ K.base[p[1]] > K.base[p[2]]
                     \/ K.base[p[1]] = K.base[p[2]] /\ p[1] <= p[2]}
  <1>1. N \in Nat /\ Task = 1 .. N
    BY TableAssumption DEF Task
  <1>2. \A t \in 1 .. N : K.base[t] \in Int
    BY <1>1 DEF Kernel, Priority
  <1>3. B \in SUBSET (1 .. N)
    BY <1>1 DEF BlockedOn, Kernel
  <1> HIDE DEF B, N
  <1>4. \A x, y \in 1 .. N : <<x, y>> \in R <=>
           \/ K.base[x] > K.base[y]
           \/ K.base[x] = K.base[y] /\ x <= y
    OBVIOUS
  <1> HIDE DEF R
  <1>5. \A x, y \in 1 .. N : <<x, y>> \in R \/ <<y, x>> \in R
    <2> SUFFICES ASSUME NEW x \in 1 .. N, NEW y \in 1 .. N
                 PROVE  <<x, y>> \in R \/ <<y, x>> \in R
      OBVIOUS
    <2>1. /\ K.base[x] \in Int /\ K.base[y] \in Int
          /\ x \in Int /\ y \in Int
      BY <1>1, <1>2
    <2>2. \/ K.base[x] > K.base[y] \/ K.base[y] > K.base[x]
          \/ (K.base[x] = K.base[y] /\ (x <= y \/ y <= x))
      BY <2>1
    <2>3. QED
      BY <1>4, <2>2
  <1>6. \A x, y, z \in 1 .. N : <<x, y>> \in R /\ <<y, z>> \in R => <<x, z>> \in R
    BY <1>1, <1>2, <1>4
  <1>7. CASE B # {}
    <2>1. \E b \in B : \A s \in B : <<b, s>> \in R
      BY <1>1, <1>3, <1>5, <1>6, <1>7, BestExists
    <2>2. \E b \in B : \A s \in B : K.base[b] > K.base[s] \/ (K.base[b] = K.base[s] /\ b <= s)
      BY <1>3, <1>4, <2>1
    <2>3. (CHOOSE b \in B : \A s \in B :
              K.base[b] > K.base[s] \/ (K.base[b] = K.base[s] /\ b <= s)) \in B
      BY <2>2, Zenon
    <2>4. QED
      BY <1>7, <2>3, Zenon DEF HighestPriorityBlocked, B
  <1>8. CASE B = {}
    BY <1>8, Zenon DEF HighestPriorityBlocked, B
  <1>9. QED
    BY <1>7, <1>8 DEF B

-----------------------------------------------------------------------------
\* What users of the table need to know of it: the running thread is active, and
\* what a call does to the entries.

\* Only ready tasks may be executed, and the running one is active.
Runs(K) ==
    /\ K \in Kernel
    /\ K.exec \subseteq Ready(K)
    /\ K.current \in K.active \cup {0}

LEMMA ReturnRuns ==
    ASSUME NEW K \in Kernel, K.exec \subseteq Ready(K),
           K.pend \/ K.current \in K.active \cup {0},
           NEW R \in Return(K)
    PROVE  Runs(R) /\ Entries(R) = Entries(K)
  <1>0. R \in Kernel
    BY ReturnKernel
  <1>1. CASE K.pend
    <2>1. PICK c \in K.exec \cup {0} : R = [K EXCEPT !.pend = FALSE, !.current = c]
      BY <1>1 DEF Return, Dispatch
    <2>2. R.current = c /\ R.exec = K.exec /\ Entries(R) = Entries(K)
      BY <2>1 DEF Kernel, Entries
    <2>3. Ready(R) = Ready(K) /\ R.active = K.active
      BY <2>2 DEF Ready, Entries
    <2>4. QED
      BY <1>0, <2>2, <2>3 DEF Runs, Ready
  <1>2. CASE ~K.pend
    BY <1>0, <1>2 DEF Return, Runs
  <1>3. QED
    BY <1>1, <1>2

LEMMA UpdateOnWakeRuns ==
    ASSUME NEW K, Runs(K), NEW p \in NoPriority .. HighestPriority
    PROVE  Runs(UpdateOnWake(K, p)) /\ Entries(UpdateOnWake(K, p)) = Entries(K)
  <1> DEFINE U == UpdateOnWake(K, p)
             X == {t \in Ready(K) : K.prio[t] = p}
  <1>0. K \in Kernel /\ U \in Kernel
    BY UpdateOnWakeKernel DEF Runs
  <1>1. CASE p < K.cur
    BY <1>1 DEF UpdateOnWake
  <1>2. CASE ~(p < K.cur)
    <2>1. U = [K EXCEPT !.cur = p, !.exec = X, !.pend = @ \/ p > K.cur]
      BY <1>2 DEF UpdateOnWake
    <2>2. X \subseteq Ready(K)
      OBVIOUS
    <2> HIDE DEF X
    <2>3. U.exec = X /\ Entries(U) = Entries(K) /\ U.current = K.current
      BY <1>0, <2>1 DEF Kernel, Entries
    <2>4. Ready(U) = Ready(K) /\ U.active = K.active
      BY <2>3 DEF Ready, Entries
    <2>5. QED
      BY <1>0, <2>2, <2>3, <2>4 DEF Runs
  <1>3. QED
    BY <1>1, <1>2

\* Tasks S are made active and the priority p is looked at.
LEMMA WakeRuns ==
    ASSUME NEW K, Runs(K), NEW S \in SUBSET Task, NEW u \in UnblockType,
           NEW p \in NoPriority .. HighestPriority,
           NEW R \in Return(UpdateOnWake(AssertActive(K, S, u), p))
    PROVE  /\ Runs(R)
           /\ R.used = K.used /\ R.active = K.active \cup S
           /\ R.timed = K.timed \ S
           /\ \A t \in Task : R.block[t] = IF t \in S THEN NULL ELSE K.block[t]
           /\ \A t \in Task : R.unblock[t] = IF t \in S THEN u ELSE K.unblock[t]
           /\ R.base = K.base /\ R.prio = K.prio /\ R.stopped = K.stopped
  <1> DEFINE A == AssertActive(K, S, u)
             U == UpdateOnWake(A, p)
  <1>1. A \in Kernel /\ K \in Kernel
    BY AssertActiveKernel DEF Runs
  <1>2. /\ A.used = K.used /\ A.active = K.active \cup S /\ A.timed = K.timed \ S
        /\ A.block = [t \in Task |-> IF t \in S THEN NULL ELSE K.block[t]]
        /\ A.unblock = [t \in Task |-> IF t \in S THEN u ELSE K.unblock[t]]
        /\ A.base = K.base /\ A.prio = K.prio /\ A.stopped = K.stopped
        /\ A.exec = K.exec /\ A.current = K.current
    BY <1>1 DEF AssertActive, Kernel
  <1> HIDE DEF A
  <1>3. Runs(A)
    BY <1>1, <1>2 DEF Runs, Ready
  <1>4. Runs(U) /\ Entries(U) = Entries(A)
    BY <1>3, UpdateOnWakeRuns
  <1>5. R \in Return(U)
    BY DEF A
  <1> HIDE DEF U
  <1>6. Runs(R) /\ Entries(R) = Entries(U)
    BY <1>4, <1>5, ReturnRuns DEF Runs
  <1>7. QED
    BY <1>2, <1>4, <1>6 DEF Entries

\* The running thread goes to sleep: sched_priv_update_on_sleep() and the switch.
LEMMA SleepRuns ==
    ASSUME NEW K, Runs(K), K.current \in Task,
           NEW R \in Return(UpdateOnSleep(K))
    PROVE  /\ Runs(R) /\ IsTop(R)
           /\ R.used = K.used /\ R.inuse = K.inuse /\ R.active = K.active \ {K.current}
           /\ R.timed = K.timed /\ R.block = K.block /\ R.unblock = K.unblock
           /\ R.base = K.base /\ R.prio = K.prio /\ R.stopped = K.stopped
  <1> DEFINE D  == DeassertActive(K, K.current)
             U  == UpdateOnSleep(K)
  <1>1. K \in Kernel /\ K.exec \subseteq Ready(K)
    BY DEF Runs
  <1>2. U \in Kernel /\ IsTop(U) /\ U.pend /\ Entries(U) = Entries(D)
    BY <1>1, UpdateOnSleepTop
  <1>3. /\ D.used = K.used /\ D.inuse = K.inuse /\ D.active = K.active \ {K.current} /\ D.timed = K.timed
        /\ D.block = K.block /\ D.unblock = K.unblock
        /\ D.base = K.base /\ D.prio = K.prio /\ D.stopped = K.stopped
    BY <1>1 DEF DeassertActive, Kernel
  <1> HIDE DEF D
  <1>4. U.exec \subseteq Ready(U)
    BY <1>2 DEF IsTop
  <1> HIDE DEF U
  <1>5. R \in Return(U)
    BY DEF U
  <1>6. Runs(R) /\ Entries(R) = Entries(U)
    BY <1>2, <1>4, <1>5, ReturnRuns
  <1>7. IsTop(R)
    BY <1>2, <1>5, ReturnTop
  <1>8. QED
    BY <1>2, <1>3, <1>6, <1>7 DEF Entries

\* The running thread blocks.
LEMMA BlockRuns ==
    ASSUME NEW K, Runs(K), K.current \in Task, NEW obj \in Object, NEW kind,
           obj # NULL \/ kind \notin {"near", "past"},
           NEW R \in Return(TimedBlock(K, obj, kind))
    PROVE  /\ Runs(R)
           /\ R.used = K.used /\ R.inuse = K.inuse /\ R.active = K.active \ {K.current}
           /\ R.timed \subseteq K.timed \cup {K.current}
           /\ kind = "never" => R.timed = K.timed \ {K.current}
           /\ R.block = [K.block EXCEPT ![K.current] = obj]
           /\ R.unblock = K.unblock
           /\ R.base = K.base /\ R.prio = K.prio /\ R.stopped = K.stopped
           /\ IsTop(R)
  <1> DEFINE c  == K.current
             T  == CASE kind = "never" -> K.timed \ {c}
                     [] kind \in {"future", "near"} -> K.timed \cup {c}
                     [] OTHER -> K.timed
             K1 == [K EXCEPT !.block[c] = obj, !.timed = T]
  <1>1. T \in SUBSET Task /\ T \subseteq K.timed \cup {c} /\ (kind = "never" => T = K.timed \ {c})
    BY DEF Kernel, Runs
  <1>2. TimedBlock(K, obj, kind) = UpdateOnSleep(K1)
    BY DEF TimedBlock
  <1> HIDE DEF T
  <1>3. K1 \in Kernel
    BY <1>1 DEF Kernel, Runs
  <1>4. /\ K1.used = K.used /\ K1.inuse = K.inuse /\ K1.active = K.active /\ K1.timed = T
        /\ K1.block = [K.block EXCEPT ![c] = obj] /\ K1.unblock = K.unblock
        /\ K1.base = K.base /\ K1.prio = K.prio /\ K1.stopped = K.stopped
        /\ K1.exec = K.exec /\ K1.current = c
    BY DEF Kernel, Runs
  <1>5. Runs(K1)
    BY <1>3, <1>4 DEF Ready, Runs
  <1> HIDE DEF K1
  <1>6. R \in Return(UpdateOnSleep(K1))
    BY <1>2
  <1>7. QED
    BY <1>1, <1>4, <1>5, <1>6, SleepRuns

-----------------------------------------------------------------------------
\* The table of threads that have just been created with the priorities B.
TopOf(B) == CHOOSE p \in Priority :
                /\ \E t \in Task : B[t] = p
                /\ \A t \in Task : B[t] <= p

LEMMA TopOfIsTop ==
    ASSUME NEW B \in [Task -> Priority]
    PROVE  /\ TopOf(B) \in Priority
           /\ \E t \in Task : B[t] = TopOf(B)
           /\ \A t \in Task : B[t] <= TopOf(B)
  <1> DEFINE N == TaskTotal - 1
  <1>1. N \in Nat /\ Task = 1 .. N /\ Task # {}
    <2>1. N \in Nat /\ Task = 1 .. N /\ 1 \in 1 .. N
      BY TableAssumption DEF Task
    <2>2. QED
      BY <2>1
  <1>2. \A t \in Task : B[t] \in Priority /\ B[t] \in Int
    BY DEF Priority
  <1> HIDE DEF N
  <1> DEFINE R == {p \in (1 .. N) \X (1 .. N) : B[p[1]] >= B[p[2]]}
  <1>3. \A x, y \in 1 .. N : <<x, y>> \in R <=> B[x] >= B[y]
    OBVIOUS
  <1> HIDE DEF R
  <1>4. \A x, y \in 1 .. N : <<x, y>> \in R \/ <<y, x>> \in R
    <2> SUFFICES ASSUME NEW x \in 1 .. N, NEW y \in 1 .. N
                 PROVE  <<x, y>> \in R \/ <<y, x>> \in R
      OBVIOUS
    <2>1. B[x] \in Int /\ B[y] \in Int
      BY <1>1, <1>2
    <2>2. B[x] >= B[y] \/ B[y] >= B[x]
      BY <2>1
    <2>3. QED
      BY <1>3, <2>2
  <1>5. \A x, y, z \in 1 .. N : <<x, y>> \in R /\ <<y, z>> \in R => <<x, z>> \in R
    <2> SUFFICES ASSUME NEW x \in 1 .. N, NEW y \in 1 .. N, NEW z \in 1 .. N,
                        <<x, y>> \in R, <<y, z>> \in R
                 PROVE  <<x, z>> \in R
      OBVIOUS
    <2>1. B[x] \in Int /\ B[y] \in Int /\ B[z] \in Int
      BY <1>1, <1>2
    <2>2. B[x] >= B[y] /\ B[y] >= B[z]
      BY <1>3
    <2>3. B[x] >= B[z]
      BY <2>1, <2>2
    <2>4. QED
      BY <1>3, <2>3
  <1>6. \E b \in 1 .. N : \A s \in 1 .. N : <<b, s>> \in R
    <2>1. 1 .. N \in SUBSET (1 .. N) /\ 1 .. N # {} /\ N \in Nat
      BY <1>1
    <2>2. QED
      BY <1>4, <1>5, <2>1, BestExists
  <1>7. PICK b \in Task : \A s \in Task : B[s] <= B[b]
    BY <1>1, <1>2, <1>3, <1>6
  <1>8. \E p \in Priority : (\E t \in Task : B[t] = p) /\ (\A t \in Task : B[t] <= p)
    BY <1>2, <1>7
  <1>9. QED
    BY <1>8, Zenon DEF TopOf

\* It is well formed, and the threads of the largest priority are executed.
LEMMA StartingTable ==
    ASSUME NEW B \in [Task -> Priority], NEW K,
           K = [used |-> Task, exec |-> {t \in Task : B[t] = TopOf(B)},
                fifo |-> {}, inuse |-> Task, active |-> Task, stopped |-> {},
                timed |-> {}, prio |-> B, base |-> B,
                block |-> [t \in Task |-> NULL],
                unblock |-> [t \in Task |-> "NONE"],
                cur |-> TopOf(B), current |-> 0, pend |-> FALSE]
    PROVE  Runs(K) /\ IsTop(K)
  <1>1. /\ TopOf(B) \in Priority
        /\ \E t \in Task : B[t] = TopOf(B)
        /\ \A t \in Task : B[t] <= TopOf(B)
    BY TopOfIsTop
  <1>2. TopOf(B) \in NoPriority .. HighestPriority
    BY <1>1, TableAssumption DEF Priority, NoPriority
  <1>3. NULL \in Object
    BY DEF NULL, Object, ObjectKind
  <1>4. K \in Kernel
    BY <1>2, <1>3, TableAssumption DEF Kernel, UnblockType
  <1>5. Ready(K) = Task
    BY DEF Ready
  <1>6. QED
    BY <1>1, <1>4, <1>5 DEF Runs, IsTop

-----------------------------------------------------------------------------
\* The processor is not idle while a task is ready: weaker than IsTop, and kept
\* even when a ready task of a larger priority is not executed.
Busy(K) ==
    /\ K.exec = {} => Ready(K) = {}
    /\ K.exec = {} <=> K.cur = NoPriority

LEMMA TopBusy ==
    ASSUME NEW K \in Kernel, IsTop(K)
    PROVE  Busy(K)
  <1>1. \A t \in Ready(K) : K.prio[t] # NoPriority
    BY TableAssumption DEF Kernel, Ready, Priority, NoPriority
  <1>2. QED
    BY <1>1 DEF IsTop, Busy

LEMMA ReturnBusy ==
    ASSUME NEW K, Busy(K), NEW R \in Return(K), K \in Kernel
    PROVE  Busy(R)
  <1>1. R.exec = K.exec /\ R.cur = K.cur /\ Ready(R) = Ready(K)
    <2>1. CASE K.pend
      <3>1. PICK d \in Dispatch(K) : R = [K EXCEPT !.pend = FALSE, !.current = d]
        BY <2>1 DEF Return
      <3>2. QED
        BY <3>1 DEF Kernel, Ready
    <2>2. CASE ~K.pend
      BY <2>2 DEF Return
    <2>3. QED
      BY <2>1, <2>2
  <1>2. QED
    BY <1>1 DEF Busy

\* What sched_priv_update_on_wake() does for a priority that is not too low.
LEMMA UpdateOnWakeTaken ==
    ASSUME NEW K \in Kernel, NEW p \in NoPriority .. HighestPriority, ~(p < K.cur)
    PROVE  LET U == UpdateOnWake(K, p)
           IN  /\ U.cur = p /\ U.exec = {t \in Ready(K) : K.prio[t] = p}
               /\ Ready(U) = Ready(K)
  <1> DEFINE U == UpdateOnWake(K, p)
             X == {t \in Ready(K) : K.prio[t] = p}
  <1>1. U = [K EXCEPT !.cur = p, !.exec = X, !.pend = @ \/ p > K.cur]
    BY DEF UpdateOnWake
  <1> HIDE DEF X
  <1>2. U.cur = p /\ U.exec = X /\ Ready(U) = Ready(K)
    BY <1>1 DEF Kernel, Ready
  <1>3. QED
    BY <1>2 DEF X

\* Waking the tasks of S, if p is the priority of a task that is ready then.
LEMMA WokenBusy ==
    ASSUME NEW K, Runs(K), Busy(K), NEW S \in SUBSET Task, NEW u \in UnblockType,
           NEW p \in NoPriority .. HighestPriority,
           \/ S = {} /\ p = NoPriority
           \/ \E t \in S \cup (K.active \cap Task) :
                 t \in K.used /\ t \notin K.stopped /\ K.prio[t] = p
    PROVE  LET U == UpdateOnWake(AssertActive(K, S, u), p)
           IN  U \in Kernel /\ Busy(U)
  <1> DEFINE A == AssertActive(K, S, u)
             U == UpdateOnWake(A, p)
             X == {t \in Ready(A) : A.prio[t] = p}
  <1>1. K \in Kernel /\ A \in Kernel
    BY AssertActiveKernel DEF Runs
  <1>2. /\ A.exec = K.exec /\ A.cur = K.cur /\ A.prio = K.prio /\ A.used = K.used
        /\ A.active = K.active \cup S /\ A.stopped = K.stopped
    BY <1>1 DEF AssertActive, Kernel
  <1>3. K.cur \in Int /\ NoPriority \in Int /\ p \in Int /\ p >= NoPriority
        /\ K.cur >= NoPriority
    BY <1>1, TableAssumption DEF Kernel, NoPriority
  <1>4. U \in Kernel
    BY <1>1, UpdateOnWakeKernel
  <1> HIDE DEF A
  <1>5. CASE p < K.cur
    <2>1. U = A
      BY <1>2, <1>5 DEF UpdateOnWake
    <2>2. K.exec # {}
      BY <1>3, <1>5 DEF Busy
    <2>3. Busy(U)
      BY <1>2, <2>1, <2>2 DEF Busy
    <2>4. QED
      BY <1>4, <2>3 DEF A
  <1>6. CASE ~(p < K.cur)
    <2>1. ~(p < A.cur)
      BY <1>2, <1>6
    <2>2. U.cur = p /\ U.exec = X /\ Ready(U) = Ready(A)
      BY <1>1, <2>1, UpdateOnWakeTaken
    <2> HIDE DEF U
    <2>3. CASE S = {} /\ p = NoPriority
      <3>1. K.cur = NoPriority
        BY <1>3, <1>6, <2>3
      <3>2. Ready(K) = {}
        BY <3>1 DEF Busy
      <3>3. Ready(A) = {}
        BY <1>2, <2>3, <3>2 DEF Ready
      <3>4. Busy(U)
        BY <2>2, <2>3, <3>3 DEF Busy
      <3>5. QED
        BY <1>4, <3>4 DEF A, U
    <2>4. CASE \E t \in S \cup (K.active \cap Task) :
                  t \in K.used /\ t \notin K.stopped /\ K.prio[t] = p
      <3>1. PICK t \in S \cup (K.active \cap Task) :
                  t \in K.used /\ t \notin K.stopped /\ K.prio[t] = p
        BY <2>4
      <3>2. t \in X /\ p # NoPriority
        BY <1>1, <1>2, <3>1, TableAssumption DEF Ready, Kernel, Priority, NoPriority
      <3>3. Busy(U)
        BY <2>2, <3>2 DEF Busy
      <3>4. QED
        BY <1>4, <3>3 DEF A, U
    <2>5. QED
      BY <2>3, <2>4
  <1>7. QED
    BY <1>5, <1>6

LEMMA WakeBusy ==
    ASSUME NEW K, Runs(K), Busy(K), NEW S \in SUBSET Task, NEW u \in UnblockType,
           NEW p \in NoPriority .. HighestPriority,
           \/ S = {} /\ p = NoPriority
           \/ \E t \in S : t \in K.used /\ t \notin K.stopped /\ K.prio[t] = p,
           NEW R \in Return(UpdateOnWake(AssertActive(K, S, u), p))
    PROVE  Busy(R)
  <1>1. \/ S = {} /\ p = NoPriority
        \/ \E t \in S \cup (K.active \cap Task) :
              t \in K.used /\ t \notin K.stopped /\ K.prio[t] = p
    OBVIOUS
  <1>2. UpdateOnWake(AssertActive(K, S, u), p) \in Kernel
        /\ Busy(UpdateOnWake(AssertActive(K, S, u), p))
    BY <1>1, WokenBusy
  <1>3. QED
    BY <1>2, ReturnBusy
=============================================================================
