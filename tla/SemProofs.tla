----------------------------- MODULE SemProofs ------------------------------
(***************************************************************************)
(* Proofs about semaphores: units are neither handed out twice nor lost.   *)
(* Both are inequalities between the value, which is counted down when a   *)
(* wait begins, and the numbers of threads in certain places; the proofs   *)
(* follow these numbers through each action.                               *)
(***************************************************************************)
EXTENDS Sem, SchedTableProofs, FiniteSetTheorems

\* Threads asleep on the semaphore.
Blocked == BlockedOn(k, SemObj)

\* Threads a post has found and not yet woken.
Targets == {t \in Task : Waking(t)}

\* Posts that have stored their unit and have not looked for a waiter.
Scanning == {p \in Task : pc[p] = "scan"}

\* Calls that have counted the value down and have not returned.
Pending == {t \in Task : pc[t] \in {"waiting", "timedwait", "timedgot", "abort"}}

\* Timed waits that end without a unit: the timer has woken them, or they are
\* giving their unit back.
TimedOut == {t \in Task : pc[t] = "timedwait" /\ t \in k.active /\ k.unblock[t] = "SLEEP"}
Expired  == TimedOut \cup {t \in Task : pc[t] = "abort"}

\* Units are owed to these, and nobody is about to wake them.
Asleep   == Blocked \ Targets
Leaving  == Expired \ Targets
Unserved == (Blocked \cup Expired) \ Targets

Owed     == IF value < 0 THEN -value ELSE 0
Unspoilt == spoilt \subseteq {"back"}

-----------------------------------------------------------------------------
\* The inductive invariant.
Types ==
    /\ Runs(k) /\ k.used = Task
    /\ pc \in [Task -> PC]
    /\ reg \in [Task -> Int]
    /\ value \in Int /\ posts \in Nat /\ acquired \in Nat
    /\ \A p \in Task : pc[p] = "wake" => reg[p] \in Task

\* Who sleeps does so in sleep() or in a wait, and sem_wait() has no deadline
\* that the timer could find: priv_sem_wait() leaves the wake time alone, which
\* a running thread does not have.
SleepersInv ==
    /\ k.timed \cap k.active = {}
    /\ \A t \in Task \ k.active :
          \/ pc[t] = "run" /\ k.block[t] = NULL
          \/ pc[t] = "waiting" /\ k.block[t] = SemObj /\ t \notin k.timed
          \/ pc[t] = "timedwait" /\ k.block[t] = SemObj

\* Every unit is in the value, was acquired, or belongs to a call under way.
Conserved ==
    "torn" \notin spoilt =>
        value + acquired + Cardinality(Pending) = InitialValue + posts

\* Every post that is about to wake a thread has one of its own, which has not
\* left its wait.
TargetsInv ==
    Unspoilt =>
        /\ \A p \in Task : pc[p] = "wake" => reg[p] \in Blocked \cup TimedOut
        /\ \A p, q \in Task : pc[p] = "wake" /\ pc[q] = "wake" /\ reg[p] = reg[q] => p = q

\* What is owed is owed to threads that nobody is about to wake; a post that has
\* yet to look for a waiter will find one of them, or nothing is owed but to
\* those that give up.
OwedInv ==
    Unspoilt =>
        \/ -value <= Cardinality(Leaving)
        \/ -value + Cardinality(Scanning) <= Cardinality(Unserved)

\* Those asleep whom nobody is about to wake are owed a unit, or a post will
\* look for them.
ServedInv ==
    spoilt = {} => Cardinality(Asleep) <= Owed + Cardinality(Scanning)

SemInv ==
    Types /\ SleepersInv /\ Conserved /\ TargetsInv /\ OwedInv /\ ServedInv

-----------------------------------------------------------------------------
\* Counting sets of threads.
LEMMA TasksFinite == IsFiniteSet(Task)
  BY TableAssumption, FS_Interval DEF Task

LEMMA CountType ==
    ASSUME NEW S \in SUBSET Task
    PROVE  IsFiniteSet(S) /\ Cardinality(S) \in Nat
  <1>1. IsFiniteSet(S)
    BY TasksFinite, FS_Subset
  <1>2. QED
    BY <1>1, FS_CardinalityType

LEMMA CountUpTo ==
    ASSUME NEW T \in SUBSET Task, NEW S \in SUBSET T
    PROVE  Cardinality(S) <= Cardinality(T)
  BY CountType, FS_Subset

LEMMA CountOneMore ==
    ASSUME NEW S \in SUBSET Task, NEW c \in Task, c \notin S
    PROVE  Cardinality(S \cup {c}) = Cardinality(S) + 1
  BY CountType, FS_AddElement

LEMMA CountOneLess ==
    ASSUME NEW S \in SUBSET Task, NEW c \in S
    PROVE  Cardinality(S \ {c}) = Cardinality(S) - 1
  BY CountType, FS_RemoveElement

LEMMA CountBoth ==
    ASSUME NEW S \in SUBSET Task, NEW T \in SUBSET Task, S \cap T = {}
    PROVE  Cardinality(S \cup T) = Cardinality(S) + Cardinality(T)
  <1>1. Cardinality(S \cup T) = Cardinality(S) + Cardinality(T) - Cardinality(S \cap T)
    BY CountType, FS_Union
  <1>2. Cardinality(S \cap T) = 0
    BY FS_EmptySet
  <1>3. Cardinality(S) \in Nat /\ Cardinality(T) \in Nat
    BY CountType
  <1>4. QED
    BY <1>1, <1>2, <1>3

LEMMA SetsOfTasks ==
    ASSUME k.used = Task
    PROVE  /\ Blocked \in SUBSET Task /\ Targets \in SUBSET Task
           /\ Scanning \in SUBSET Task /\ Pending \in SUBSET Task
           /\ Expired \in SUBSET Task /\ TimedOut \in SUBSET Expired
           /\ Asleep \in SUBSET Task /\ Leaving \in SUBSET Unserved
           /\ Unserved \in SUBSET Task
  BY DEF Blocked, BlockedOn, Targets, Scanning, Pending, Expired, TimedOut,
         Asleep, Leaving, Unserved

\* A thread is asleep on the semaphore when it sleeps in a wait.
LEMMA BlockedThreads ==
    ASSUME NEW K, NEW P, K.used = Task,
           \A t \in Task \ K.active :
              \/ P[t] = "run" /\ K.block[t] = NULL
              \/ P[t] = "waiting" /\ K.block[t] = SemObj
              \/ P[t] = "timedwait" /\ K.block[t] = SemObj
    PROVE  BlockedOn(K, SemObj) =
             {t \in Task : t \notin K.active /\ P[t] \in {"waiting", "timedwait"}}
  <1>1. NULL # SemObj
    BY DEF NULL, SemObj
  <1>2. QED
    BY <1>1 DEF BlockedOn

LEMMA SemObject == SemObj \in Object /\ NULL \in Object /\ SemObj # NULL
  BY DEF SemObj, NULL, Object, ObjectKind

LEMMA RunningThread ==
    ASSUME Types, NEW c \in Task, k.current = c
    PROVE  c \in k.active
  BY TableAssumption DEF Types, Runs, Task

-----------------------------------------------------------------------------
\* The table and the sleepers, action by action.  First the steps of a running
\* thread that leave the table alone, or change its own block object ...
LEMMA RunningKeepsSleepers ==
    ASSUME Types, SleepersInv, NEW c \in Task, k.current = c,
           k' = k,
           \A t \in Task \ {c} : pc'[t] = pc[t]
    PROVE  Runs(k') /\ k'.used = Task /\ SleepersInv'
  <1>1. c \in k.active
    BY RunningThread
  <1>2. QED
    BY <1>1 DEF Types, SleepersInv

LEMMA BlockObjectRuns ==
    ASSUME NEW K, Runs(K), NEW c \in Task, NEW obj \in Object
    PROVE  LET R == [K EXCEPT !.block[c] = obj]
           IN  /\ Runs(R) /\ R.used = K.used /\ R.active = K.active
               /\ R.timed = K.timed /\ R.block = [K.block EXCEPT ![c] = obj]
               /\ R.unblock = K.unblock /\ R.current = K.current
  <1>1. K \in Kernel
    BY DEF Runs
  <1>2. QED
    BY <1>1 DEF Runs, Kernel, Ready

\* ... then a running thread that goes to sleep ...
LEMMA SleepingKeepsSleepers ==
    ASSUME Types, SleepersInv, NEW c \in Task, k.current = c,
           Runs(k'), k'.used = k.used, k'.active = k.active \ {c},
           k'.timed \subseteq k.timed \cup {c},
           \A t \in Task \ {c} : k'.block[t] = k.block[t] /\ pc'[t] = pc[t],
           \/ pc'[c] = "run" /\ k'.block[c] = NULL
           \/ pc'[c] = "waiting" /\ k'.block[c] = SemObj /\ c \notin k'.timed
           \/ pc'[c] = "timedwait" /\ k'.block[c] = SemObj
    PROVE  Runs(k') /\ k'.used = Task /\ SleepersInv'
  BY DEF Types, SleepersInv

\* ... and threads that are woken.
LEMMA WakingKeepsSleepers ==
    ASSUME Types, SleepersInv, NEW S \in SUBSET Task,
           Runs(k'), k'.used = k.used, k'.active = k.active \cup S,
           k'.timed = k.timed \ S,
           \A t \in Task : k'.block[t] = IF t \in S THEN NULL ELSE k.block[t],
           \A t \in Task \ k'.active : pc'[t] = pc[t]
    PROVE  Runs(k') /\ k'.used = Task /\ SleepersInv'
  BY DEF Types, SleepersInv

-----------------------------------------------------------------------------
\* An action that leaves the counts as they are and moves nobody between the
\* sets, but for sleepers that become expired.
Quiet ==
    /\ Types' /\ SleepersInv'
    /\ UNCHANGED <<value, posts, acquired, spoilt>>
    /\ Pending' = Pending /\ Scanning' = Scanning /\ Targets' = Targets
    /\ (Blocked \cup Expired)' = Blocked \cup Expired
    /\ (Blocked \cup TimedOut)' = Blocked \cup TimedOut
    /\ Blocked' \subseteq Blocked /\ Expired \subseteq Expired'
    /\ \A p \in Task : /\ pc'[p] = "wake" <=> pc[p] = "wake"
                       /\ pc[p] = "wake" => reg'[p] = reg[p]

LEMMA QuietStep ==
    ASSUME SemInv, Quiet
    PROVE  SemInv'
  <1>1. /\ Blocked \in SUBSET Task /\ Expired \in SUBSET Task /\ Targets \in SUBSET Task
        /\ Expired' \in SUBSET Task /\ Scanning \in SUBSET Task
    BY SetsOfTasks DEF SemInv, Quiet, Types, Expired, TimedOut
  <1>2. Unserved' = Unserved /\ Asleep' \subseteq Asleep /\ Leaving \subseteq Leaving'
    BY DEF Quiet, Unserved, Asleep, Leaving
  <1>3. /\ Leaving' \in SUBSET Task /\ Asleep \in SUBSET Task
        /\ Leaving \in SUBSET Task /\ Asleep' \in SUBSET Task
    BY <1>1, <1>2 DEF Leaving, Asleep, Quiet
  <1>4. /\ Cardinality(Leaving) <= Cardinality(Leaving')
        /\ Cardinality(Asleep') <= Cardinality(Asleep)
    BY <1>2, <1>3, CountUpTo
  <1>5. /\ Cardinality(Leaving) \in Int /\ Cardinality(Leaving') \in Int
        /\ Cardinality(Asleep) \in Int /\ Cardinality(Asleep') \in Int
        /\ Cardinality(Scanning) \in Int
    BY <1>1, <1>3, CountType
  <1>6. value \in Int /\ Owed \in Int
    BY DEF SemInv, Types, Owed
  <1>7. Types' /\ SleepersInv'
    BY DEF Quiet
  <1>8. Conserved'
    BY DEF SemInv, Quiet, Conserved
  <1>9. TargetsInv'
    BY DEF SemInv, Quiet, TargetsInv, Unspoilt
  <1>10. OwedInv'
    BY <1>2, <1>4, <1>5, <1>6 DEF SemInv, Quiet, OwedInv, Unspoilt
  <1>11. ServedInv'
    BY <1>4, <1>5, <1>6 DEF SemInv, Quiet, ServedInv, Owed
  <1>12. QED
    BY <1>7, <1>8, <1>9, <1>10, <1>11 DEF SemInv

LEMMA SysTickStep ==
    ASSUME SemInv, SysTick
    PROVE  SemInv'
  <1>1. k \in Kernel /\ Runs(k) /\ k.used = Task
    BY DEF SemInv, Types, Runs
  <1>2. /\ SwitchContext(k) \in Kernel /\ SwitchContext(k).pend
        /\ SwitchContext(k).exec \subseteq Ready(SwitchContext(k))
        /\ Entries(SwitchContext(k)) = Entries(k)
    BY <1>1 DEF SwitchContext, Kernel, Runs, Ready, Entries
  <1>3. Runs(k') /\ Entries(k') = Entries(k)
    BY <1>2, ReturnRuns DEF SysTick
  <1>4. /\ k'.used = k.used /\ k'.active = k.active /\ k'.timed = k.timed
        /\ k'.block = k.block /\ k'.unblock = k.unblock
    BY <1>3 DEF Entries
  <1>5. Types' /\ SleepersInv'
    BY <1>1, <1>3, <1>4 DEF SemInv, Types, SleepersInv, SysTick
  <1>6. Quiet
    BY <1>4, <1>5 DEF SysTick, Quiet, Pending, Scanning, Targets, Waking, Blocked, BlockedOn,
                 Expired, TimedOut
  <1>7. QED
    BY <1>6, QuietStep

\* The timer finds no thread in sem_wait().
LEMMA TimerMatchStep ==
    ASSUME SemInv, TimerMatch
    PROVE  SemInv'
  <1>1. PICK S \in SUBSET Sleepers(k) : k' \in Return(MatchEvent(k, S))
    BY DEF TimerMatch
  <1>2. Types /\ SleepersInv /\ k \in Kernel /\ Runs(k) /\ k.used = Task
    BY DEF SemInv, Types, Runs
  <1>3. S \in SUBSET Task
    BY <1>2 DEF Sleepers
  <1>4. /\ Runs(k') /\ k'.used = k.used /\ k'.active = k.active \cup S
        /\ k'.timed = k.timed \ S
        /\ \A t \in Task : k'.block[t] = IF t \in S THEN NULL ELSE k.block[t]
        /\ \A t \in Task : k'.unblock[t] = IF t \in S THEN "SLEEP" ELSE k.unblock[t]
    BY <1>1, <1>2, <1>3, TopPriorityRange, WakeRuns DEF MatchEvent, UnblockType
  <1>5. UNCHANGED <<pc, reg, value, posts, acquired, spoilt>>
    BY DEF TimerMatch
  <1>6. Types' /\ SleepersInv'
    BY <1>2, <1>3, <1>4, <1>5, WakingKeepsSleepers DEF Types
  <1>7. \A t \in S : /\ t \notin k.active /\ t \in k.timed
                     /\ pc[t] \in {"run", "timedwait"}
    BY <1>2, <1>3 DEF Sleepers, SleepersInv
  <1>8. Blocked = {t \in Task : t \notin k.active /\ pc[t] \in {"waiting", "timedwait"}}
    BY <1>2, BlockedThreads DEF SleepersInv, Blocked
  <1>9. Blocked' = {t \in Task : t \notin k'.active /\ pc[t] \in {"waiting", "timedwait"}}
    BY <1>2, <1>4, <1>5, <1>6, BlockedThreads DEF SleepersInv, Blocked
  <1>10. /\ Blocked' \subseteq Blocked
         /\ TimedOut' = TimedOut \cup {t \in S : pc[t] = "timedwait"}
         /\ Blocked = Blocked' \cup {t \in S : pc[t] = "timedwait"}
    BY <1>3, <1>4, <1>5, <1>7, <1>8, <1>9 DEF TimedOut
  <1>11. Expired' = Expired \cup {t \in S : pc[t] = "timedwait"}
    BY <1>5, <1>10 DEF Expired
  <1>12. Quiet
    BY <1>5, <1>6, <1>10, <1>11 DEF Quiet, Pending, Scanning, Targets, Waking
  <1>13. QED
    BY <1>12, QuietStep

LEMMA SleepStep ==
    ASSUME SemInv, NEW c \in Task, Sleep(c)
    PROVE  SemInv'
  <1>1. Types /\ SleepersInv /\ k \in Kernel /\ Runs(k) /\ k.used = Task
    BY DEF SemInv, Types, Runs
  <1>2. k.current = c /\ pc[c] = "run"
    BY DEF Sleep, At
  <1>3. /\ Runs(k') /\ k'.used = k.used /\ k'.active = k.active \ {c}
        /\ k'.timed \subseteq k.timed \cup {c}
        /\ k'.block = [k.block EXCEPT ![c] = NULL] /\ k'.unblock = k.unblock
    BY <1>1, <1>2, BlockRuns, SemObject DEF Sleep
  <1>4. UNCHANGED <<pc, reg, value, posts, acquired, spoilt>>
    BY DEF Sleep
  <1>5. k.block \in [Task -> Object]
    BY <1>1 DEF Kernel
  <1>6. k'.block[c] = NULL /\ \A t \in Task \ {c} : k'.block[t] = k.block[t]
    BY <1>3, <1>5
  <1>7. Types' /\ SleepersInv'
    BY <1>1, <1>2, <1>3, <1>4, <1>6, SleepingKeepsSleepers DEF Types
  <1>8. c \in k.active
    BY <1>1, <1>2, RunningThread
  <1>9. Blocked' = Blocked
    BY <1>1, <1>2, <1>3, <1>6, <1>8, SemObject DEF Blocked, BlockedOn
  <1>10. TimedOut' = TimedOut
    BY <1>2, <1>3, <1>4 DEF TimedOut
  <1>11. Quiet
    BY <1>4, <1>7, <1>9, <1>10 DEF Quiet, Pending, Scanning, Targets, Waking, Expired
  <1>12. QED
    BY <1>11, QuietStep

LEMMA PostLoadStep ==
    ASSUME SemInv, NEW c \in Task, PostLoad(c)
    PROVE  SemInv'
  <1>1. Types /\ SleepersInv /\ k.used = Task
    BY DEF SemInv, Types
  <1>2. /\ k.current = c /\ pc[c] = "run" /\ pc' = [pc EXCEPT ![c] = "post"]
        /\ reg' = [reg EXCEPT ![c] = value]
        /\ UNCHANGED <<k, value, posts, acquired, spoilt>>
    BY DEF PostLoad, At, Load, Goto
  <1>3. /\ pc \in [Task -> PC] /\ pc'[c] = "post"
        /\ \A t \in Task \ {c} : pc'[t] = pc[t] /\ reg'[t] = reg[t]
    BY <1>1, <1>2 DEF Types
  <1>4. Runs(k') /\ k'.used = Task /\ SleepersInv'
    BY <1>1, <1>2, <1>3, RunningKeepsSleepers
  <1>5. Types'
    BY <1>1, <1>2, <1>3, <1>4 DEF Types, PC
  <1>6. /\ Pending' = Pending /\ Scanning' = Scanning /\ Targets' = Targets
        /\ TimedOut' = TimedOut /\ Blocked' = Blocked /\ Expired' = Expired
    BY <1>2, <1>3 DEF Pending, Scanning, Targets, Waking, TimedOut, Expired, Blocked
  <1>7. Quiet
    BY <1>2, <1>3, <1>4, <1>5, <1>6 DEF Quiet
  <1>8. QED
    BY <1>7, QuietStep

\* A signal wakes whom it finds: nothing more is said of the waits.
LEMMA SignalStep ==
    ASSUME SemInv, NEW c \in Task, NEW t \in Task, Signal(c, t)
    PROVE  SemInv'
  <1> DEFINE K == [k EXCEPT !.stopped = @ \ {t}]
  <1>1. Types /\ SleepersInv /\ k \in Kernel /\ Runs(k) /\ k.used = Task
    BY DEF SemInv, Types, Runs
  <1>2. /\ Runs(K) /\ K.used = k.used /\ K.active = k.active /\ K.timed = k.timed
        /\ K.block = k.block /\ K.prio = k.prio
    BY <1>1 DEF Runs, Kernel, Ready
  <1>3. k' \in Return(UpdateOnWake(AssertActive(K, {t}, "SIGNAL"), k.prio[t]))
    BY DEF Signal, SignalActivate
  <1>4. k.prio[t] \in NoPriority .. HighestPriority
    BY <1>1, TableAssumption DEF Kernel, Priority, NoPriority
  <1> HIDE DEF K
  <1>5. /\ Runs(k') /\ k'.used = K.used /\ k'.active = K.active \cup {t}
        /\ k'.timed = K.timed \ {t}
        /\ \A s \in Task : k'.block[s] = IF s \in {t} THEN NULL ELSE K.block[s]
    BY <1>2, <1>3, <1>4, WakeRuns DEF UnblockType
  <1>6. UNCHANGED <<pc, reg, value, posts, acquired>> /\ spoilt' = spoilt \cup {"signal"}
    BY DEF Signal, Spoil
  <1>7. Types' /\ SleepersInv'
    <2>1. /\ {t} \in SUBSET Task /\ k'.used = k.used /\ k'.active = k.active \cup {t}
          /\ k'.timed = k.timed \ {t}
          /\ \A s \in Task : k'.block[s] = IF s \in {t} THEN NULL ELSE k.block[s]
      BY <1>2, <1>5
    <2>2. Runs(k') /\ k'.used = Task /\ SleepersInv'
      BY <1>1, <1>5, <1>6, <2>1, WakingKeepsSleepers
    <2>3. QED
      BY <1>1, <1>6, <2>2 DEF Types
  <1>8. Conserved'
    BY <1>6 DEF SemInv, Conserved, Pending
  <1>9. TargetsInv' /\ OwedInv' /\ ServedInv'
    BY <1>6 DEF TargetsInv, OwedInv, ServedInv, Unspoilt
  <1>10. QED
    BY <1>7, <1>8, <1>9 DEF SemInv

-----------------------------------------------------------------------------
\* The numbers the invariant compares.
LEMMA Numbers ==
    ASSUME SemInv
    PROVE  /\ value \in Int /\ acquired \in Nat /\ posts \in Nat /\ InitialValue \in Nat
           /\ Cardinality(Pending) \in Nat /\ Cardinality(Scanning) \in Nat
           /\ Cardinality(Leaving) \in Nat /\ Cardinality(Unserved) \in Nat
           /\ Cardinality(Asleep) \in Nat
           /\ Cardinality(Leaving) <= Cardinality(Unserved)
  <1>1. /\ Pending \in SUBSET Task /\ Scanning \in SUBSET Task /\ Leaving \in SUBSET Unserved
        /\ Unserved \in SUBSET Task /\ Asleep \in SUBSET Task /\ Leaving \in SUBSET Task
    BY SetsOfTasks DEF SemInv, Types
  <1>2. /\ Cardinality(Pending) \in Nat /\ Cardinality(Scanning) \in Nat
        /\ Cardinality(Leaving) \in Nat /\ Cardinality(Unserved) \in Nat
        /\ Cardinality(Asleep) \in Nat
    BY <1>1, CountType
  <1>3. Cardinality(Leaving) <= Cardinality(Unserved)
    BY <1>1, CountUpTo
  <1>4. QED
    BY <1>2, <1>3, SemAssumption DEF SemInv, Types

\* A step of the running thread that leaves the table alone.
LEMMA OwnStep ==
    ASSUME SemInv, NEW c \in Task, k.current = c, k' = k,
           NEW l \in PC, pc' = [pc EXCEPT ![c] = l],
           \A p \in Task \ {c} : reg'[p] = reg[p]
    PROVE  /\ Runs(k') /\ k'.used = Task /\ SleepersInv' /\ pc' \in [Task -> PC]
           /\ pc'[c] = l /\ \A t \in Task \ {c} : pc'[t] = pc[t]
           /\ c \notin Blocked /\ Blocked' = Blocked
           /\ Scanning' = IF l = "scan" THEN Scanning \cup {c} ELSE Scanning \ {c}
           /\ Pending' = IF l \in {"waiting", "timedwait", "timedgot", "abort"}
                         THEN Pending \cup {c} ELSE Pending \ {c}
  <1>1. Types /\ SleepersInv
    BY DEF SemInv
  <1>2. pc'[c] = l /\ pc' \in [Task -> PC] /\ \A t \in Task \ {c} : pc'[t] = pc[t]
    BY <1>1 DEF Types
  <1>3. Runs(k') /\ k'.used = Task /\ SleepersInv'
    BY <1>1, <1>2, RunningKeepsSleepers
  <1>4. c \notin Blocked /\ Blocked' = Blocked
    BY <1>1, RunningThread DEF Blocked, BlockedOn
  <1>5. Scanning' = IF l = "scan" THEN Scanning \cup {c} ELSE Scanning \ {c}
    BY <1>2 DEF Scanning
  <1>6. Pending' = IF l \in {"waiting", "timedwait", "timedgot", "abort"}
                   THEN Pending \cup {c} ELSE Pending \ {c}
    BY <1>2 DEF Pending
  <1>7. QED
    BY <1>2, <1>3, <1>4, <1>5, <1>6

\* A post stores its unit: the value and the posts to look for a waiter grow.
LEMMA PostStoreStep ==
    ASSUME SemInv, NEW c \in Task, PostStore(c)
    PROVE  SemInv'
  <1>1. Types /\ pc \in [Task -> PC] /\ reg \in [Task -> Int]
    BY DEF SemInv, Types
  <1>2. /\ k.current = c /\ pc[c] = "post" /\ pc' = [pc EXCEPT ![c] = "scan"]
        /\ reg' = [reg EXCEPT ![c] = 0] /\ posts' = posts + 1
        /\ value' = reg[c] + 1 /\ k' = k /\ acquired' = acquired
        /\ spoilt' = IF value # reg[c] THEN spoilt \cup {"torn"} ELSE spoilt
    BY DEF PostStore, At, Load, Goto, Spoil
  <1>3. "scan" \in PC /\ \A p \in Task \ {c} : reg'[p] = reg[p]
    BY <1>1, <1>2 DEF PC
  <1>4. /\ Runs(k') /\ k'.used = Task /\ SleepersInv' /\ pc' \in [Task -> PC]
        /\ pc'[c] = "scan" /\ \A t \in Task \ {c} : pc'[t] = pc[t]
        /\ Blocked' = Blocked /\ Scanning' = Scanning \cup {c} /\ Pending' = Pending \ {c}
    BY ZenonT(60), <1>2, <1>3, OwnStep
  <1>5. c \notin Scanning /\ c \notin Pending
    BY <1>2 DEF Scanning, Pending
  <1>6. Types'
    BY <1>1, <1>2, <1>3, <1>4 DEF Types
  <1>7. /\ Targets' = Targets /\ TimedOut' = TimedOut /\ Expired' = Expired
    BY <1>2, <1>3, <1>4 DEF Targets, Waking, TimedOut, Expired
  <1>8. /\ Asleep' = Asleep /\ Leaving' = Leaving /\ Unserved' = Unserved /\ Pending' = Pending
    BY <1>4, <1>5, <1>7 DEF Asleep, Leaving, Unserved
  <1>9. Cardinality(Scanning') = Cardinality(Scanning) + 1
    BY <1>1, <1>4, <1>5, SetsOfTasks, CountOneMore DEF Types
  <1>10. CASE value = reg[c]
    <2>1. value' = value + 1 /\ spoilt' = spoilt
      BY <1>2, <1>10
    <2>2. Conserved'
      BY <2>1, <1>2, <1>8, Numbers DEF SemInv, Conserved
    <2>3. TargetsInv'
      BY <2>1, <1>2, <1>3, <1>4, <1>7 DEF SemInv, TargetsInv, Unspoilt
    <2>4. OwedInv'
      BY <2>1, <1>8, <1>9, Numbers DEF SemInv, OwedInv, Unspoilt
    <2>5. ServedInv'
      BY <2>1, <1>8, <1>9, Numbers DEF SemInv, ServedInv, Owed
    <2>6. QED
      BY <1>4, <1>6, <2>2, <2>3, <2>4, <2>5 DEF SemInv
  <1>11. CASE value # reg[c]
    BY <1>2, <1>4, <1>6, <1>11 DEF SemInv, Conserved, TargetsInv, OwedInv, ServedInv, Unspoilt
  <1>12. QED
    BY <1>10, <1>11

\* A post that finds nobody has nobody to serve; one that finds a thread leaves
\* one less for the others.
LEMMA PostScanStep ==
    ASSUME SemInv, NEW c \in Task, PostScan(c)
    PROVE  SemInv'
  <1>1. Types /\ pc \in [Task -> PC] /\ reg \in [Task -> Int] /\ k \in Kernel /\ k.used = Task
    BY DEF SemInv, Types, Runs
  <1>2. k.current = c /\ pc[c] = "scan" /\ UNCHANGED <<k, value, posts, acquired>>
    BY DEF PostScan, At
  <1>3. \/ NewThread = -1 /\ Blocked = {}
        \/ NewThread \in Blocked
    BY <1>1, HighestPriorityBlockedTask DEF NewThread, Blocked
  <1>4. Blocked \in SUBSET Task /\ -1 \notin Task
    BY <1>1, SetsOfTasks DEF Task
  <1>5. c \in Scanning /\ c \notin Pending
    BY <1>2 DEF Scanning, Pending
  <1>6. Cardinality(Scanning \ {c}) = Cardinality(Scanning) - 1
    BY <1>1, <1>5, SetsOfTasks, CountOneLess
  <1>7. CASE NewThread = -1
    <2>1. Blocked = {} /\ pc' = [pc EXCEPT ![c] = "run"] /\ reg' = reg /\ spoilt' = spoilt
      BY <1>3, <1>4, <1>7 DEF PostScan, Goto, Spoil
    <2>2. /\ Runs(k') /\ k'.used = Task /\ SleepersInv' /\ pc' \in [Task -> PC]
          /\ pc'[c] = "run" /\ \A t \in Task \ {c} : pc'[t] = pc[t]
          /\ Blocked' = Blocked /\ Scanning' = Scanning \ {c} /\ Pending' = Pending \ {c}
      BY <1>2, <2>1, OwnStep DEF PC
    <2>3. Types'
      BY <1>1, <1>2, <2>1, <2>2 DEF Types
    <2>4. Targets' = Targets /\ TimedOut' = TimedOut /\ Expired' = Expired
      BY <1>2, <2>1, <2>2 DEF Targets, Waking, TimedOut, Expired
    <2>5. Asleep' = {} /\ Leaving' = Leaving /\ Unserved' = Unserved /\ Pending' = Pending
      BY <1>5, <2>1, <2>2, <2>4 DEF Asleep, Leaving, Unserved
    <2>6. Cardinality(Asleep') = 0 /\ Cardinality(Scanning') = Cardinality(Scanning) - 1
      BY <1>6, <2>2, <2>5, FS_EmptySet
    <2>7. Conserved'
      BY <1>2, <2>1, <2>5 DEF SemInv, Conserved
    <2>8. TargetsInv'
      BY <1>2, <2>1, <2>2, <2>4 DEF SemInv, TargetsInv, Unspoilt
    <2>9. OwedInv'
      BY <1>2, <2>1, <2>5, <2>6, Numbers DEF SemInv, OwedInv, Unspoilt
    <2>10. c \in Scanning /\ Scanning \in SUBSET Task
      BY <1>1, <1>5, SetsOfTasks
    <2>11. Scanning' \in SUBSET Task
      BY <2>2, <2>10
    <2>12. ServedInv'
      <3>1. Owed' \in Nat /\ Cardinality(Scanning') \in Nat
        BY <1>2, <2>11, CountType, Numbers DEF Owed
      <3>2. QED
        BY <2>6, <3>1 DEF ServedInv
    <2>13. QED
      BY <2>2, <2>3, <2>7, <2>8, <2>9, <2>12 DEF SemInv
  <1>8. CASE NewThread # -1
    <2> DEFINE n == NewThread
    <2>1. /\ n \in Blocked /\ n \in Task
          /\ pc' = [pc EXCEPT ![c] = "wake"] /\ reg' = [reg EXCEPT ![c] = n]
          /\ spoilt' = IF Waking(n) THEN spoilt \cup {"twice"} ELSE spoilt
      BY <1>3, <1>4, <1>8 DEF PostScan, Goto, Load, Spoil
    <2> HIDE DEF n
    <2>2. \A p \in Task \ {c} : reg'[p] = reg[p]
      BY <1>1, <2>1
    <2>3. /\ Runs(k') /\ k'.used = Task /\ SleepersInv' /\ pc' \in [Task -> PC]
          /\ pc'[c] = "wake" /\ \A t \in Task \ {c} : pc'[t] = pc[t]
          /\ Blocked' = Blocked /\ Scanning' = Scanning \ {c} /\ Pending' = Pending \ {c}
      BY <1>2, <2>1, <2>2, OwnStep DEF PC
    <2>4. reg'[c] = n /\ n \in Int
      BY <1>1, <2>1 DEF Task
    <2>5. Types'
      BY <1>1, <1>2, <2>1, <2>2, <2>3, <2>4 DEF Types
    <2>6. Pending' = Pending
      BY <1>5, <2>3
    <2>7. Conserved'
      BY <1>2, <2>1, <2>6 DEF SemInv, Conserved
    <2>8. CASE Waking(n)
      BY <2>1, <2>3, <2>5, <2>7, <2>8 DEF SemInv, TargetsInv, OwedInv, ServedInv, Unspoilt
    <2>9. CASE ~Waking(n)
      <3>1. spoilt' = spoilt /\ n \notin Targets
        BY <2>1, <2>9 DEF Targets
      <3>2. /\ Targets' = Targets \cup {n} /\ TimedOut' = TimedOut /\ Expired' = Expired
        BY <1>2, <2>1, <2>2, <2>3, <2>4 DEF Targets, Waking, TimedOut, Expired
      <3>3. n \notin Expired
        <4>1. n \notin k.active /\ pc[n] # "abort"
          BY <1>1, <2>1 DEF SemInv, SleepersInv, Blocked, BlockedOn
        <4>2. QED
          BY <4>1 DEF Expired, TimedOut
      <3>4. /\ Asleep' = Asleep \ {n} /\ n \in Asleep
            /\ Unserved' = Unserved \ {n} /\ n \in Unserved
            /\ Leaving' = Leaving
        BY <2>1, <2>3, <3>1, <3>2, <3>3 DEF Asleep, Unserved, Leaving
      <3>5. Asleep \in SUBSET Task /\ Unserved \in SUBSET Task
        BY <1>1, SetsOfTasks
      <3>6. /\ Cardinality(Asleep') = Cardinality(Asleep) - 1
            /\ Cardinality(Unserved') = Cardinality(Unserved) - 1
            /\ Cardinality(Scanning') = Cardinality(Scanning) - 1
        BY <1>6, <2>3, <3>4, <3>5, CountOneLess
      <3>7. TargetsInv'
        <4>1. \A p \in Task : pc[p] = "wake" => reg[p] # n
          BY <2>9 DEF Waking
        <4>2. QED
          BY <4>1, <2>1, <2>2, <2>3, <2>4, <3>1, <3>2 DEF SemInv, TargetsInv, Unspoilt
      <3>8. OwedInv'
        BY <1>2, <3>1, <3>4, <3>6, Numbers DEF SemInv, OwedInv, Unspoilt
      <3>9. ServedInv'
        BY <1>2, <3>1, <3>6, Numbers DEF SemInv, ServedInv, Owed
      <3>10. QED
        BY <2>3, <2>5, <2>7, <3>7, <3>8, <3>9 DEF SemInv
    <2>10. QED
      BY <2>8, <2>9
  <1>9. QED
    BY <1>7, <1>8

\* The thread a post wakes leaves the wait it has been found in.
LEMMA PostWakeStep ==
    ASSUME SemInv, NEW c \in Task, PostWake(c)
    PROVE  SemInv'
  <1> DEFINE n == reg[c]
  <1>1. /\ Types /\ SleepersInv /\ Runs(k) /\ k.used = Task /\ k \in Kernel
        /\ pc \in [Task -> PC] /\ reg \in [Task -> Int]
    BY DEF SemInv, Types, Runs
  <1>2. /\ k.current = c /\ pc[c] = "wake" /\ pc' = [pc EXCEPT ![c] = "run"]
        /\ reg' = [reg EXCEPT ![c] = 0] /\ UNCHANGED <<value, posts, acquired, spoilt>>
        /\ k' \in Return(UpdateOnWake(AssertActive(k, {n}, "SEMAPHORE"), k.prio[n]))
    BY DEF PostWake, At, Goto, Load
  <1>3. n \in Task /\ k.prio[n] \in NoPriority .. HighestPriority
    BY <1>1, <1>2, TableAssumption DEF Types, Kernel, Priority, NoPriority
  <1> HIDE DEF n
  <1>4. /\ Runs(k') /\ k'.used = k.used /\ k'.active = k.active \cup {n}
        /\ k'.timed = k.timed \ {n}
        /\ \A t \in Task : k'.block[t] = IF t \in {n} THEN NULL ELSE k.block[t]
        /\ \A t \in Task : k'.unblock[t] = IF t \in {n} THEN "SEMAPHORE" ELSE k.unblock[t]
    BY <1>1, <1>2, <1>3, WakeRuns DEF UnblockType
  <1>5. c \in k.active
    BY <1>1, <1>2, RunningThread
  <1>6. /\ pc'[c] = "run" /\ pc' \in [Task -> PC]
        /\ \A t \in Task \ {c} : pc'[t] = pc[t] /\ reg'[t] = reg[t]
    BY <1>1, <1>2 DEF PC
  <1>7. Types' /\ SleepersInv'
    <2>1. \A t \in Task \ k'.active : pc'[t] = pc[t]
      BY <1>4, <1>5, <1>6
    <2>2. {n} \in SUBSET Task
      BY <1>3
    <2>3. Runs(k') /\ k'.used = Task /\ SleepersInv'
      BY <1>1, <1>4, <2>1, <2>2, WakingKeepsSleepers
    <2>4. QED
      BY <1>1, <1>2, <1>6, <2>3 DEF Types
  <1>8. Pending' = Pending /\ Scanning' = Scanning
    BY <1>2, <1>6 DEF Pending, Scanning
  <1>9. Conserved'
    BY <1>2, <1>8 DEF SemInv, Conserved
  <1>10. CASE Unspoilt
    <2>1. /\ n \in Blocked \cup TimedOut
          /\ \A p \in Task \ {c} : pc[p] = "wake" => reg[p] # n
      BY <1>2, <1>10 DEF SemInv, TargetsInv, n
    <2>2. Targets' = Targets \ {n} /\ n \in Targets
      <3>1. \A t \in Task : Waking(t)' <=> Waking(t) /\ t # n
        BY <1>2, <1>6, <2>1 DEF Waking, n
      <3>2. Waking(n)
        BY <1>2 DEF Waking, n
      <3>3. QED
        BY <1>3, <3>1, <3>2 DEF Targets
    <2>3. pc[n] \in {"waiting", "timedwait"} /\ n # c
      <3>1. Blocked = {t \in Task : t \notin k.active /\ pc[t] \in {"waiting", "timedwait"}}
        BY <1>1, BlockedThreads DEF SleepersInv, Blocked
      <3>2. QED
        BY <1>2, <2>1, <3>1 DEF TimedOut
    <2>4. Blocked' = Blocked \ {n}
      BY <1>1, <1>3, <1>4, SemObject DEF Blocked, BlockedOn
    <2>5. TimedOut' = TimedOut \ {n}
      BY <1>2, <1>3, <1>4, <1>6 DEF TimedOut
    <2>6. Expired' = Expired \ {n}
      BY <1>2, <1>6, <2>3, <2>5 DEF Expired
    <2>7. Asleep' = Asleep /\ Leaving' = Leaving /\ Unserved' = Unserved
      BY <2>2, <2>4, <2>6 DEF Asleep, Leaving, Unserved
    <2>8. TargetsInv'
      BY <1>2, <1>6, <2>1, <2>4, <2>5 DEF SemInv, TargetsInv, Unspoilt
    <2>9. OwedInv' /\ ServedInv'
      BY <1>2, <1>8, <2>7 DEF SemInv, OwedInv, ServedInv, Owed, Unspoilt
    <2>10. QED
      BY <1>7, <1>9, <2>8, <2>9 DEF SemInv
  <1>11. CASE ~Unspoilt
    BY <1>2, <1>7, <1>9, <1>11 DEF SemInv, TargetsInv, OwedInv, ServedInv, Unspoilt
  <1>12. QED
    BY <1>10, <1>11

-----------------------------------------------------------------------------
\* A call that takes a unit at once: none is owed, neither before nor after.
LEMMA TakingUnit ==
    ASSUME SemInv, Types', SleepersInv', NEW c \in Task,
           value > 0, value' = value - 1, UNCHANGED <<posts, spoilt>>,
           \/ Pending' = Pending /\ acquired' = acquired + 1
           \/ Pending' = Pending \cup {c} /\ c \notin Pending /\ acquired' = acquired,
           Blocked' = Blocked, TimedOut' = TimedOut, Targets' = Targets,
           Scanning' = Scanning,
           \A p \in Task : /\ pc'[p] = "wake" <=> pc[p] = "wake"
                           /\ pc[p] = "wake" => reg'[p] = reg[p]
    PROVE  SemInv'
  <1>1. k.used = Task /\ k'.used = Task
    BY DEF SemInv, Types
  <1>2. Asleep' = Asleep
    BY DEF Asleep
  <1>3. Leaving' \in SUBSET Task
    BY DEF Leaving, Expired, TimedOut
  <1>4. Cardinality(Leaving') \in Nat
    BY <1>3, CountType
  <1>5. Cardinality(Pending') + acquired' = Cardinality(Pending) + acquired + 1
    BY <1>1, SetsOfTasks, CountOneMore, Numbers
  <1>6. Cardinality(Pending') \in Nat /\ acquired' \in Nat
    <2>1. Pending' \in SUBSET Task
      BY DEF Pending
    <2>2. QED
      BY <2>1, CountType DEF Types
  <1>7. Conserved'
    BY <1>5, <1>6, Numbers DEF SemInv, Conserved
  <1>8. TargetsInv'
    BY DEF SemInv, TargetsInv, Unspoilt
  <1>9. OwedInv'
    BY <1>4, Numbers DEF OwedInv
  <1>10. ServedInv'
    BY <1>2, Numbers DEF SemInv, ServedInv, Owed
  <1>11. QED
    BY <1>7, <1>8, <1>9, <1>10 DEF SemInv

\* A call that finds no unit goes to sleep, which leaves one more to be served;
\* a post that is yet to look for a waiter spoils it.
LEMMA OwingUnit ==
    ASSUME SemInv, Types', SleepersInv', NEW c \in Task,
           ~(value > 0), value' = value - 1, UNCHANGED <<posts, acquired>>,
           k.current = c, pc[c] = "run", pc'[c] \in {"waiting", "timedwait"},
           spoilt' = IF Unannounced THEN spoilt \cup {"extra"} ELSE spoilt,
           c \notin k'.active,
           \A t \in Task \ {c} :
              /\ pc'[t] = pc[t]
              /\ t \in k'.active <=> t \in k.active
              /\ k'.unblock[t] = k.unblock[t],
           reg' = reg
    PROVE  SemInv'
  <1>1. /\ k.used = Task /\ k'.used = Task /\ Types /\ SleepersInv
        /\ \A p \in Task : pc'[p] = "wake" <=> pc[p] = "wake"
    BY DEF SemInv, Types
  <1>2. Pending' = Pending \cup {c} /\ c \notin Pending
    BY DEF Pending
  <1>3. Cardinality(Pending') = Cardinality(Pending) + 1
    BY <1>1, <1>2, SetsOfTasks, CountOneMore
  <1>4. Conserved'
    BY <1>3, Numbers DEF SemInv, Conserved
  <1>5. c \in k.active
    BY <1>1, RunningThread
  <1>6. Blocked' = Blocked \cup {c} /\ c \notin Blocked
    <2>1. Blocked = {t \in Task : t \notin k.active /\ pc[t] \in {"waiting", "timedwait"}}
      BY <1>1, BlockedThreads DEF SleepersInv, Blocked
    <2>2. Blocked' = {t \in Task : t \notin k'.active /\ pc'[t] \in {"waiting", "timedwait"}}
      BY <1>1, BlockedThreads DEF SleepersInv, Blocked
    <2>3. QED
      BY <1>5, <2>1, <2>2
  <1>7. TimedOut' = TimedOut /\ Expired' = Expired /\ c \notin Expired
    BY DEF TimedOut, Expired
  <1>8. Targets' = Targets /\ Scanning' = Scanning
    BY <1>1 DEF Targets, Waking, Scanning
  <1>9. CASE Unannounced \/ ~Unspoilt
    BY <1>4, <1>9 DEF SemInv, TargetsInv, OwedInv, ServedInv, Unspoilt
  <1>10. CASE ~Unannounced /\ Unspoilt
    <2>1. spoilt' = spoilt /\ Scanning = {}
      BY <1>10 DEF Unannounced, Scanning
    <2>2. Cardinality(Scanning) = 0
      BY <2>1, FS_EmptySet
    <2>3. c \notin Targets
      <3>1. \A t \in Targets : t \in Blocked \cup TimedOut
        BY <1>10 DEF SemInv, TargetsInv, Targets, Waking
      <3>2. QED
        BY <1>6, <1>7, <3>1 DEF Expired
    <2>4. /\ Asleep' = Asleep \cup {c} /\ c \notin Asleep
          /\ Unserved' = Unserved \cup {c} /\ c \notin Unserved
          /\ Leaving' = Leaving
      BY <1>6, <1>7, <1>8, <2>3 DEF Asleep, Unserved, Leaving
    <2>5. /\ Cardinality(Asleep') = Cardinality(Asleep) + 1
          /\ Cardinality(Unserved') = Cardinality(Unserved) + 1
      BY <1>1, <2>4, SetsOfTasks, CountOneMore
    <2>6. TargetsInv'
      BY <1>1, <1>6, <1>7, <2>1 DEF SemInv, TargetsInv, Unspoilt
    <2>7. OwedInv'
      <3>1. -value <= Cardinality(Unserved)
        BY <1>10, <2>2, Numbers DEF SemInv, OwedInv
      <3>2. QED
        BY <1>8, <2>2, <2>5, <3>1, Numbers DEF OwedInv
    <2>8. ServedInv'
      BY <1>8, <2>1, <2>2, <2>5, Numbers DEF SemInv, ServedInv, Owed
    <2>9. QED
      BY <1>4, <2>6, <2>7, <2>8 DEF SemInv
  <1>11. QED
    BY <1>9, <1>10

LEMMA WaitStep ==
    ASSUME SemInv, NEW c \in Task, Wait(c)
    PROVE  SemInv'
  <1> DEFINE K == [k EXCEPT !.block[c] = SemObj]
  <1>1. /\ Types /\ SleepersInv /\ Runs(k) /\ k.used = Task /\ k \in Kernel
        /\ pc \in [Task -> PC] /\ k.block \in [Task -> Object]
    BY DEF SemInv, Types, Runs, Kernel
  <1>2. /\ k.current = c /\ pc[c] = "run" /\ value' = value - 1
        /\ UNCHANGED <<reg, posts>>
        /\ spoilt' = IF ~Available /\ Unannounced THEN spoilt \cup {"extra"} ELSE spoilt
    BY DEF Wait, At, Spoil
  <1>3. /\ Runs(K) /\ K.used = Task /\ K.active = k.active /\ K.timed = k.timed
        /\ K.block = [k.block EXCEPT ![c] = SemObj] /\ K.unblock = k.unblock
        /\ K.current = c
    BY <1>1, <1>2, BlockObjectRuns, SemObject
  <1>4. c \in k.active
    BY <1>1, <1>2, RunningThread
  <1>5. CASE Available
    <2>1. k' = K /\ acquired' = acquired + 1 /\ pc' = pc /\ spoilt' = spoilt
      BY <1>2, <1>5 DEF Wait
    <2> HIDE DEF K
    <2>2. \A t \in Task \ {c} : k'.block[t] = k.block[t]
      BY <1>1, <1>3, <2>1
    <2>3. Types' /\ SleepersInv'
      BY <1>1, <1>2, <1>3, <1>4, <2>1, <2>2 DEF Types, SleepersInv
    <2>4. Blocked' = Blocked
      BY <1>1, <1>3, <1>4, <2>1, <2>2 DEF Blocked, BlockedOn
    <2>5. /\ TimedOut' = TimedOut /\ Targets' = Targets /\ Scanning' = Scanning
          /\ Pending' = Pending
      BY <1>2, <1>3, <2>1 DEF TimedOut, Targets, Waking, Scanning, Pending
    <2>6. QED
      BY <1>2, <1>5, <2>1, <2>3, <2>4, <2>5, TakingUnit DEF Available
  <1>6. CASE ~Available
    <2>1. /\ k' \in Return(UpdateOnSleep(K)) /\ pc' = [pc EXCEPT ![c] = "waiting"]
          /\ acquired' = acquired
      BY <1>6 DEF Wait, Goto
    <2> HIDE DEF K
    <2>2. /\ Runs(k') /\ k'.used = Task /\ k'.active = k.active \ {c}
          /\ k'.timed = k.timed /\ k'.block = [k.block EXCEPT ![c] = SemObj]
          /\ k'.unblock = k.unblock
      BY <1>3, <2>1, SleepRuns
    <2>3. /\ pc'[c] = "waiting" /\ pc' \in [Task -> PC] /\ k'.block[c] = SemObj
          /\ \A t \in Task \ {c} : k'.block[t] = k.block[t] /\ pc'[t] = pc[t]
      BY <1>1, <2>1, <2>2 DEF PC
    <2>4. c \notin k'.timed /\ k'.timed \subseteq k.timed \cup {c} /\ k'.used = k.used
      BY <1>1, <1>4, <2>2 DEF SleepersInv
    <2>5. Runs(k') /\ k'.used = Task /\ SleepersInv'
      BY <1>1, <1>2, <2>2, <2>3, <2>4, SleepingKeepsSleepers
    <2>6. Types'
      BY <1>1, <1>2, <2>1, <2>3, <2>5 DEF Types
    <2>7. QED
      BY <1>2, <1>6, <2>1, <2>2, <2>3, <2>5, <2>6, OwingUnit DEF Available
  <1>7. QED
    BY <1>5, <1>6

LEMMA TryWaitStep ==
    ASSUME SemInv, NEW c \in Task, TryWait(c)
    PROVE  SemInv'
  <1>1. UNCHANGED <<k, pc, reg, posts, spoilt>>
    BY DEF TryWait
  <1>2. value > 0 /\ value' = value - 1 /\ acquired' = acquired + 1
    BY DEF TryWait, Available
  <1>3. Types' /\ SleepersInv'
    BY <1>1, <1>2 DEF SemInv, Types, SleepersInv
  <1>4. /\ Pending' = Pending /\ Blocked' = Blocked /\ TimedOut' = TimedOut
        /\ Targets' = Targets /\ Scanning' = Scanning
    BY <1>1 DEF Pending, Blocked, TimedOut, Targets, Waking, Scanning
  <1>5. QED
    BY <1>1, <1>2, <1>3, <1>4, TakingUnit

LEMMA TimedWaitStep ==
    ASSUME SemInv, NEW c \in Task, TimedWait(c)
    PROVE  SemInv'
  <1>1. /\ Types /\ SleepersInv /\ Runs(k) /\ k.used = Task /\ k \in Kernel
        /\ pc \in [Task -> PC] /\ k.block \in [Task -> Object]
    BY DEF SemInv, Types, Runs, Kernel
  <1>2. /\ k.current = c /\ pc[c] = "run" /\ value' = value - 1
        /\ UNCHANGED <<reg, posts, acquired>>
        /\ spoilt' = IF ~Available /\ Unannounced THEN spoilt \cup {"extra"} ELSE spoilt
    BY DEF TimedWait, At, Spoil
  <1>3. c \in k.active
    BY <1>1, <1>2, RunningThread
  <1>4. CASE Available
    <2>1. k' = k /\ pc' = [pc EXCEPT ![c] = "timedgot"] /\ spoilt' = spoilt
      BY <1>2, <1>4 DEF TimedWait, Goto
    <2>2. /\ Runs(k') /\ k'.used = Task /\ SleepersInv' /\ pc' \in [Task -> PC]
          /\ pc'[c] = "timedgot" /\ \A t \in Task \ {c} : pc'[t] = pc[t]
          /\ Blocked' = Blocked /\ Scanning' = Scanning \ {c} /\ Pending' = Pending \cup {c}
      BY <1>2, <2>1, OwnStep DEF PC
    <2>3. Types'
      BY <1>1, <1>2, <2>1, <2>2 DEF Types
    <2>4. /\ TimedOut' = TimedOut /\ Targets' = Targets /\ Scanning' = Scanning
          /\ c \notin Pending
      BY <1>2, <2>1, <2>2 DEF TimedOut, Targets, Waking, Scanning, Pending
    <2>5. \A p \in Task : /\ pc'[p] = "wake" <=> pc[p] = "wake"
                          /\ pc[p] = "wake" => reg'[p] = reg[p]
      BY <1>2, <2>2
    <2>6. QED
      BY <1>2, <1>4, <2>1, <2>2, <2>3, <2>4, <2>5, TakingUnit DEF Available
  <1>5. CASE ~Available
    <2>1. PICK kind \in TimeoutKinds : k' \in Return(TimedBlock(k, SemObj, kind))
      BY <1>5 DEF TimedWait
    <2>2. pc' = [pc EXCEPT ![c] = "timedwait"]
      BY <1>5 DEF TimedWait, Goto
    <2>3. /\ Runs(k') /\ k'.used = k.used /\ k'.active = k.active \ {c}
          /\ k'.timed \subseteq k.timed \cup {c}
          /\ k'.block = [k.block EXCEPT ![c] = SemObj] /\ k'.unblock = k.unblock
      BY <1>1, <1>2, <2>1, BlockRuns, SemObject
    <2>4. /\ pc'[c] = "timedwait" /\ pc' \in [Task -> PC] /\ k'.block[c] = SemObj
          /\ \A t \in Task \ {c} : k'.block[t] = k.block[t] /\ pc'[t] = pc[t]
      BY <1>1, <2>2, <2>3 DEF PC
    <2>5. Runs(k') /\ k'.used = Task /\ SleepersInv'
      BY <1>1, <1>2, <2>3, <2>4, SleepingKeepsSleepers
    <2>6. Types'
      BY <1>1, <1>2, <2>4, <2>5 DEF Types
    <2>7. QED
      BY <1>2, <1>5, <2>3, <2>4, <2>5, <2>6, OwingUnit DEF Available
  <1>6. QED
    BY <1>4, <1>5

-----------------------------------------------------------------------------
\* Calls that return.
LEMMA WaitReturnStep ==
    ASSUME SemInv, NEW c \in Task, WaitReturn(c)
    PROVE  SemInv'
  <1>1. /\ Types /\ k.used = Task /\ pc \in [Task -> PC]
    BY DEF SemInv, Types
  <1>2. /\ k.current = c /\ pc[c] = "waiting" /\ pc' = [pc EXCEPT ![c] = "run"]
        /\ acquired' = acquired + 1 /\ UNCHANGED <<k, reg, value, posts, spoilt>>
    BY DEF WaitReturn, At, Goto
  <1>3. /\ Runs(k') /\ k'.used = Task /\ SleepersInv' /\ pc' \in [Task -> PC]
        /\ pc'[c] = "run" /\ \A t \in Task \ {c} : pc'[t] = pc[t]
        /\ Blocked' = Blocked /\ Scanning' = Scanning \ {c} /\ Pending' = Pending \ {c}
    BY <1>2, OwnStep DEF PC
  <1>4. Types'
    BY <1>1, <1>2, <1>3 DEF Types
  <1>5. /\ TimedOut' = TimedOut /\ Expired' = Expired /\ Targets' = Targets
        /\ Scanning' = Scanning /\ c \in Pending
    BY <1>2, <1>3 DEF TimedOut, Expired, Targets, Waking, Scanning, Pending
  <1>6. Asleep' = Asleep /\ Leaving' = Leaving /\ Unserved' = Unserved
    BY <1>3, <1>5 DEF Asleep, Leaving, Unserved
  <1>7. Cardinality(Pending') = Cardinality(Pending) - 1
    BY <1>1, <1>3, <1>5, SetsOfTasks, CountOneLess
  <1>8. Conserved'
    BY <1>2, <1>7, Numbers DEF SemInv, Conserved
  <1>9. TargetsInv'
    BY <1>2, <1>3, <1>5 DEF SemInv, TargetsInv, Unspoilt
  <1>10. OwedInv' /\ ServedInv'
    BY <1>2, <1>5, <1>6 DEF SemInv, OwedInv, ServedInv, Owed, Unspoilt
  <1>11. QED
    BY <1>3, <1>4, <1>8, <1>9, <1>10 DEF SemInv

\* A timed wait that gives up is late when a post has found its thread.
LEMMA TimedReturnStep ==
    ASSUME SemInv, NEW c \in Task, TimedReturn(c)
    PROVE  SemInv'
  <1>1. /\ Types /\ k.used = Task /\ pc \in [Task -> PC] /\ reg \in [Task -> Int]
    BY DEF SemInv, Types
  <1>2. /\ k.current = c /\ pc[c] \in {"timedwait", "timedgot"}
        /\ UNCHANGED <<k, value, posts>>
        /\ spoilt' = IF Waking(c) THEN spoilt \cup {"late"} ELSE spoilt
    BY DEF TimedReturn, At, Spoil
  <1>3. c \in Pending /\ c \in k.active
    BY <1>1, <1>2, RunningThread DEF Pending
  <1>4. CASE k.unblock[c] = "SLEEP"
    <2>1. /\ pc' = [pc EXCEPT ![c] = "abort"] /\ reg' = [reg EXCEPT ![c] = value]
          /\ acquired' = acquired
      BY <1>4 DEF TimedReturn, Load, Goto
    <2>2. \A p \in Task \ {c} : reg'[p] = reg[p]
      BY <1>1, <2>1
    <2>3. /\ Runs(k') /\ k'.used = Task /\ SleepersInv' /\ pc' \in [Task -> PC]
          /\ pc'[c] = "abort" /\ \A t \in Task \ {c} : pc'[t] = pc[t]
          /\ c \notin Blocked /\ Blocked' = Blocked
          /\ Scanning' = Scanning \ {c} /\ Pending' = Pending \cup {c}
      BY <1>2, <2>1, <2>2, OwnStep DEF PC
    <2>4. Types'
      BY <1>1, <1>2, <2>1, <2>2, <2>3 DEF Types
    <2>5. Pending' = Pending /\ Scanning' = Scanning
      BY <1>2, <1>3, <2>3 DEF Scanning
    <2>6. Conserved'
      BY <1>2, <2>1, <2>5 DEF SemInv, Conserved
    <2>7. CASE Waking(c)
      BY <1>2, <2>3, <2>4, <2>6, <2>7 DEF SemInv, TargetsInv, OwedInv, ServedInv, Unspoilt
    <2>8. CASE ~Waking(c)
      <3>1. spoilt' = spoilt
        BY <1>2, <2>8
      <3>2. Targets' = Targets /\ c \notin Targets
        BY <1>2, <2>2, <2>3, <2>8 DEF Targets, Waking
      <3>3. TimedOut' = TimedOut \ {c} /\ Expired' = Expired \cup {c}
        BY <1>2, <2>3 DEF TimedOut, Expired
      <3>4. /\ Asleep' = Asleep
            /\ Leaving' = Leaving \cup {c} /\ Unserved' = Unserved \cup {c}
        BY <2>3, <3>2, <3>3 DEF Asleep, Leaving, Unserved
      <3>5. /\ Leaving \cup {c} \in SUBSET Task /\ Unserved \cup {c} \in SUBSET Task
        BY <1>1, SetsOfTasks
      <3>6. /\ Cardinality(Leaving) <= Cardinality(Leaving')
            /\ Cardinality(Unserved) <= Cardinality(Unserved')
            /\ Cardinality(Leaving') \in Nat /\ Cardinality(Unserved') \in Nat
        BY <3>4, <3>5, CountUpTo, CountType
      <3>7. TargetsInv'
        <4>1. \A p \in Task : pc[p] = "wake" => reg[p] # c
          BY <2>8 DEF Waking
        <4>2. QED
          BY <4>1, <1>2, <2>2, <2>3, <3>1, <3>3 DEF SemInv, TargetsInv, Unspoilt
      <3>8. OwedInv'
        BY <1>2, <2>5, <3>1, <3>6, Numbers DEF SemInv, OwedInv, Unspoilt
      <3>9. ServedInv'
        BY <1>2, <2>5, <3>1, <3>4 DEF SemInv, ServedInv, Owed
      <3>10. QED
        BY <2>3, <2>4, <2>6, <3>7, <3>8, <3>9 DEF SemInv
    <2>9. QED
      BY <2>7, <2>8
  <1>5. CASE k.unblock[c] # "SLEEP"
    <2>1. pc' = [pc EXCEPT ![c] = "run"] /\ reg' = reg /\ acquired' = acquired + 1
      BY <1>5 DEF TimedReturn, Goto
    <2>2. /\ Runs(k') /\ k'.used = Task /\ SleepersInv' /\ pc' \in [Task -> PC]
          /\ pc'[c] = "run" /\ \A t \in Task \ {c} : pc'[t] = pc[t]
          /\ Blocked' = Blocked /\ Scanning' = Scanning \ {c} /\ Pending' = Pending \ {c}
      BY <1>2, <2>1, OwnStep DEF PC
    <2>3. Types'
      BY <1>1, <1>2, <2>1, <2>2 DEF Types
    <2>4. /\ TimedOut' = TimedOut /\ Expired' = Expired /\ Targets' = Targets
          /\ Scanning' = Scanning
      BY <1>2, <1>5, <2>1, <2>2 DEF TimedOut, Expired, Targets, Waking, Scanning
    <2>5. Asleep' = Asleep /\ Leaving' = Leaving /\ Unserved' = Unserved
      BY <2>2, <2>4 DEF Asleep, Leaving, Unserved
    <2>6. Cardinality(Pending') = Cardinality(Pending) - 1
      BY <1>1, <1>3, <2>2, SetsOfTasks, CountOneLess
    <2>7. Conserved'
      BY <1>2, <2>1, <2>6, Numbers DEF SemInv, Conserved
    <2>8. TargetsInv'
      BY <1>2, <2>1, <2>2, <2>4 DEF SemInv, TargetsInv, Unspoilt
    <2>9. OwedInv' /\ ServedInv'
      BY <1>2, <2>4, <2>5 DEF SemInv, OwedInv, ServedInv, Owed, Unspoilt
    <2>10. QED
      BY <2>2, <2>3, <2>7, <2>8, <2>9 DEF SemInv
  <1>6. QED
    BY <1>4, <1>5

\* A timed wait gives its unit back: one less is owed, and one less gives up.
LEMMA TimedAbortStep ==
    ASSUME SemInv, NEW c \in Task, TimedAbort(c)
    PROVE  SemInv'
  <1>1. /\ Types /\ k.used = Task /\ pc \in [Task -> PC] /\ reg \in [Task -> Int]
    BY DEF SemInv, Types
  <1>2. /\ k.current = c /\ pc[c] = "abort" /\ pc' = [pc EXCEPT ![c] = "run"]
        /\ reg' = [reg EXCEPT ![c] = 0] /\ value' = reg[c] + 1
        /\ UNCHANGED <<k, posts, acquired>>
        /\ spoilt' = spoilt \cup (IF value # reg[c] THEN {"torn"} ELSE {})
                            \cup (IF Blocked # {} THEN {"back"} ELSE {})
    BY DEF TimedAbort, At, Goto, Load, Blocked
  <1>3. \A p \in Task \ {c} : reg'[p] = reg[p]
    BY <1>1, <1>2
  <1>4. /\ Runs(k') /\ k'.used = Task /\ SleepersInv' /\ pc' \in [Task -> PC]
        /\ pc'[c] = "run" /\ \A t \in Task \ {c} : pc'[t] = pc[t]
        /\ c \notin Blocked /\ Blocked' = Blocked
        /\ Scanning' = Scanning \ {c} /\ Pending' = Pending \ {c}
    BY <1>2, <1>3, OwnStep DEF PC
  <1>5. Types'
    BY <1>1, <1>2, <1>3, <1>4 DEF Types
  <1>6. /\ TimedOut' = TimedOut /\ Targets' = Targets /\ Scanning' = Scanning
        /\ Expired' = Expired \ {c} /\ c \in Pending /\ c \in Expired /\ c \notin TimedOut
    BY <1>2, <1>3, <1>4 DEF TimedOut, Expired, Targets, Waking, Scanning, Pending
  <1>7. Cardinality(Pending') = Cardinality(Pending) - 1
    BY <1>1, <1>4, <1>6, SetsOfTasks, CountOneLess
  <1>8. Conserved'
    BY <1>2, <1>7, Numbers DEF SemInv, Conserved
  <1>9. TargetsInv'
    BY <1>2, <1>3, <1>4, <1>6 DEF SemInv, TargetsInv, Unspoilt
  <1>10. CASE Unspoilt'
    <2>1. Unspoilt /\ value' = value + 1
      BY <1>2, <1>10 DEF Unspoilt
    <2>2. c \notin Targets
      <3>1. \A t \in Targets : t \in Blocked \cup TimedOut
        BY <2>1 DEF SemInv, TargetsInv, Targets, Waking
      <3>2. QED
        BY <1>4, <1>6, <3>1
    <2>3. /\ Leaving' = Leaving \ {c} /\ c \in Leaving
          /\ Unserved' = Unserved \ {c} /\ c \in Unserved
      BY <1>4, <1>6, <2>2 DEF Leaving, Unserved
    <2>4. Leaving \in SUBSET Task /\ Unserved \in SUBSET Task
      BY <1>1, SetsOfTasks
    <2>5. /\ Cardinality(Leaving') = Cardinality(Leaving) - 1
          /\ Cardinality(Unserved') = Cardinality(Unserved) - 1
      BY <2>3, <2>4, CountOneLess
    <2>6. OwedInv'
      BY <1>6, <2>1, <2>5, Numbers DEF SemInv, OwedInv
    <2>7. ServedInv'
      <3>1. ASSUME spoilt' = {} PROVE Asleep' = {}
        BY <1>2, <1>4, <3>1 DEF Asleep
      <3>2. ASSUME spoilt' = {} PROVE Cardinality(Asleep') = 0
        BY <3>1, <3>2, FS_EmptySet
      <3>3. Owed' \in Nat /\ Cardinality(Scanning') \in Nat
        BY <1>6, <2>1, Numbers DEF Owed
      <3>4. QED
        BY <3>2, <3>3 DEF ServedInv
    <2>8. QED
      BY <1>4, <1>5, <1>8, <1>9, <2>6, <2>7 DEF SemInv
  <1>11. CASE ~Unspoilt'
    BY <1>4, <1>5, <1>8, <1>9, <1>11 DEF SemInv, OwedInv, ServedInv, Unspoilt
  <1>12. QED
    BY <1>10, <1>11

-----------------------------------------------------------------------------
LEMMA InitSem == Init => SemInv
  <1> SUFFICES ASSUME Init PROVE SemInv
    OBVIOUS
  <1>1. Runs(k)
    BY SemAssumption, StartingTable DEF Init, TopOf
  <1>2. /\ k.used = Task /\ k.active = Task /\ k.timed = {}
        /\ pc = [t \in Task |-> "run"] /\ reg = [t \in Task |-> 0]
        /\ value = InitialValue /\ posts = 0 /\ acquired = 0 /\ spoilt = {}
    BY DEF Init
  <1>3. Types /\ SleepersInv
    BY <1>1, <1>2, SemAssumption DEF Types, SleepersInv, PC
  <1>4. /\ Blocked = {} /\ Targets = {} /\ Scanning = {} /\ Pending = {} /\ TimedOut = {}
        /\ Expired = {}
    BY <1>2 DEF Blocked, BlockedOn, Targets, Waking, Scanning, Pending, TimedOut, Expired
  <1>5. Asleep = {} /\ Leaving = {} /\ Unserved = {}
    BY <1>4 DEF Asleep, Leaving, Unserved
  <1>6. Cardinality({}) = 0
    BY FS_EmptySet
  <1>7. Conserved
    BY <1>2, <1>4, <1>6, SemAssumption DEF Conserved
  <1>8. TargetsInv
    BY <1>2 DEF TargetsInv
  <1>9. OwedInv /\ ServedInv
    BY <1>2, <1>4, <1>5, <1>6, SemAssumption DEF OwedInv, ServedInv, Owed
  <1>10. QED
    BY <1>3, <1>7, <1>8, <1>9 DEF SemInv

LEMMA NextSem == SemInv /\ [Next]_vars => SemInv'
  <1> SUFFICES ASSUME SemInv, [Next]_vars PROVE SemInv'
    OBVIOUS
  <1>1. CASE UNCHANGED vars
    <2>1. UNCHANGED <<k, pc, reg, value, posts, acquired, spoilt>>
      BY <1>1 DEF vars
    <2>2. Quiet
      BY <2>1 DEF SemInv, Quiet, Types, SleepersInv, Pending, Scanning, Targets, Waking,
                  Blocked, Expired, TimedOut
    <2>3. QED
      BY <2>2, QuietStep
  <1>2. CASE SysTick
    BY <1>2, SysTickStep
  <1>3. CASE TimerMatch
    BY <1>3, TimerMatchStep
  <1>4. ASSUME NEW c \in Task, ThreadStep(c) PROVE SemInv'
    <2>1. CASE PostLoad(c)
      BY <2>1, PostLoadStep
    <2>2. CASE PostStore(c)
      BY <2>2, PostStoreStep
    <2>3. CASE PostScan(c)
      BY <2>3, PostScanStep
    <2>4. CASE PostWake(c)
      BY <2>4, PostWakeStep
    <2>5. CASE Wait(c)
      BY <2>5, WaitStep
    <2>6. CASE WaitReturn(c)
      BY <2>6, WaitReturnStep
    <2>7. CASE TryWait(c)
      BY <2>7, TryWaitStep
    <2>8. CASE TimedWait(c)
      BY <2>8, TimedWaitStep
    <2>9. CASE TimedReturn(c)
      BY <2>9, TimedReturnStep
    <2>10. CASE TimedAbort(c)
      BY <2>10, TimedAbortStep
    <2>11. CASE Sleep(c)
      BY <2>11, SleepStep
    <2>12. CASE \E t \in Task : Signal(c, t)
      BY <2>12, SignalStep
    <2>13. QED
      BY <1>4, <2>1, <2>2, <2>3, <2>4, <2>5, <2>6, <2>7, <2>8, <2>9, <2>10, <2>11, <2>12
         DEF ThreadStep
  <1>5. QED
    BY <1>1, <1>2, <1>3, <1>4 DEF Next

\* Every unit that a wait counts down and gives up again is in the value or in a
\* call under way.
LEMMA NoDoubleGrantFollows == SemInv => NoDoubleGrant
  <1> SUFFICES ASSUME SemInv, spoilt \subseteq {"back"}
               PROVE  acquired <= InitialValue + posts
    BY DEF NoDoubleGrant
  <1>1. k.used = Task
    BY DEF SemInv, Types
  <1>2. Expired \in SUBSET Pending /\ Blocked \in SUBSET Pending
    <2>1. Blocked = {t \in Task : t \notin k.active /\ pc[t] \in {"waiting", "timedwait"}}
      BY <1>1, BlockedThreads DEF SemInv, SleepersInv, Blocked
    <2>2. QED
      BY <2>1 DEF Expired, TimedOut, Pending
  <1>3. Leaving \in SUBSET Pending /\ Unserved \in SUBSET Pending
    BY <1>2 DEF Leaving, Unserved
  <1>4. Pending \in SUBSET Task
    BY <1>1, SetsOfTasks
  <1>5. /\ Cardinality(Leaving) <= Cardinality(Pending)
        /\ Cardinality(Unserved) <= Cardinality(Pending)
    BY <1>3, <1>4, CountUpTo
  <1>6. -value <= Cardinality(Pending)
    BY <1>5, Numbers DEF SemInv, OwedInv, Unspoilt
  <1>7. value + acquired + Cardinality(Pending) = InitialValue + posts
    BY DEF SemInv, Conserved
  <1>8. QED
    BY <1>6, <1>7, Numbers

\* The threads asleep are those nobody is about to wake, and the targets of as
\* many posts.
LEMMA NoLostPostFollows == SemInv => NoLostPost
  <1> SUFFICES ASSUME SemInv, spoilt = {}
               PROVE  Cardinality(Blocked) <= Owed + Cardinality(Posting)
    BY DEF NoLostPost, Blocked, Owed
  <1> DEFINE Wakers == {p \in Task : pc[p] = "wake"}
  <1>1. k.used = Task
    BY DEF SemInv, Types
  <1>2. /\ Blocked \in SUBSET Task /\ Targets \in SUBSET Task /\ Scanning \in SUBSET Task
        /\ Asleep \in SUBSET Task /\ Wakers \in SUBSET Task
    BY <1>1, SetsOfTasks
  <1>3. Cardinality(Posting) = Cardinality(Scanning) + Cardinality(Wakers)
    <2>1. Posting = Scanning \cup Wakers /\ Scanning \cap Wakers = {}
      BY DEF Posting, Scanning
    <2> HIDE DEF Wakers
    <2>2. QED
      BY <1>2, <2>1, CountBoth
  <1>4. Cardinality(Targets) <= Cardinality(Wakers)
    <2> DEFINE f == [p \in Wakers |-> reg[p]]
    <2>1. f \in Surjection(Wakers, Targets)
      <3>1. \A p \in Wakers : reg[p] \in Targets
        BY DEF SemInv, Types, Targets, Waking
      <3>2. f \in [Wakers -> Targets]
        BY <3>1
      <3>3. \A t \in Targets : \E p \in Wakers : f[p] = t
        BY DEF Targets, Waking
      <3>4. QED
        BY <3>2, <3>3 DEF Surjection
    <2> HIDE DEF f, Wakers
    <2>2. QED
      BY <1>2, <2>1, CountType, FS_Surjection
  <1>5. Cardinality(Blocked) <= Cardinality(Asleep) + Cardinality(Targets)
    <2>1. Blocked \in SUBSET (Asleep \cup Targets) /\ Asleep \cup Targets \in SUBSET Task
      BY <1>2 DEF Asleep
    <2>2. Asleep \cap Targets = {}
      BY DEF Asleep
    <2>3. QED
      BY <1>2, <2>1, <2>2, CountBoth, CountUpTo
  <1>6. Cardinality(Asleep) <= Owed + Cardinality(Scanning)
    BY DEF SemInv, ServedInv
  <1>7. /\ Cardinality(Blocked) \in Nat /\ Cardinality(Targets) \in Nat
        /\ Cardinality(Asleep) \in Nat /\ Cardinality(Scanning) \in Nat
        /\ Cardinality(Wakers) \in Nat /\ Owed \in Nat
    <2> HIDE DEF Wakers
    <2>1. QED
      BY <1>2, CountType, Numbers DEF Owed
  <1> HIDE DEF Wakers
  <1>8. QED
    BY <1>3, <1>4, <1>5, <1>6, <1>7

\* Units and waiters are accounted for in every state.
LEMMA SemInvariant == Spec => []SemInv
  <1>1. QED
    BY InitSem, NextSem, PTL DEF Spec

\* Waits return zero no more often than sem_init(), sem_open() and sem_post()
\* have provided units, whatever sem_wait(), sem_trywait() and sem_timedwait()
\* do in between, timed waits that give their unit back included - for every
\* number of threads and posts, in behaviours with none of the mishaps that
\* sem->value++ outside the kernel and the look for a waiter allow.
THEOREM UnitsNotGrantedTwice == Spec => []NoDoubleGrant
  BY SemInvariant, NoDoubleGrantFollows, PTL

\* Apart from calls of sem_post() under way, no more threads sleep in sem_wait()
\* and sem_timedwait() than units are owed.
THEOREM PostsNotLost == Spec => []NoLostPost
  BY SemInvariant, NoLostPostFollows, PTL
=============================================================================
