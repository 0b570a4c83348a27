---------------------------- MODULE MutexProofs -----------------------------
(***************************************************************************)
(* Proofs about mutexes and conditions, in five parts: nobody waits for a  *)
(* free mutex; who believes to hold one owns it; every mutex implements    *)
(* HandOffLock; no mutex is orphaned, and its locks are counted;           *)
(* priorities follow the mutexes, and the processor is not idle while a    *)
(* thread is ready.                                                        *)
(***************************************************************************)
EXTENDS Mutex, SchedTableProofs

Types ==
    /\ k.used = Task
    /\ pc \in [Task -> PC]
    /\ arg \in [Task -> Arg]
    /\ owner \in [Mutexes -> Task \cup {-1}]
    /\ held \in [Task -> SUBSET Mutexes]

\* The arguments of the call a thread is in.
ArgsOK ==
    \A c \in Task :
        /\ pc[c] \in {"trylock", "blocked", "unlock", "condwait"} => arg[c].m \in Mutexes
        /\ pc[c] = "condwait" => arg[c].v \in Conds
        /\ pc[c] = "condsignal" => arg[c].new_thread \in Task

\* A thread that sleeps for a mutex is in a call that locks this mutex.
WaitersKnown ==
    \A t \in Task, m \in Mutexes :
        t \notin k.active /\ k.block[t] = MutexObj(m) => pc[t] = "blocked" /\ arg[t].m = m

\* A thread is not given a mutex between its look at the owner and the
\* privileged call.
NotYetOwner ==
    "heir" \notin spoilt =>
        \A c \in Task : pc[c] = "trylock" => owner[arg[c].m] # c

\* NoWaitOnFree is inductive together with these.
WaitInv ==
    /\ Runs(k)
    /\ Types
    /\ ArgsOK
    /\ WaitersKnown
    /\ NotYetOwner
    /\ NoWaitOnFree

LEMMA MutexObject ==
    /\ \A m \in Mutexes : MutexObj(m) \in Object /\ MutexObj(m) # NULL
    /\ \A m, n \in Mutexes : MutexObj(m) = MutexObj(n) => m = n
    /\ \A v \in Conds : CondObj(v) \in Object /\ CondObj(v) # NULL
    /\ \A v \in Conds, m \in Mutexes : CondObj(v) # MutexObj(m)
    /\ NULL \in Object
  BY MutexAssumption DEF MutexObj, CondObj, NULL, Object, ObjectKind

LEMMA NoArgIsArg == NoArg \in Arg
  BY DEF NoArg, Arg, How

\* Where the table starts.
LEMMA InitRuns == Init => Runs(k) /\ IsTop(k)
  BY MutexAssumption, StartingTable DEF Init, TopOf

LEMMA InitWait == Init => WaitInv
  <1> SUFFICES ASSUME Init PROVE WaitInv
    OBVIOUS
  <1>1. Types
    BY NoArgIsArg DEF Init, Types, PC
  <1>2. ArgsOK /\ NotYetOwner
    BY DEF Init, ArgsOK, NotYetOwner
  <1>3. \A t \in Task : t \in k.active
    BY DEF Init
  <1>4. WaitersKnown /\ NoWaitOnFree
    <2>1. \A m \in Mutexes : BlockedOn(k, MutexObj(m)) = {}
      BY <1>3, InitRuns DEF BlockedOn, Runs, Kernel
    <2>2. QED
      BY <1>3, <2>1 DEF WaitersKnown, NoWaitOnFree
  <1>5. QED
    BY <1>1, <1>2, <1>4, InitRuns DEF WaitInv
-----------------------------------------------------------------------------
\* No thread has begun to sleep for a mutex.
Sleeping(K, t, m) == t \notin K.active /\ K.block[t] = MutexObj(m)

NoNewWaiter ==
    /\ k'.used = k.used
    /\ \A t \in Task, m \in Mutexes : Sleeping(k', t, m) => Sleeping(k, t, m)

\* What the arguments of a call at a place are.
ArgFits(l, a) ==
    /\ l \in {"trylock", "blocked", "unlock", "condwait"} => a.m \in Mutexes
    /\ l = "condwait" => a.v \in Conds
    /\ l = "condsignal" => a.new_thread \in Task

HeldOK == held' \in [Task -> SUBSET Mutexes]
Later  == spoilt \subseteq spoilt'

LEMMA BlockedSleeps ==
    ASSUME NEW K \in Kernel, NEW m \in Mutexes
    PROVE  BlockedOn(K, MutexObj(m)) = {t \in K.used : Sleeping(K, t, m)}
  BY DEF BlockedOn, Sleeping

\* Without new waiters no more threads are blocked.
LEMMA FewerBlocked ==
    ASSUME k \in Kernel, k' \in Kernel, NoNewWaiter, NEW m \in Mutexes
    PROVE  BlockedOn(k', MutexObj(m)) \subseteq BlockedOn(k, MutexObj(m))
  <1>1. k.used \subseteq Task
    BY DEF Kernel
  <1>2. QED
    BY <1>1 DEF BlockedOn, NoNewWaiter, Sleeping

LEMMA WaitersStayOff ==
    ASSUME WaitInv, k' \in Kernel, NoNewWaiter, owner' = owner, Later
    PROVE  NoWaitOnFree'
  <1>1. k \in Kernel
    BY DEF WaitInv, Runs
  <1>2. \A m \in Mutexes : BlockedOn(k', MutexObj(m)) \subseteq BlockedOn(k, MutexObj(m))
    BY <1>1, FewerBlocked
  <1>3. QED
    BY <1>2 DEF WaitInv, NoWaitOnFree, Later, MutexObj

\* Steps after which every thread is where it was.
LEMMA StandStill ==
    ASSUME WaitInv, Runs(k'), NoNewWaiter, UNCHANGED <<pc, arg, owner>>, HeldOK, Later
    PROVE  WaitInv'
  <1>1. NoWaitOnFree'
    BY WaitersStayOff DEF Runs
  <1>2. Types' /\ ArgsOK' /\ NotYetOwner'
    BY DEF WaitInv, Types, ArgsOK, NotYetOwner, NoNewWaiter, HeldOK, Later
  <1>3. WaitersKnown'
    BY DEF WaitInv, WaitersKnown, NoNewWaiter, Sleeping, MutexObj
  <1>4. QED
    BY <1>1, <1>2, <1>3 DEF WaitInv

\* Steps after which one thread is somewhere else.
LEMMA Moved ==
    ASSUME WaitInv, Runs(k'), NEW c \in Task, c \in k.active,
           NEW l \in PC, NEW a \in Arg, Goto(c, l), With(c, a), ArgFits(l, a), NoNewWaiter,
           HeldOK, owner' \in [Mutexes -> Task \cup {-1}],
           NotYetOwner', NoWaitOnFree'
    PROVE  WaitInv'
  <1>1. Types' /\ ArgsOK'
    BY DEF WaitInv, Types, ArgsOK, ArgFits, Goto, With, NoNewWaiter, HeldOK
  <1>2. WaitersKnown'
    <2> SUFFICES ASSUME NEW t \in Task, NEW m \in Mutexes, Sleeping(k', t, m)
                 PROVE  pc'[t] = "blocked" /\ arg'[t].m = m
      BY DEF WaitersKnown, Sleeping, MutexObj
    <2>1. Sleeping(k, t, m)
      BY DEF NoNewWaiter
    <2>2. t # c /\ pc[t] = "blocked" /\ arg[t].m = m
      BY <2>1 DEF WaitInv, WaitersKnown, Sleeping
    <2>3. QED
      BY <2>2 DEF WaitInv, Types, Goto, With
  <1>3. QED
    BY <1>1, <1>2 DEF WaitInv

\* ... and the mutexes have the owners they had.
LEMMA MovedSameOwner ==
    ASSUME WaitInv, Runs(k'), NEW c \in Task, c \in k.active,
           NEW l \in PC, NEW a \in Arg, Goto(c, l), With(c, a), ArgFits(l, a), NoNewWaiter,
           HeldOK, owner' = owner, Later,
           l = "trylock" => owner[a.m] # c
    PROVE  WaitInv'
  <1>1. owner' \in [Mutexes -> Task \cup {-1}]
    BY DEF WaitInv, Types
  <1>2. NoWaitOnFree'
    BY WaitersStayOff DEF Runs
  <1>3. NotYetOwner'
    BY DEF WaitInv, Types, NotYetOwner, Goto, With, Later
  <1>4. QED
    BY <1>1, <1>2, <1>3, Moved

LEMMA Running ==
    ASSUME WaitInv, NEW c \in Task, k.current = c
    PROVE  c \in k.active /\ k.current \in Task /\ Runs(k) /\ k \in Kernel
  <1>1. c # 0
    BY DEF Task
  <1>2. QED
    BY <1>1 DEF WaitInv, Runs

LEMMA SameTable == ASSUME k' = k PROVE NoNewWaiter
  BY DEF NoNewWaiter
-----------------------------------------------------------------------------
\* Waking tasks makes no waiters, whatever else of the table has changed before.
LEMMA WakeNoWaiter ==
    ASSUME k \in Kernel, NEW K, Runs(K), K.used = k.used, K.active = k.active,
           \A t \in Task : t \notin k.active => K.block[t] = k.block[t],
           NEW S \in SUBSET Task, NEW u \in UnblockType, NEW p \in NoPriority .. HighestPriority,
           k' \in Return(UpdateOnWake(AssertActive(K, S, u), p))
    PROVE  Runs(k') /\ NoNewWaiter /\ k'.active = k.active \cup S
  <1>1. /\ Runs(k') /\ k'.used = k.used /\ k'.active = k.active \cup S
        /\ \A t \in Task : k'.block[t] = IF t \in S THEN NULL ELSE K.block[t]
    BY WakeRuns
  <1>2. QED
    BY <1>1, MutexObject DEF NoNewWaiter, Sleeping

\* The running thread goes to sleep for something that is no mutex.
LEMMA SleepNoWaiter ==
    ASSUME k \in Kernel, NEW K, Runs(K), K.used = k.used, k.active \subseteq K.active,
           \A t \in Task : t \notin K.active => K.block[t] = k.block[t],
           K.current \in Task, NEW obj \in Object, NEW kind,
           obj # NULL \/ kind \notin {"near", "past"},
           \A m \in Mutexes : obj # MutexObj(m),
           k' \in Return(TimedBlock(K, obj, kind))
    PROVE  Runs(k') /\ NoNewWaiter /\ k'.active = K.active \ {K.current}
  <1>1. /\ Runs(k') /\ k'.used = k.used /\ k'.active = K.active \ {K.current}
        /\ k'.block = [K.block EXCEPT ![K.current] = obj]
    BY BlockRuns
  <1>2. K.block \in [Task -> Object]
    BY DEF Runs, Kernel
  <1>3. \A t \in Task : k'.block[t] = IF t = K.current THEN obj ELSE K.block[t]
    BY <1>1, <1>2
  <1>4. QED
    BY <1>1, <1>3 DEF NoNewWaiter, Sleeping

LEMMA Priorities ==
    ASSUME NEW K \in Kernel, NEW t \in Task
    PROVE  K.prio[t] \in NoPriority .. HighestPriority /\ K.base[t] \in NoPriority .. HighestPriority
  BY TableAssumption DEF Kernel, Priority, NoPriority

LEMMA EnvironmentWait ==
    ASSUME WaitInv, SysTick \/ TimerMatch
    PROVE  WaitInv' /\ NoNewWaiter
  <1>0. Runs(k) /\ k \in Kernel
    BY DEF WaitInv, Runs
  <1>1. Runs(k') /\ NoNewWaiter
    <2>1. CASE SysTick
      <3>1. /\ SwitchContext(k) \in Kernel
            /\ Entries(SwitchContext(k)) = Entries(k)
            /\ SwitchContext(k).exec = k.exec /\ SwitchContext(k).pend
        BY <1>0 DEF SwitchContext, Kernel, Entries
      <3>2. SwitchContext(k).exec \subseteq Ready(SwitchContext(k))
        BY <1>0, <3>1 DEF Runs, Ready, Entries
      <3>3. Runs(k') /\ Entries(k') = Entries(k)
        BY <2>1, <3>1, <3>2, ReturnRuns DEF SysTick
      <3>4. QED
        BY <3>3 DEF Entries, NoNewWaiter, Sleeping
    <2>2. CASE TimerMatch
      <3>1. PICK S \in SUBSET Sleepers(k) : k' \in Return(MatchEvent(k, S))
        BY <2>2 DEF TimerMatch
      <3>2. S \in SUBSET Task
        BY <1>0 DEF Sleepers, Kernel
      <3>3. TopPriority(k, S) \in NoPriority .. HighestPriority /\ "SLEEP" \in UnblockType
        BY <1>0, <3>2, TopPriorityRange DEF UnblockType
      <3>4. QED
        BY <1>0, <3>1, <3>2, <3>3, WakeNoWaiter DEF MatchEvent
    <2>3. QED
      BY <2>1, <2>2
  <1>2. UNCHANGED <<pc, arg, owner, held, spoilt>>
    BY DEF SysTick, TimerMatch
  <1>3. QED
    BY <1>1, <1>2, StandStill DEF HeldOK, Later, WaitInv, Types

LEMMA SleepWait ==
    ASSUME WaitInv, NEW c \in Task, Sleep(c)
    PROVE  WaitInv' /\ NoNewWaiter
  <1>1. Runs(k) /\ k \in Kernel /\ k.current \in Task
    BY Running DEF Sleep, At
  <1>2. NULL \in Object /\ \A m \in Mutexes : NULL # MutexObj(m)
    BY MutexObject
  <1>3. Runs(k') /\ NoNewWaiter
    BY <1>1, <1>2, SleepNoWaiter DEF Sleep
  <1>4. QED
    BY <1>3, StandStill DEF Sleep, HeldOK, Later, WaitInv, Types

LEMMA SignalWait ==
    ASSUME WaitInv, NEW c \in Task, NEW t \in Task, Signal(c, t)
    PROVE  WaitInv' /\ NoNewWaiter
  <1> DEFINE K == [k EXCEPT !.stopped = @ \ {t}]
  <1>0. Runs(k) /\ k \in Kernel
    BY DEF WaitInv, Runs
  <1>1. Runs(K) /\ K.used = k.used /\ K.active = k.active /\ K.block = k.block
    BY <1>0 DEF Runs, Kernel, Ready
  <1>2. k' \in Return(UpdateOnWake(AssertActive(K, {t}, "SIGNAL"), k.prio[t]))
    BY DEF Signal, SignalActivate
  <1> HIDE DEF K
  <1>3. Runs(k') /\ NoNewWaiter
    BY <1>0, <1>1, <1>2, Priorities, WakeNoWaiter DEF UnblockType
  <1>4. QED
    BY <1>3, StandStill DEF Signal, HeldOK, Later, WaitInv, Types

-----------------------------------------------------------------------------
\* The lock calls.
LEMMA LockCallWait ==
    ASSUME WaitInv, NEW c \in Task, NEW m \in Mutexes, NEW how \in How, LockCall(c, m, how)
    PROVE  WaitInv'
  <1> DEFINE a == [NoArg EXCEPT !.m = m, !.how = how]
  <1>1. c \in k.active /\ Runs(k)
    BY Running DEF LockCall, At
  <1>2. a \in Arg /\ a.m = m /\ "trylock" \in PC
    BY NoArgIsArg DEF Arg, PC
  <1>3. With(c, a) /\ Goto(c, "trylock") /\ UNCHANGED <<k, owner, held, spoilt>> /\ owner[m] # c
    BY DEF LockCall
  <1> HIDE DEF a
  <1>4. Runs(k') /\ NoNewWaiter /\ HeldOK /\ Later
    BY <1>1, <1>3, SameTable DEF HeldOK, Later, WaitInv, Types
  <1>5. QED
    BY <1>1, <1>2, <1>3, <1>4, MovedSameOwner DEF ArgFits

\* Calls that are over, or find out that there is nothing to do.
LEMMA BackWait ==
    ASSUME WaitInv, NEW c \in Task, k.current = c, Back(c),
           UNCHANGED <<k, owner>>, HeldOK, Later
    PROVE  WaitInv'
  <1>1. c \in k.active /\ Runs(k)
    BY Running
  <1>2. "run" \in PC /\ NoArg \in Arg /\ ArgFits("run", NoArg)
    BY NoArgIsArg DEF PC, ArgFits
  <1>3. QED
    BY <1>1, <1>2, SameTable, MovedSameOwner DEF Back

LEMMA TryLockFreeWait ==
    ASSUME WaitInv, NEW c \in Task, TryLockFree(c)
    PROVE  WaitInv'
  <1> DEFINE m == arg[c].m
  <1>1. c \in k.active /\ Runs(k) /\ k \in Kernel
    BY Running DEF TryLockFree, At
  <1>2. m \in Mutexes /\ owner[m] = -1
    BY DEF WaitInv, ArgsOK, TryLockFree, At
  <1>3. /\ owner' = [owner EXCEPT ![m] = c] /\ k' = Elevated(c, m)
        /\ held' = [held EXCEPT ![c] = @ \cup {m}] /\ Back(c) /\ spoilt' = spoilt
    BY DEF TryLockFree
  <1> HIDE DEF m
  <1>4. /\ Runs(k') /\ k'.used = k.used /\ k'.active = k.active /\ k'.block = k.block
    <2>1. Ceiling[m] \in Priority
      BY <1>2, MutexAssumption
    <2>2. QED
      BY <1>1, <1>3, <2>1 DEF Elevated, Runs, Kernel, Ready
  <1>5. NoNewWaiter /\ k' \in Kernel
    BY <1>4 DEF NoNewWaiter, Sleeping, Runs
  <1>6. HeldOK /\ owner' \in [Mutexes -> Task \cup {-1}]
    BY <1>2, <1>3 DEF HeldOK, WaitInv, Types
  <1>7. NotYetOwner'
    BY <1>2, <1>3 DEF WaitInv, Types, ArgsOK, NotYetOwner, Back, Goto, With
  <1>8. NoWaitOnFree'
    <2> SUFFICES ASSUME "heir" \notin spoilt, NEW n \in Mutexes,
                        NEW t \in BlockedOn(k', MutexObj(n))
                 PROVE  owner'[n] \notin {-1, t}
      BY <1>3 DEF NoWaitOnFree, MutexObj
    <2>1. t \in BlockedOn(k, MutexObj(n))
      BY <1>1, <1>5, FewerBlocked
    <2>2. owner[n] \notin {-1, t}
      BY <2>1 DEF WaitInv, NoWaitOnFree
    <2>3. n # m
      BY <1>2, <2>2
    <2>4. QED
      BY <1>3, <2>2, <2>3 DEF WaitInv, Types
  <1>9. "run" \in PC /\ NoArg \in Arg /\ ArgFits("run", NoArg)
    BY NoArgIsArg DEF PC, ArgFits
  <1>10. QED
    BY <1>1, <1>3, <1>4, <1>5, <1>6, <1>7, <1>8, <1>9, Moved DEF Back
LEMMA TryLockBlockWait ==
    ASSUME WaitInv, NEW c \in Task, TryLockBlock(c)
    PROVE  WaitInv'
  <1> DEFINE m == arg[c].m
  <1>1. c \in k.active /\ Runs(k) /\ k \in Kernel /\ k.current = c
    BY Running DEF TryLockBlock, At
  <1>2. m \in Mutexes /\ owner[m] # -1 /\ ("heir" \notin spoilt => owner[m] # c)
    BY DEF WaitInv, ArgsOK, NotYetOwner, TryLockBlock, At
  <1>3. PICK kind : k' \in Return(TimedBlock(k, MutexObj(m), kind))
    BY DEF TryLockBlock
  <1>4. /\ pc' = [pc EXCEPT ![c] = "blocked"] /\ UNCHANGED <<arg, owner, held, spoilt>>
    BY DEF TryLockBlock, Goto
  <1>5. m = arg[c].m
    OBVIOUS
  <1> HIDE DEF m
  <1>6. /\ Runs(k') /\ k'.used = k.used /\ k'.active = k.active \ {c}
        /\ k'.block = [k.block EXCEPT ![c] = MutexObj(m)]
    BY <1>1, <1>2, <1>3, MutexObject, BlockRuns
  <1>7. \A t \in Task : k'.block[t] = IF t = c THEN MutexObj(m) ELSE k.block[t]
    BY <1>1, <1>6 DEF Kernel
  <1>8. \A t \in Task, n \in Mutexes :
           Sleeping(k', t, n) => (t = c /\ n = m) \/ (t # c /\ Sleeping(k, t, n))
    BY <1>2, <1>6, <1>7, MutexObject DEF Sleeping
  <1>9. Types' /\ ArgsOK'
    BY <1>2, <1>4, <1>5, <1>6 DEF WaitInv, Types, ArgsOK, PC
  <1>10. NotYetOwner'
    BY <1>4 DEF WaitInv, Types, NotYetOwner
  <1>11. WaitersKnown'
    <2> SUFFICES ASSUME NEW t \in Task, NEW n \in Mutexes, Sleeping(k', t, n)
                 PROVE  pc'[t] = "blocked" /\ arg'[t].m = n
      BY DEF WaitersKnown, Sleeping, MutexObj
    <2>1. CASE t = c /\ n = m
      BY <1>4, <1>5, <2>1 DEF WaitInv, Types
    <2>2. CASE t # c /\ Sleeping(k, t, n)
      BY <1>4, <2>2 DEF WaitInv, Types, WaitersKnown, Sleeping
    <2>3. QED
      BY <1>8, <2>1, <2>2
  <1>12. NoWaitOnFree'
    <2> SUFFICES ASSUME "heir" \notin spoilt, NEW n \in Mutexes,
                        NEW t \in BlockedOn(k', MutexObj(n))
                 PROVE  owner'[n] \notin {-1, t}
      BY <1>4 DEF NoWaitOnFree, MutexObj
    <2>1. t \in k.used /\ t \in Task /\ Sleeping(k', t, n)
      BY <1>1, <1>6 DEF BlockedOn, Sleeping, Kernel
    <2>2. CASE t = c /\ n = m
      BY <1>2, <1>4, <2>2
    <2>3. CASE t # c /\ Sleeping(k, t, n)
      <3>1. t \in BlockedOn(k, MutexObj(n))
        BY <2>1, <2>3 DEF BlockedOn, Sleeping
      <3>2. QED
        BY <1>4, <3>1 DEF WaitInv, NoWaitOnFree
    <2>4. QED
      BY <1>8, <2>1, <2>2, <2>3
  <1>13. QED
    BY <1>6, <1>9, <1>10, <1>11, <1>12 DEF WaitInv

-----------------------------------------------------------------------------
\* Calls that do not touch the table.
LEMMA LockAgainWait ==
    ASSUME WaitInv, NEW c \in Task, NEW m \in Mutexes, LockAgain(c, m) \/ UnlockDenied(c, m)
    PROVE  WaitInv'
  <1>1. UNCHANGED <<k, pc, arg, owner, spoilt>>
    BY DEF LockAgain, UnlockDenied
  <1>2. HeldOK
    BY DEF LockAgain, UnlockDenied, HeldOK, WaitInv, Types
  <1>3. Runs(k') /\ NoNewWaiter
    BY <1>1, SameTable DEF WaitInv
  <1>4. QED
    BY <1>1, <1>2, <1>3, StandStill DEF Later

LEMMA ReturnsWait ==
    ASSUME WaitInv, NEW c \in Task,
           TryLockBusy(c) \/ LockWoken(c) \/ CondWaitDenied(c) \/ CondWoken(c)
    PROVE  WaitInv'
  <1>1. k.current = c /\ Back(c) /\ UNCHANGED <<k, owner, spoilt>>
    BY DEF TryLockBusy, LockWoken, CondWaitDenied, CondWoken, At
  <1>2. HeldOK
    <2>1. CASE LockWoken(c)
      <3>1. arg[c].m \in Mutexes
        BY <2>1 DEF LockWoken, At, WaitInv, ArgsOK
      <3>2. QED
        BY <2>1, <3>1 DEF LockWoken, HeldOK, WaitInv, Types
    <2>2. CASE ~LockWoken(c)
      BY <2>2 DEF TryLockBusy, CondWaitDenied, CondWoken, HeldOK, WaitInv, Types
    <2>3. QED
      BY <2>1, <2>2
  <1>3. QED
    BY <1>1, <1>2, BackWait DEF Later

LEMMA UnlockCallWait ==
    ASSUME WaitInv, NEW c \in Task, NEW m \in Mutexes, UnlockCall(c, m)
    PROVE  WaitInv'
  <1> DEFINE a == [NoArg EXCEPT !.m = m]
  <1>1. c \in k.active /\ Runs(k)
    BY Running DEF UnlockCall, At
  <1>2. UNCHANGED <<k, owner, spoilt>>
    BY DEF UnlockCall
  <1>3. Runs(k') /\ NoNewWaiter /\ Later
    BY <1>1, <1>2, SameTable DEF Later
  <1>4. \/ UNCHANGED <<pc, arg, held>>
        \/ Goto(c, "unlock") /\ With(c, a) /\ held' = [held EXCEPT ![c] = @ \ {m}]
    BY DEF UnlockCall
  <1>5. a \in Arg /\ a.m = m /\ "unlock" \in PC
    BY NoArgIsArg DEF Arg, PC
  <1> HIDE DEF a
  <1>6. HeldOK
    BY <1>4 DEF HeldOK, WaitInv, Types
  <1>7. CASE UNCHANGED <<pc, arg, held>>
    BY <1>2, <1>3, <1>6, <1>7, StandStill
  <1>8. CASE Goto(c, "unlock") /\ With(c, a)
    BY <1>1, <1>2, <1>3, <1>5, <1>6, <1>8, MovedSameOwner DEF ArgFits
  <1>9. QED
    BY <1>4, <1>7, <1>8

\* What Waiter finds.
LEMMA WaiterFound ==
    ASSUME WaitInv, NEW m \in Mutexes
    PROVE  \/ Waiter(m) = -1 /\ BlockedOn(k, MutexObj(m)) = {}
           \/ Waiter(m) \in BlockedOn(k, MutexObj(m)) /\ Waiter(m) \in Task /\ Waiter(m) # -1
  <1>1. k \in Kernel
    BY DEF WaitInv, Runs
  <1>2. BlockedOn(k, MutexObj(m)) \subseteq Task /\ -1 \notin Task
    BY <1>1 DEF BlockedOn, Kernel, Task
  <1>3. QED
    BY <1>1, <1>2, HighestPriorityBlockedTask DEF Waiter

\* What priv_mutex_unlock() has done to the table before it wakes anybody.
LEMMA RestoredRuns ==
    ASSUME WaitInv, NEW c \in Task, c \in k.active
    PROVE  /\ Runs(Restored(c)) /\ Restored(c).used = k.used /\ Restored(c).active = k.active
           /\ Restored(c).timed = k.timed
           /\ \A t \in Task : t # c => Restored(c).block[t] = k.block[t]
  <1>1. Runs(k) /\ k \in Kernel /\ NULL \in Object
    BY MutexObject DEF WaitInv, Runs
  <1>2. k.base[c] \in Priority /\ k.base[c] \in NoPriority .. HighestPriority
    BY <1>1, Priorities DEF Kernel
  <1>3. QED
    BY <1>1, <1>2 DEF Restored, Runs, Kernel, Ready
\* The mutex n's thread sleeps for is handed to it: nobody sleeps for it as its
\* owner, and n is not about to lock it.
LEMMA HandedToWaiter ==
    ASSUME WaitInv, NEW c \in Task, c \in k.active, Runs(k'), NoNewWaiter, Later,
           NEW l \in {"run", "waiting"}, Goto(c, l),
           \/ With(c, NoArg)
           \/ UNCHANGED arg,
           NEW m \in Mutexes, NEW n \in Task \cup {-1}, owner' = [owner EXCEPT ![m] = n],
           "heir" \notin spoilt' =>
              \/ n = -1 /\ BlockedOn(k, MutexObj(m)) = {}
              \/ n \in BlockedOn(k, MutexObj(m)) /\ n \in k'.active
    PROVE  /\ owner' \in [Mutexes -> Task \cup {-1}]
           /\ NotYetOwner' /\ NoWaitOnFree'
  <1>1. owner' \in [Mutexes -> Task \cup {-1}]
    BY DEF WaitInv, Types
  <1>2. k \in Kernel /\ k' \in Kernel
    BY DEF WaitInv, Runs
  <1>3. "heir" \notin spoilt' => "heir" \notin spoilt
    BY DEF Later
  <1>4. NoWaitOnFree'
    <2> SUFFICES ASSUME "heir" \notin spoilt', NEW i \in Mutexes,
                        NEW t \in BlockedOn(k', MutexObj(i))
                 PROVE  owner'[i] \notin {-1, t}
      BY DEF NoWaitOnFree, MutexObj
    <2>1. t \in BlockedOn(k, MutexObj(i)) /\ t \notin k'.active
      BY <1>2, FewerBlocked DEF BlockedOn
    <2>2. owner[i] \notin {-1, t}
      BY <1>3, <2>1 DEF WaitInv, NoWaitOnFree
    <2>3. i = m => n # -1 /\ n \in k'.active
      <3>1. -1 \notin BlockedOn(k, MutexObj(m))
        BY <1>2 DEF BlockedOn, Kernel, Task
      <3>2. i = m => BlockedOn(k, MutexObj(m)) # {}
        BY <2>1
      <3>3. QED
        BY <3>1, <3>2
    <2>4. QED
      BY <2>1, <2>2, <2>3 DEF WaitInv, Types
  <1>5. NotYetOwner'
    <2> SUFFICES ASSUME "heir" \notin spoilt', NEW d \in Task, pc'[d] = "trylock",
                        owner'[arg'[d].m] = d
                 PROVE  FALSE
      BY DEF NotYetOwner
    <2>1. d # c /\ pc[d] = "trylock" /\ arg'[d] = arg[d]
      BY DEF WaitInv, Types, Goto, With
    <2>2. owner[arg[d].m] # d /\ arg[d].m \in Mutexes
      BY <1>3, <2>1 DEF WaitInv, NotYetOwner, ArgsOK
    <2>3. arg[d].m = m /\ n = d
      BY <2>1, <2>2 DEF WaitInv, Types
    <2>4. -1 \notin Task
      BY DEF Task
    <2>5. n \in BlockedOn(k, MutexObj(m))
      BY <2>3, <2>4
    <2>6. pc[n] = "blocked"
      BY <2>3, <2>5 DEF BlockedOn, WaitInv, WaitersKnown
    <2>7. QED
      BY <2>1, <2>3, <2>6
  <1>6. QED
    BY <1>1, <1>4, <1>5

LEMMA UnlockWait ==
    ASSUME WaitInv, NEW c \in Task, UnlockHandOff(c) \/ UnlockFree(c)
    PROVE  WaitInv'
  <1> DEFINE m == arg[c].m
             n == Waiter(m)
             K == [Restored(c) EXCEPT !.prio[n] = Ceiling[m]]
  <1>1. c \in k.active /\ Runs(k) /\ k \in Kernel
    BY Running DEF UnlockHandOff, UnlockFree, At
  <1>2. m \in Mutexes /\ pc[c] = "unlock"
    BY DEF WaitInv, ArgsOK, UnlockHandOff, UnlockFree, At
  <1>3. owner' = [owner EXCEPT ![m] = n] /\ Back(c) /\ UNCHANGED <<held, spoilt>>
    BY DEF UnlockHandOff, UnlockFree, NewOwner
  <1>4. \/ n = -1 /\ BlockedOn(k, MutexObj(m)) = {}
        \/ n \in BlockedOn(k, MutexObj(m)) /\ n \in Task /\ n # -1
    BY <1>2, WaiterFound
  <1>5. /\ Runs(Restored(c)) /\ Restored(c).used = k.used /\ Restored(c).active = k.active
        /\ \A t \in Task : t # c => Restored(c).block[t] = k.block[t]
    BY <1>1, RestoredRuns
  <1>6. Runs(k') /\ NoNewWaiter /\ (n # -1 => n \in k'.active)
    <2>1. CASE UnlockHandOff(c)
      <3>1. n # -1 /\ n \in Task
        BY <1>4, <2>1 DEF UnlockHandOff
      <3>2. Ceiling[m] \in Priority /\ Ceiling[m] \in NoPriority .. HighestPriority
        <4>1. Ceiling[m] \in Priority
          BY <1>2, MutexAssumption
        <4>2. QED
          BY <4>1, TableAssumption DEF Priority, NoPriority
      <3>3. k' \in Return(UpdateOnWake(AssertActive(K, {n}, "MUTEX"), Ceiling[m]))
        BY <2>1 DEF UnlockHandOff, HandedOff
      <3> HIDE DEF m, n
      <3>4. Runs(K) /\ K.used = Restored(c).used /\ K.active = Restored(c).active
            /\ K.block = Restored(c).block
        BY <1>5, <3>1, <3>2 DEF Runs, Kernel, Ready
      <3>5. \A t \in Task : t \notin k.active => K.block[t] = k.block[t]
        BY <1>1, <1>5, <3>4
      <3> HIDE DEF K
      <3>6. QED
        BY <1>1, <1>5, <3>1, <3>2, <3>3, <3>4, <3>5, WakeNoWaiter DEF UnblockType
    <2>2. CASE UnlockFree(c)
      <3>1. n = -1 /\ k' \in Return(Unlocked(c))
        BY <2>2 DEF UnlockFree
      <3>2. Restored(c).cur \in NoPriority .. HighestPriority
        BY <1>5 DEF Runs, Kernel
      <3>3. Runs(Unlocked(c)) /\ Entries(Unlocked(c)) = Entries(Restored(c))
        BY <1>5, <3>2, UpdateOnWakeRuns DEF Unlocked
      <3>4. Runs(k') /\ Entries(k') = Entries(Unlocked(c))
        BY <3>1, <3>3, ReturnRuns DEF Runs
      <3>5. k'.used = k.used /\ k'.active = k.active /\ k'.block = Restored(c).block
        BY <1>5, <3>3, <3>4 DEF Entries
      <3>6. QED
        BY <1>1, <1>5, <3>1, <3>4, <3>5 DEF NoNewWaiter, Sleeping
    <2>3. QED
      BY <2>1, <2>2
  <1>7. HeldOK /\ Later
    BY <1>3 DEF HeldOK, Later, WaitInv, Types
  <1> HIDE DEF m, n
  <1>8. owner' \in [Mutexes -> Task \cup {-1}] /\ NotYetOwner' /\ NoWaitOnFree'
    BY <1>1, <1>2, <1>3, <1>4, <1>6, <1>7, HandedToWaiter DEF Back
  <1>9. "run" \in PC /\ NoArg \in Arg /\ ArgFits("run", NoArg)
    BY NoArgIsArg DEF PC, ArgFits
  <1>10. QED
    BY <1>1, <1>3, <1>6, <1>7, <1>8, <1>9, Moved DEF Back
-----------------------------------------------------------------------------
\* Conditions.
LEMMA CondWaitCallWait ==
    ASSUME WaitInv, NEW c \in Task, NEW v \in Conds, NEW m \in Mutexes,
           NEW how \in {"lock", "timed"}, CondWaitCall(c, v, m, how)
    PROVE  WaitInv'
  <1> DEFINE a == [m |-> m, v |-> v, how |-> how, new_thread |-> Waiter(m)]
  <1>1. c \in k.active /\ Runs(k)
    BY Running DEF CondWaitCall, At
  <1>2. Waiter(m) \in Task \cup {-1}
    BY WaiterFound
  <1>3. a \in Arg /\ a.m = m /\ a.v = v /\ "condwait" \in PC
    BY <1>2 DEF Arg, How, PC
  <1>4. With(c, a) /\ Goto(c, "condwait") /\ UNCHANGED <<k, owner, held, spoilt>>
    BY DEF CondWaitCall
  <1> HIDE DEF a
  <1>5. Runs(k') /\ NoNewWaiter /\ HeldOK /\ Later
    BY <1>1, <1>4, SameTable DEF HeldOK, Later, WaitInv, Types
  <1>6. QED
    BY <1>1, <1>3, <1>4, <1>5, MovedSameOwner DEF ArgFits

\* The table in which priv_cond_wait() has left the mutex m to n and not yet
\* blocked.
LeftTo(c, m, n) ==
    LET k1 == [k EXCEPT !.prio[c] = k.base[c]]
    IN  IF n # -1 THEN HandedOff(k1, m, n) ELSE k1

LEMMA LeftRuns ==
    ASSUME WaitInv, NEW c \in Task, k.current = c, NEW m \in Mutexes, NEW n \in Task \cup {-1}
    PROVE  LET K == LeftTo(c, m, n)
           IN  /\ Runs(K) /\ K.used = k.used /\ K.current = c
               /\ K.active = k.active \cup (IF n # -1 THEN {n} ELSE {})
               /\ K.timed \subseteq k.timed
               /\ \A t \in Task : t # n => K.block[t] = k.block[t]
  <1> DEFINE K1 == [k EXCEPT !.prio[c] = k.base[c]]
             K2 == [K1 EXCEPT !.prio[n] = Ceiling[m]]
             K  == LeftTo(c, m, n)
  <1>1. c \in k.active /\ Runs(k) /\ k \in Kernel
    BY Running
  <1>2. Runs(K1) /\ K1.used = k.used /\ K1.active = k.active /\ K1.block = k.block
        /\ K1.current = c /\ K1.timed = k.timed
    <2>1. k.base[c] \in Priority
      BY <1>1 DEF Kernel
    <2>2. QED
      BY <1>1, <2>1 DEF Runs, Kernel, Ready
  <1>3. CASE n = -1
    <2>1. K = K1
      BY <1>3 DEF LeftTo
    <2>2. QED
      BY <1>2, <1>3, <2>1
  <1>4. CASE n # -1
    <2>1. Ceiling[m] \in Priority /\ n \in Task
      BY <1>4, MutexAssumption
    <2>2. K = AssertActive(K2, {n}, "MUTEX")
      BY <1>4 DEF HandedOff, LeftTo
    <2> HIDE DEF K1, K
    <2>3. /\ Runs(K2) /\ K2.used = k.used /\ K2.active = k.active /\ K2.block = k.block
          /\ K2.current = c /\ K2.timed = k.timed
      BY <1>2, <2>1 DEF Runs, Kernel, Ready
    <2> HIDE DEF K2
    <2>4. K \in Kernel
      BY <2>1, <2>2, <2>3, AssertActiveKernel DEF Runs, UnblockType
    <2>5. /\ K.used = k.used /\ K.active = k.active \cup {n} /\ K.current = c
          /\ K.exec = K2.exec /\ K.stopped = K2.stopped /\ K.timed \subseteq k.timed
          /\ \A t \in Task : t # n => K.block[t] = k.block[t]
      BY <2>2, <2>3 DEF AssertActive, Runs, Kernel
    <2>6. Runs(K)
      BY <2>3, <2>4, <2>5 DEF Runs, Ready
    <2>7. QED
      BY <1>4, <2>5, <2>6 DEF K
  <1>5. QED
    BY <1>3, <1>4

LEMMA CondWaitWait ==
    ASSUME WaitInv, NEW c \in Task, CondWait(c)
    PROVE  WaitInv'
  <1> DEFINE m   == arg[c].m
             n   == arg[c].new_thread
             obj == CondObj(arg[c].v)
             K   == LeftTo(c, m, n)
  <1>1. c \in k.active /\ Runs(k) /\ k \in Kernel /\ k.current = c
    BY Running DEF CondWait, At
  <1>2. m \in Mutexes /\ n \in Task \cup {-1} /\ arg[c].v \in Conds /\ arg[c] \in Arg
    BY DEF WaitInv, Types, ArgsOK, CondWait, At, Arg
  <1>3. /\ owner' = [owner EXCEPT ![m] = n] /\ held' = [held EXCEPT ![c] = @ \ {m}]
        /\ Goto(c, "waiting") /\ arg' = arg
        /\ spoilt' = IF n \in BlockedOn(k, MutexObj(m)) \/ n = Waiter(m)
                     THEN spoilt ELSE spoilt \cup {"heir"}
    BY DEF CondWait
  <1>4. PICK kind : k' \in Return(TimedBlock(K, obj, kind))
    BY DEF CondWait, LeftTo
  <1>5. obj \in Object /\ obj # NULL /\ \A i \in Mutexes : obj # MutexObj(i)
    BY <1>2, MutexObject
  <1>6. /\ Runs(K) /\ K.used = k.used /\ K.current = c
        /\ K.active = k.active \cup (IF n # -1 THEN {n} ELSE {})
        /\ \A t \in Task : t \notin K.active => K.block[t] = k.block[t]
    <2> HIDE DEF m, n
    <2>1. /\ Runs(K) /\ K.used = k.used /\ K.current = c
          /\ K.active = k.active \cup (IF n # -1 THEN {n} ELSE {})
          /\ \A t \in Task : t # n => K.block[t] = k.block[t]
      BY <1>1, <1>2, LeftRuns
    <2> HIDE DEF K
    <2>2. \A t \in Task : t \notin K.active => t # n
      BY <2>1 DEF Task
    <2>3. QED
      BY <2>1, <2>2
  <1> HIDE DEF m, n, obj, K
  <1>7. Runs(k') /\ NoNewWaiter /\ k'.active = K.active \ {c}
    BY <1>1, <1>4, <1>5, <1>6, SleepNoWaiter
  <1>8. HeldOK /\ Later
    BY <1>3 DEF HeldOK, Later, WaitInv, Types
  <1>9. "heir" \notin spoilt' =>
            \/ n = -1 /\ BlockedOn(k, MutexObj(m)) = {}
            \/ n \in BlockedOn(k, MutexObj(m)) /\ n \in k'.active
    <2> SUFFICES ASSUME "heir" \notin spoilt'
                 PROVE  \/ n = -1 /\ BlockedOn(k, MutexObj(m)) = {}
                        \/ n \in BlockedOn(k, MutexObj(m)) /\ n \in k'.active
      OBVIOUS
    <2>1. n \in BlockedOn(k, MutexObj(m)) \/ n = Waiter(m)
      BY <1>3
    <2>2. \/ n = -1 /\ BlockedOn(k, MutexObj(m)) = {}
          \/ n \in BlockedOn(k, MutexObj(m))
      BY <1>2, <2>1, WaiterFound
    <2>3. n \in BlockedOn(k, MutexObj(m)) => n \in k'.active
      <3>1. ASSUME n \in BlockedOn(k, MutexObj(m)) PROVE n # -1 /\ n # c
        BY <1>1, <3>1 DEF BlockedOn, Kernel, Task
      <3>2. QED
        BY <1>6, <1>7, <3>1
    <2>4. QED
      BY <2>2, <2>3
  <1>10. owner' \in [Mutexes -> Task \cup {-1}] /\ NotYetOwner' /\ NoWaitOnFree'
    BY <1>1, <1>2, <1>3, <1>7, <1>8, <1>9, HandedToWaiter
  <1>11. /\ With(c, arg[c]) /\ ArgFits("waiting", arg[c]) /\ "waiting" \in PC
    BY <1>3 DEF With, ArgFits, PC, WaitInv, Types
  <1>12. QED
    BY <1>1, <1>2, <1>3, <1>7, <1>8, <1>10, <1>11, Moved

LEMMA CondSignalCallWait ==
    ASSUME WaitInv, NEW c \in Task, NEW v \in Conds, CondSignalCall(c, v)
    PROVE  WaitInv'
  <1> DEFINE n == HighestPriorityBlocked(k, CondObj(v))
             a == [NoArg EXCEPT !.v = v, !.new_thread = n]
  <1>1. c \in k.active /\ Runs(k) /\ k \in Kernel
    BY Running DEF CondSignalCall, At
  <1>2. n \in Task
    <2>1. n # -1
      BY DEF CondSignalCall
    <2> HIDE DEF n
    <2>2. n \in BlockedOn(k, CondObj(v))
      BY <1>1, <2>1, HighestPriorityBlockedTask DEF n
    <2>3. QED
      BY <1>1, <2>2 DEF BlockedOn, Kernel
  <1>3. With(c, a) /\ Goto(c, "condsignal") /\ UNCHANGED <<k, owner, held, spoilt>>
    BY DEF CondSignalCall
  <1> HIDE DEF n
  <1>4. a \in Arg /\ a.new_thread = n /\ "condsignal" \in PC
    BY <1>2, NoArgIsArg DEF Arg, PC
  <1> HIDE DEF a
  <1>5. Runs(k') /\ NoNewWaiter /\ HeldOK /\ Later
    BY <1>1, <1>3, SameTable DEF HeldOK, Later, WaitInv, Types
  <1>6. QED
    BY <1>1, <1>2, <1>3, <1>4, <1>5, MovedSameOwner DEF ArgFits

LEMMA CondSignalWait ==
    ASSUME WaitInv, NEW c \in Task, CondSignal(c)
    PROVE  WaitInv' /\ NoNewWaiter
  <1> DEFINE n == arg[c].new_thread
  <1>1. c \in k.active /\ Runs(k) /\ k \in Kernel
    BY Running DEF CondSignal, At
  <1>2. n \in Task /\ k.prio[n] \in NoPriority .. HighestPriority
    BY <1>1, Priorities DEF CondSignal, At, WaitInv, ArgsOK
  <1>3. /\ k' \in Return(UpdateOnWake(AssertActive(k, {n}, "COND"), k.prio[n]))
        /\ Back(c) /\ UNCHANGED <<owner, held>> /\ spoilt \subseteq spoilt'
    BY DEF CondSignal
  <1> HIDE DEF n
  <1>4. Runs(k') /\ NoNewWaiter
    BY <1>1, <1>2, <1>3, WakeNoWaiter DEF UnblockType
  <1>5. HeldOK /\ Later
    BY <1>3 DEF HeldOK, Later, WaitInv, Types
  <1>6. "run" \in PC /\ NoArg \in Arg /\ ArgFits("run", NoArg)
    BY NoArgIsArg DEF PC, ArgFits
  <1>7. QED
    BY <1>1, <1>3, <1>4, <1>5, <1>6, MovedSameOwner DEF Back

LEMMA CondBroadcastWait ==
    ASSUME WaitInv, NEW c \in Task, NEW v \in Conds, CondBroadcast(c, v)
    PROVE  WaitInv' /\ NoNewWaiter
  <1> DEFINE S == BlockedOn(k, CondObj(v))
             p == TopPriority([k EXCEPT !.prio = k.base], S)
  <1>1. Runs(k) /\ k \in Kernel
    BY DEF WaitInv, Runs
  <1>2. S \in SUBSET Task
    BY <1>1 DEF BlockedOn, Kernel
  <1>3. p \in NoPriority .. HighestPriority
    <2>1. [k EXCEPT !.prio = k.base] \in Kernel
      BY <1>1 DEF Kernel
    <2> HIDE DEF S
    <2>2. QED
      BY <1>2, <2>1, TopPriorityRange
  <1>4. k' \in Return(UpdateOnWake(AssertActive(k, S, "COND"), p))
    BY DEF CondBroadcast, UnblockAll
  <1> HIDE DEF S, p
  <1>5. Runs(k') /\ NoNewWaiter
    BY <1>1, <1>2, <1>3, <1>4, WakeNoWaiter DEF UnblockType
  <1>6. QED
    BY <1>5, StandStill DEF CondBroadcast, HeldOK, Later, WaitInv, Types

LEMMA NextWait ==
    ASSUME WaitInv, [Next]_vars
    PROVE  WaitInv'
  <1>1. CASE SysTick \/ TimerMatch
    BY <1>1, EnvironmentWait
  <1>2. ASSUME NEW c \in Task, MutexStep(c) PROVE WaitInv'
    BY <1>2, LockCallWait, LockAgainWait, UnlockCallWait, TryLockFreeWait, TryLockBlockWait,
       ReturnsWait, UnlockWait DEF MutexStep
  <1>3. ASSUME NEW c \in Task, CondStep(c) PROVE WaitInv'
    BY <1>3, CondWaitCallWait, CondWaitWait, ReturnsWait, CondSignalWait, CondSignalCallWait,
       CondBroadcastWait DEF CondStep
  <1>4. ASSUME NEW c \in Task, Sleep(c) \/ \E t \in Task : Signal(c, t) PROVE WaitInv'
    BY <1>4, SleepWait, SignalWait
  <1>5. CASE UNCHANGED vars
    <2>1. Runs(k') /\ NoNewWaiter
      BY <1>5, SameTable DEF vars, WaitInv
    <2>2. QED
      BY <1>5, <2>1, StandStill DEF vars, HeldOK, Later, WaitInv, Types
  <1>6. QED
    BY <1>1, <1>2, <1>3, <1>4, <1>5 DEF Next

\* For any number of threads, mutexes and conditions: neither a hand-off nor a
\* time-out, a signal or a wait for a condition leaves a thread asleep on a
\* mutex that is free or its own, except after pthread_cond_wait() has given the
\* mutex to an heir that no longer waits for it.
THEOREM NobodySleepsOnFree == Spec => []NoWaitOnFree
  <1>1. WaitInv => NoWaitOnFree
    BY DEF WaitInv
  <1>2. QED
    BY <1>1, InitWait, NextWait, PTL DEF Spec

-----------------------------------------------------------------------------
(* Who believes to hold a mutex owns it.                                   *)
\* What a thread may rely on, and what it relies on: it owns what it holds and
\* what it is about to unlock, and while it is blocked in pthread_mutex_lock()
\* only a hand-off can wake it, because it has no wake time and the object it is
\* blocked on is the mutex.
Owns(c) ==
    /\ \A m \in held[c] : owner[m] = c
    /\ pc[c] = "unlock" => owner[arg[c].m] = c /\ arg[c].m \notin held[c]
    /\ pc[c] = "blocked" /\ c \notin k.active =>
          k.block[c] = MutexObj(arg[c].m) /\ (arg[c].how = "lock" => c \notin k.timed)
    /\ pc[c] = "blocked" /\ c \in k.active /\ arg[c].how = "lock" => owner[arg[c].m] = c

HoldInv == WaitInv /\ (spoilt = {} => \A c \in Task : Owns(c))

\* How a step looks to a thread t that does not make it.
Elsewhere(t) == pc'[t] = pc[t] /\ arg'[t] = arg[t] /\ held'[t] = held[t]
KeepsOwn(t)  == \A m \in Mutexes : owner[m] = t => owner'[m] = t
SleepsOn(t)  ==
    /\ t \in k'.active <=> t \in k.active
    /\ t \notin k'.active => k'.block[t] = k.block[t] /\ (t \in k'.timed => t \in k.timed)

LEMMA OwnsOn ==
    ASSUME WaitInv, NEW t \in Task, Owns(t), Elsewhere(t), KeepsOwn(t), SleepsOn(t)
    PROVE  Owns(t)'
  <1>1. held[t] \subseteq Mutexes /\ (pc[t] \in {"unlock", "blocked"} => arg[t].m \in Mutexes)
    BY DEF WaitInv, Types, ArgsOK
  <1>2. QED
    BY <1>1 DEF Owns, Elsewhere, KeepsOwn, SleepsOn, MutexObj

\* A thread that is woken but does not take this for a lock.
LEMMA OwnsWoken ==
    ASSUME WaitInv, NEW t \in Task, Owns(t), Elsewhere(t), KeepsOwn(t), t \in k'.active,
           pc[t] = "blocked" /\ arg[t].how = "lock" => t \in k.active
    PROVE  Owns(t)'
  <1>1. held[t] \subseteq Mutexes /\ (pc[t] \in {"unlock", "blocked"} => arg[t].m \in Mutexes)
    BY DEF WaitInv, Types, ArgsOK
  <1>2. QED
    BY <1>1 DEF Owns, Elsewhere, KeepsOwn, SleepsOn, MutexObj

\* A thread that is neither asleep for a mutex nor about to unlock one.
LEMMA OwnsFree ==
    ASSUME NEW t \in Task, pc'[t] \notin {"unlock", "blocked"},
           \A m \in held'[t] : owner'[m] = t
    PROVE  Owns(t)'
  BY DEF Owns

LEMMA SameOwner == ASSUME owner' = owner, NEW t PROVE KeepsOwn(t)
  BY DEF KeepsOwn

LEMMA SameSleep == ASSUME k' = k, NEW t PROVE SleepsOn(t)
  BY DEF SleepsOn

\* Waking tasks changes nothing for the others; for any K with k's sleepers.
LEMMA WakeSleepsOn ==
    ASSUME NEW K, Runs(K), K.active = k.active, K.timed = k.timed,
           NEW S \in SUBSET Task, NEW u \in UnblockType, NEW p \in NoPriority .. HighestPriority,
           k' \in Return(UpdateOnWake(AssertActive(K, S, u), p)),
           NEW t \in Task, t \notin S, t \notin k.active => K.block[t] = k.block[t]
    PROVE  SleepsOn(t)
  <1>1. k'.active = K.active \cup S /\ k'.timed = K.timed \ S
    BY WakeRuns, Z3
  <1>2. \A s \in Task : k'.block[s] = IF s \in S THEN NULL ELSE K.block[s]
    BY WakeRuns
  <1>3. QED
    BY <1>1, <1>2 DEF SleepsOn

\* Nor does going to sleep.
LEMMA SleepSleepsOn ==
    ASSUME NEW K, Runs(K), K.current \in Task, NEW obj \in Object, NEW kind,
           obj # NULL \/ kind \notin {"near", "past"},
           k' \in Return(TimedBlock(K, obj, kind)),
           NEW t \in Task, t # K.current, t \in K.active <=> t \in k.active,
           t \in K.timed => t \in k.timed,
           t \notin k.active => K.block[t] = k.block[t]
    PROVE  SleepsOn(t)
  <1>1. /\ k'.active = K.active \ {K.current}
        /\ k'.timed \subseteq K.timed \cup {K.current}
        /\ k'.block = [K.block EXCEPT ![K.current] = obj]
    BY BlockRuns
  <1>2. K.block \in [Task -> Object]
    BY DEF Runs, Kernel
  <1>3. k'.block[t] = K.block[t]
    BY <1>1, <1>2
  <1>4. QED
    BY <1>1, <1>3 DEF SleepsOn

-----------------------------------------------------------------------------
LEMMA InitHold == Init => HoldInv
  BY InitWait DEF Init, HoldInv, Owns

LEMMA EnvironmentHold ==
    ASSUME HoldInv, SysTick \/ TimerMatch
    PROVE  HoldInv'
  <1>0. WaitInv /\ Runs(k) /\ k \in Kernel
    BY DEF HoldInv, WaitInv, Runs
  <1>1. UNCHANGED <<pc, arg, owner, held, spoilt>>
    BY DEF SysTick, TimerMatch
  <1>2. ASSUME spoilt = {}, NEW t \in Task PROVE Owns(t)'
    <2>1. Owns(t) /\ Elsewhere(t) /\ KeepsOwn(t)
      BY <1>1, <1>2, SameOwner DEF HoldInv, Elsewhere
    <2>2. CASE SysTick
      <3>1. /\ SwitchContext(k) \in Kernel
            /\ Entries(SwitchContext(k)) = Entries(k)
            /\ SwitchContext(k).exec = k.exec /\ SwitchContext(k).pend
        BY <1>0 DEF SwitchContext, Kernel, Entries
      <3>2. SwitchContext(k).exec \subseteq Ready(SwitchContext(k))
        BY <1>0, <3>1 DEF Runs, Ready, Entries
      <3>3. Entries(k') = Entries(k)
        BY <2>2, <3>1, <3>2, ReturnRuns DEF SysTick
      <3>4. SleepsOn(t)
        BY <3>3 DEF Entries, SleepsOn
      <3>5. QED
        BY <1>0, <2>1, <3>4, OwnsOn
    <2>3. CASE TimerMatch
      <3>1. PICK S \in SUBSET Sleepers(k) : k' \in Return(MatchEvent(k, S))
        BY <2>3 DEF TimerMatch
      <3>2. S \in SUBSET Task /\ \A s \in S : s \notin k.active /\ s \in k.timed
        BY <1>0 DEF Sleepers, Kernel
      <3>3. TopPriority(k, S) \in NoPriority .. HighestPriority /\ "SLEEP" \in UnblockType
        BY <1>0, <3>2, TopPriorityRange DEF UnblockType
      <3>4. k' \in Return(UpdateOnWake(AssertActive(k, S, "SLEEP"), TopPriority(k, S)))
        BY <3>1 DEF MatchEvent
      <3>5. k'.active = k.active \cup S
        BY <1>0, <3>2, <3>3, <3>4, WakeNoWaiter
      <3>6. CASE t \in S
        <4>1. t \in k'.active /\ ~(pc[t] = "blocked" /\ arg[t].how = "lock")
          BY <2>1, <3>2, <3>5, <3>6 DEF Owns
        <4>2. QED
          BY <1>0, <2>1, <4>1, OwnsWoken
      <3>7. CASE t \notin S
        <4>1. SleepsOn(t)
          BY <1>0, <3>2, <3>3, <3>4, <3>7, WakeSleepsOn
        <4>2. QED
          BY <1>0, <2>1, <4>1, OwnsOn
      <3>8. QED
        BY <3>6, <3>7
    <2>4. QED
      BY <2>2, <2>3
  <1>3. WaitInv'
    BY <1>0, EnvironmentWait
  <1>4. QED
    BY <1>1, <1>2, <1>3 DEF HoldInv
-----------------------------------------------------------------------------
\* Steps of a thread c that change no owner, its own included.
LEMMA OwnStep ==
    ASSUME HoldInv, NEW c \in Task, spoilt \subseteq spoilt', WaitInv',
           owner' = owner,
           spoilt' = {} => Owns(c)',
           spoilt' = {} => \A t \in Task : t # c => Elsewhere(t) /\ SleepsOn(t)
    PROVE  HoldInv'
  <1> SUFFICES ASSUME spoilt' = {}, NEW t \in Task PROVE Owns(t)'
    BY DEF HoldInv
  <1>1. WaitInv /\ Owns(t) /\ KeepsOwn(t)
    BY SameOwner DEF HoldInv
  <1>2. CASE t = c
    BY <1>2
  <1>3. CASE t # c
    BY <1>1, <1>3, OwnsOn
  <1>4. QED
    BY <1>2, <1>3

LEMMA OthersElsewhere ==
    ASSUME WaitInv, NEW c \in Task,
           (\E l \in PC : Goto(c, l)) \/ pc' = pc,
           (\E a \in Arg : With(c, a)) \/ arg' = arg,
           (\E h \in SUBSET Mutexes : held' = [held EXCEPT ![c] = h]) \/ held' = held,
           NEW t \in Task, t # c
    PROVE  Elsewhere(t)
  BY DEF WaitInv, Types, Goto, With, Elsewhere

\* A running thread that goes on without a look at the table.
LEMMA QuietHold ==
    ASSUME HoldInv, NEW c \in Task, UNCHANGED <<k, owner, spoilt>>, WaitInv',
           (\E l \in PC : Goto(c, l)) \/ pc' = pc,
           (\E a \in Arg : With(c, a)) \/ arg' = arg,
           (\E h \in SUBSET Mutexes : held' = [held EXCEPT ![c] = h]) \/ held' = held,
           spoilt = {} => Owns(c)'
    PROVE  HoldInv'
  <1>1. \A t \in Task : t # c => Elsewhere(t) /\ SleepsOn(t)
    BY OthersElsewhere, SameSleep DEF HoldInv
  <1>2. QED
    BY <1>1, OwnStep

LEMMA Places == /\ PC = {"run", "trylock", "blocked", "unlock", "condwait", "waiting", "condsignal"}
                /\ NoArg \in Arg
  BY NoArgIsArg DEF PC

LEMMA LockCallHold ==
    ASSUME HoldInv, NEW c \in Task, NEW m \in Mutexes, NEW how \in How, LockCall(c, m, how)
    PROVE  HoldInv'
  <1>1. WaitInv' /\ [NoArg EXCEPT !.m = m, !.how = how] \in Arg
    BY LockCallWait, NoArgIsArg DEF HoldInv, Arg
  <1>2. /\ UNCHANGED <<k, owner, spoilt, held>> /\ Goto(c, "trylock")
        /\ With(c, [NoArg EXCEPT !.m = m, !.how = how])
    BY DEF LockCall
  <1>3. spoilt = {} => Owns(c)'
    BY <1>2, OwnsFree DEF HoldInv, Owns, Goto, WaitInv, Types
  <1>4. QED
    BY <1>1, <1>2, <1>3, QuietHold, Places

LEMMA LockAgainHold ==
    ASSUME HoldInv, NEW c \in Task, NEW m \in Mutexes, LockAgain(c, m) \/ UnlockDenied(c, m)
    PROVE  HoldInv'
  <1>1. WaitInv'
    BY LockAgainWait DEF HoldInv
  <1>2. UNCHANGED <<k, owner, spoilt, pc, arg>> /\ pc[c] = "run"
    BY DEF LockAgain, UnlockDenied, At
  <1>3. held' = held \/ held' = [held EXCEPT ![c] = held[c] \ {m}]
    BY DEF LockAgain, UnlockDenied
  <1>4. held[c] \ {m} \in SUBSET Mutexes
    BY DEF HoldInv, WaitInv, Types
  <1>5. spoilt = {} => Owns(c)'
    BY <1>2, <1>3, OwnsFree DEF HoldInv, Owns, WaitInv, Types
  <1>6. QED
    BY <1>1, <1>2, <1>3, <1>4, <1>5, QuietHold

\* A call returns; pthread_mutex_lock() takes its wake-up for the lock.
LEMMA ReturnsHold ==
    ASSUME HoldInv, NEW c \in Task,
           TryLockBusy(c) \/ LockWoken(c) \/ CondWaitDenied(c) \/ CondWoken(c)
    PROVE  HoldInv'
  <1>1. WaitInv' /\ WaitInv
    BY ReturnsWait DEF HoldInv
  <1>2. /\ k.current = c /\ UNCHANGED <<k, owner, spoilt>>
        /\ Goto(c, "run") /\ With(c, NoArg)
    BY DEF TryLockBusy, LockWoken, CondWaitDenied, CondWoken, At, Back
  <1>3. c \in k.active
    BY <1>1, <1>2, Running
  <1>4. \/ held' = held
        \/ held' = [held EXCEPT ![c] = held[c] \cup {arg[c].m}] /\ GotLock(c) /\ pc[c] = "blocked"
    BY DEF TryLockBusy, LockWoken, CondWaitDenied, CondWoken, At
  <1>5. pc[c] = "blocked" => held[c] \cup {arg[c].m} \in SUBSET Mutexes
    BY <1>1 DEF WaitInv, Types, ArgsOK
  <1>6. spoilt = {} => Owns(c)'
    <2> SUFFICES ASSUME spoilt = {} PROVE Owns(c)'
      OBVIOUS
    <2>1. Owns(c)
      BY DEF HoldInv
    <2>2. \A m \in held'[c] : owner'[m] = c
      <3>1. CASE held' = held
        BY <1>2, <2>1, <3>1 DEF Owns
      <3>2. CASE held' = [held EXCEPT ![c] = held[c] \cup {arg[c].m}] /\ GotLock(c) /\ pc[c] = "blocked"
        <4>1. owner[arg[c].m] = c
          BY <1>3, <2>1, <3>2 DEF Owns, GotLock
        <4>2. QED
          BY <1>1, <1>2, <2>1, <3>2, <4>1 DEF Owns, WaitInv, Types
      <3>3. QED
        BY <1>4, <3>1, <3>2
    <2>3. pc'[c] = "run"
      BY <1>1, <1>2 DEF Goto, WaitInv, Types
    <2>4. QED
      BY <2>2, <2>3, OwnsFree
  <1>7. QED
    BY <1>1, <1>2, <1>4, <1>5, <1>6, QuietHold, Places

LEMMA UnlockCallHold ==
    ASSUME HoldInv, NEW c \in Task, NEW m \in Mutexes, UnlockCall(c, m)
    PROVE  HoldInv'
  <1>1. WaitInv' /\ WaitInv
    BY UnlockCallWait DEF HoldInv
  <1>2. UNCHANGED <<k, owner, spoilt>> /\ pc[c] = "run" /\ owner[m] = c
    BY DEF UnlockCall, At
  <1>3. \/ UNCHANGED <<pc, arg, held>>
        \/ /\ Goto(c, "unlock") /\ With(c, [NoArg EXCEPT !.m = m])
           /\ held' = [held EXCEPT ![c] = held[c] \ {m}]
    BY DEF UnlockCall
  <1>4. [NoArg EXCEPT !.m = m] \in Arg /\ [NoArg EXCEPT !.m = m].m = m
        /\ held[c] \ {m} \in SUBSET Mutexes
    BY <1>1, NoArgIsArg DEF Arg, WaitInv, Types
  <1>5. spoilt = {} => Owns(c)'
    <2> SUFFICES ASSUME spoilt = {} PROVE Owns(c)'
      OBVIOUS
    <2>1. Owns(c)
      BY DEF HoldInv
    <2>2. CASE UNCHANGED <<pc, arg, held>>
      BY <1>2, <2>1, <2>2, OwnsFree DEF Owns
    <2>3. CASE /\ Goto(c, "unlock") /\ With(c, [NoArg EXCEPT !.m = m])
               /\ held' = [held EXCEPT ![c] = held[c] \ {m}]
      <3>1. pc'[c] = "unlock" /\ arg'[c].m = m /\ held'[c] = held[c] \ {m}
        BY <1>1, <1>4, <2>3 DEF Goto, With, WaitInv, Types
      <3>2. QED
        BY <1>2, <2>1, <3>1 DEF Owns
    <2>4. QED
      BY <1>3, <2>2, <2>3
  <1>6. QED
    BY <1>1, <1>2, <1>3, <1>4, <1>5, QuietHold, Places

\* A free mutex is held by nobody.
LEMMA TryLockFreeHold ==
    ASSUME HoldInv, NEW c \in Task, TryLockFree(c)
    PROVE  HoldInv'
  <1> DEFINE m == arg[c].m
  <1>1. WaitInv' /\ WaitInv
    BY TryLockFreeWait DEF HoldInv
  <1>2. m \in Mutexes /\ owner[m] = -1 /\ -1 \notin Task
    BY <1>1 DEF WaitInv, ArgsOK, TryLockFree, At, Task
  <1>3. /\ owner' = [owner EXCEPT ![m] = c] /\ k' = Elevated(c, m) /\ spoilt' = spoilt
        /\ held' = [held EXCEPT ![c] = held[c] \cup {m}] /\ Goto(c, "run") /\ With(c, NoArg)
    BY DEF TryLockFree, Back
  <1> HIDE DEF m
  <1>4. k'.active = k.active /\ k'.block = k.block /\ k'.timed = k.timed
    BY <1>1, <1>3 DEF Elevated, WaitInv, Runs, Kernel
  <1>5. ASSUME spoilt = {}, NEW t \in Task PROVE Owns(t)'
    <2>1. Owns(t) /\ KeepsOwn(t) /\ SleepsOn(t)
      BY <1>1, <1>2, <1>3, <1>4, <1>5 DEF HoldInv, KeepsOwn, SleepsOn, WaitInv, Types
    <2>2. CASE t = c
      <3>1. pc'[c] = "run" /\ held'[c] = held[c] \cup {m} /\ held[c] \subseteq Mutexes
        BY <1>1, <1>3 DEF Goto, WaitInv, Types
      <3>2. \A i \in held'[c] : owner'[i] = c
        BY <1>1, <1>2, <1>3, <2>1, <2>2, <3>1 DEF Owns, WaitInv, Types
      <3>3. QED
        BY <2>2, <3>1, <3>2, OwnsFree
    <2>3. CASE t # c
      <3>1. Elsewhere(t)
        BY <1>1, <1>3, <2>3 DEF Elsewhere, Goto, With, WaitInv, Types
      <3>2. QED
        BY <1>1, <2>1, <3>1, OwnsOn
    <2>4. QED
      BY <2>2, <2>3
  <1>6. QED
    BY <1>1, <1>3, <1>5 DEF HoldInv

LEMMA TryLockBlockHold ==
    ASSUME HoldInv, NEW c \in Task, TryLockBlock(c)
    PROVE  HoldInv'
  <1> DEFINE m == arg[c].m
  <1>1. WaitInv' /\ WaitInv /\ Runs(k) /\ k \in Kernel /\ k.current = c
    BY TryLockBlockWait, Running DEF HoldInv, TryLockBlock, At
  <1>2. m \in Mutexes
    BY <1>1 DEF WaitInv, ArgsOK, TryLockBlock, At
  <1>3. PICK kind \in Timeouts(arg[c].how) : k' \in Return(TimedBlock(k, MutexObj(m), kind))
    BY DEF TryLockBlock
  <1>4. Goto(c, "blocked") /\ UNCHANGED <<arg, owner, held, spoilt>>
    BY DEF TryLockBlock
  <1>5. arg[c].how = "lock" => kind = "never"
    BY <1>3 DEF Timeouts
  <1>6. m = arg[c].m
    OBVIOUS
  <1> HIDE DEF m
  <1>7. MutexObj(m) \in Object /\ MutexObj(m) # NULL
    BY <1>2, MutexObject
  <1>8. /\ k'.active = k.active \ {c} /\ k'.block = [k.block EXCEPT ![c] = MutexObj(m)]
        /\ kind = "never" => k'.timed = k.timed \ {c}
    BY <1>1, <1>3, <1>7, BlockRuns
  <1>9. spoilt' = {} => Owns(c)'
    <2> SUFFICES ASSUME spoilt = {} PROVE Owns(c)'
      BY <1>4
    <2>1. Owns(c) /\ pc[c] = "trylock"
      BY DEF HoldInv, TryLockBlock, At
    <2>2. pc'[c] = "blocked" /\ c \notin k'.active /\ k'.block[c] = MutexObj(m)
      BY <1>1, <1>4, <1>8 DEF Goto, WaitInv, Types, Kernel
    <2>3. arg'[c].how = "lock" => c \notin k'.timed
      BY <1>4, <1>5, <1>8
    <2>4. QED
      BY <1>4, <1>6, <2>1, <2>2, <2>3 DEF Owns, MutexObj
  <1>10. ASSUME NEW t \in Task, t # c PROVE Elsewhere(t) /\ SleepsOn(t)
    <2>1. Elsewhere(t)
      BY <1>1, <1>4, <1>10 DEF Elsewhere, Goto, WaitInv, Types
    <2>2. SleepsOn(t)
      BY <1>1, <1>3, <1>7, <1>10, SleepSleepsOn
    <2>3. QED
      BY <2>1, <2>2
  <1>11. QED
    BY <1>1, <1>4, <1>9, <1>10, OwnStep
-----------------------------------------------------------------------------
\* Threads that sleep or send signals.
LEMMA SleepHold ==
    ASSUME HoldInv, NEW c \in Task, Sleep(c)
    PROVE  HoldInv'
  <1>1. WaitInv' /\ WaitInv /\ Runs(k) /\ k \in Kernel /\ k.current = c
    BY SleepWait, Running DEF HoldInv, Sleep, At
  <1>2. /\ k' \in Return(TimedBlock(k, NULL, "future")) /\ NULL \in Object /\ pc[c] = "run"
        /\ UNCHANGED <<pc, arg, owner, held, spoilt>>
    BY MutexObject DEF Sleep, At
  <1>3. spoilt' = {} => Owns(c)'
    BY <1>2, OwnsFree DEF HoldInv, Owns
  <1>4. ASSUME NEW t \in Task, t # c PROVE Elsewhere(t) /\ SleepsOn(t)
    <2>1. SleepsOn(t)
      BY <1>1, <1>2, <1>4, SleepSleepsOn
    <2>2. QED
      BY <1>2, <2>1 DEF Elsewhere
  <1>5. QED
    BY <1>1, <1>2, <1>3, <1>4, OwnStep

LEMMA SignalHold ==
    ASSUME HoldInv, NEW c \in Task, NEW t \in Task, Signal(c, t)
    PROVE  HoldInv'
  <1>1. WaitInv'
    BY SignalWait DEF HoldInv
  <1>2. spoilt' # {}
    BY DEF Signal
  <1>3. QED
    BY <1>1, <1>2 DEF HoldInv

-----------------------------------------------------------------------------
\* The mutex passes from its owner c, which has given it up, to a thread n that
\* sleeps for it, or becomes free.
LEMMA HandedHold ==
    ASSUME HoldInv, NEW c \in Task, spoilt' = {}, spoilt = {},
           NEW m \in Mutexes, NEW n \in Task \cup {-1}, n # c,
           owner[m] = c, owner' = [owner EXCEPT ![m] = n],
           pc'[c] \notin {"unlock", "blocked"}, held'[c] = held[c] \ {m},
           \A t \in Task : t # c => Elsewhere(t),
           \A t \in Task : t # c /\ t # n => SleepsOn(t),
           n # -1 => n \in BlockedOn(k, MutexObj(m)) /\ n \in k'.active
    PROVE  \A t \in Task : Owns(t)'
  <1> SUFFICES ASSUME NEW t \in Task PROVE Owns(t)'
    OBVIOUS
  <1>1. WaitInv /\ Owns(t)
    BY DEF HoldInv
  <1>2. owner \in [Mutexes -> Task \cup {-1}] /\ held[t] \subseteq Mutexes
    BY <1>1 DEF WaitInv, Types
  <1>3. t # c => KeepsOwn(t)
    BY <1>2 DEF KeepsOwn
  <1>4. CASE t = c
    <2>1. \A i \in held'[c] : owner'[i] = c
      BY <1>1, <1>2, <1>4 DEF Owns
    <2>2. QED
      BY <1>4, <2>1, OwnsFree
  <1>5. CASE t # c /\ t # n
    BY <1>1, <1>3, <1>5, OwnsOn
  <1>6. CASE t # c /\ t = n
    <2>1. n # -1
      BY <1>6 DEF Task
    <2>2. pc[n] = "blocked" /\ arg[n].m = m
      BY <1>1, <1>6, <2>1 DEF BlockedOn, WaitInv, WaitersKnown
    <2>3. pc'[n] = "blocked" /\ arg'[n].m = m /\ held'[n] = held[n] /\ owner'[m] = n
      BY <1>2, <1>6, <2>2 DEF Elsewhere
    <2>4. \A i \in held'[n] : owner'[i] = n
      BY <1>1, <1>2, <1>3, <1>6, <2>3 DEF Owns, KeepsOwn
    <2>5. QED
      BY <1>6, <2>1, <2>3, <2>4 DEF Owns
  <1>7. QED
    BY <1>4, <1>5, <1>6

\* What pthread_mutex_unlock() does to the sleepers.
LEMMA UnlockTable ==
    ASSUME WaitInv, NEW c \in Task, UnlockHandOff(c) \/ UnlockFree(c)
    PROVE  LET m == arg[c].m
               n == Waiter(m)
           IN  /\ m \in Mutexes /\ c \in k.active /\ NoNewWaiter
               /\ owner' = [owner EXCEPT ![m] = n]
               /\ \/ n = -1 /\ BlockedOn(k, MutexObj(m)) = {}
                  \/ n \in BlockedOn(k, MutexObj(m)) /\ n \in Task /\ n # -1
               /\ n # c
               /\ \A t \in Task : t # c /\ t # n => SleepsOn(t)
               /\ n # -1 => n \in k'.active
  <1> DEFINE m == arg[c].m
             n == Waiter(m)
             K == [Restored(c) EXCEPT !.prio[n] = Ceiling[m]]
  <1>1. c \in k.active /\ Runs(k) /\ k \in Kernel
    BY Running DEF UnlockHandOff, UnlockFree, At
  <1>2. m \in Mutexes /\ pc[c] = "unlock"
    BY <1>1 DEF WaitInv, ArgsOK, UnlockHandOff, UnlockFree, At
  <1>3. owner' = [owner EXCEPT ![m] = n]
    BY DEF UnlockHandOff, UnlockFree, NewOwner
  <1>4. \/ n = -1 /\ BlockedOn(k, MutexObj(m)) = {}
        \/ n \in BlockedOn(k, MutexObj(m)) /\ n \in Task /\ n # -1
    BY <1>1, <1>2, WaiterFound
  <1>5. n # c
    BY <1>1, <1>4 DEF BlockedOn, Task
  <1>6. /\ Runs(Restored(c)) /\ Restored(c).used = k.used /\ Restored(c).active = k.active
        /\ Restored(c).timed = k.timed
        /\ \A t \in Task : t # c => Restored(c).block[t] = k.block[t]
    BY <1>1, RestoredRuns
  <1>7. /\ \A t \in Task : t # c /\ t # n => SleepsOn(t)
        /\ n # -1 => n \in k'.active
        /\ NoNewWaiter
    <2>1. CASE UnlockHandOff(c)
      <3>1. n # -1 /\ n \in Task
        BY <1>4, <2>1 DEF UnlockHandOff
      <3>2. Ceiling[m] \in Priority /\ Ceiling[m] \in NoPriority .. HighestPriority
        <4>1. Ceiling[m] \in Priority
          BY <1>2, MutexAssumption
        <4>2. QED
          BY <4>1, TableAssumption DEF Priority, NoPriority
      <3>3. k' \in Return(UpdateOnWake(AssertActive(K, {n}, "MUTEX"), Ceiling[m]))
        BY <2>1 DEF UnlockHandOff, HandedOff
      <3> HIDE DEF m, n
      <3>4. Runs(K) /\ K.used = Restored(c).used /\ K.active = Restored(c).active
            /\ K.block = Restored(c).block /\ K.timed = Restored(c).timed
        BY <1>6, <3>1, <3>2 DEF Runs, Kernel, Ready
      <3> HIDE DEF K
      <3>5. K.used = k.used /\ K.active = k.active /\ K.timed = k.timed
            /\ {n} \in SUBSET Task
            /\ "MUTEX" \in UnblockType
        BY <1>6, <3>1, <3>4 DEF UnblockType
      <3>6. ASSUME NEW t \in Task, t # c, t # n PROVE SleepsOn(t)
        <4>1. t \notin {n} /\ K.block[t] = k.block[t]
          BY <1>6, <3>4, <3>6
        <4>2. QED
          BY <3>2, <3>3, <3>4, <3>5, <4>1, WakeSleepsOn
      <3>7. n \in k'.active /\ NoNewWaiter
        <4>1. \A t \in Task : t \notin k.active => K.block[t] = k.block[t]
          BY <1>1, <1>6, <3>4
        <4>2. k'.active = k.active \cup {n} /\ NoNewWaiter
          BY <1>1, <3>2, <3>3, <3>4, <3>5, <4>1, WakeNoWaiter
        <4>3. QED
          BY <4>2
      <3>8. QED
        BY <3>6, <3>7
    <2>2. CASE UnlockFree(c)
      <3>1. n = -1 /\ k' \in Return(Unlocked(c))
        BY <2>2 DEF UnlockFree
      <3>2. Restored(c).cur \in NoPriority .. HighestPriority
        BY <1>6 DEF Runs, Kernel
      <3>3. Runs(Unlocked(c)) /\ Entries(Unlocked(c)) = Entries(Restored(c))
        BY <1>6, <3>2, UpdateOnWakeRuns DEF Unlocked
      <3>4. Entries(k') = Entries(Unlocked(c))
        BY <3>1, <3>3, ReturnRuns DEF Runs
      <3>5. k'.used = k.used /\ k'.active = k.active /\ k'.block = Restored(c).block /\ k'.timed = k.timed
        BY <1>6, <3>3, <3>4 DEF Entries
      <3>6. QED
        BY <1>1, <1>6, <3>1, <3>5 DEF SleepsOn, NoNewWaiter, Sleeping
    <2>3. QED
      BY <2>1, <2>2
  <1>8. QED
    BY <1>1, <1>2, <1>3, <1>4, <1>5, <1>7

LEMMA UnlockHold ==
    ASSUME HoldInv, NEW c \in Task, UnlockHandOff(c) \/ UnlockFree(c)
    PROVE  HoldInv'
  <1> DEFINE m == arg[c].m
             n == Waiter(m)
  <1>1. WaitInv' /\ WaitInv
    BY UnlockWait DEF HoldInv
  <1>2. /\ Goto(c, "run") /\ With(c, NoArg) /\ pc[c] = "unlock"
        /\ held' = held /\ spoilt' = spoilt
    BY DEF UnlockHandOff, UnlockFree, Back, At
  <1>3. /\ m \in Mutexes /\ owner' = [owner EXCEPT ![m] = n]
        /\ n = -1 \/ (n \in BlockedOn(k, MutexObj(m)) /\ n \in Task)
        /\ n # c
        /\ \A t \in Task : t # c /\ t # n => SleepsOn(t)
        /\ n # -1 => n \in k'.active
    BY <1>1, UnlockTable
  <1>4. ASSUME NEW t \in Task, t # c PROVE Elsewhere(t)
    BY <1>1, <1>2, <1>4 DEF Elsewhere, Goto, With, WaitInv, Types
  <1>5. pc'[c] = "run"
    BY <1>1, <1>2 DEF Goto, WaitInv, Types
  <1>6. ASSUME spoilt' = {} PROVE \A t \in Task : Owns(t)'
    <2>1. Owns(c)
      BY <1>2, <1>6 DEF HoldInv
    <2>2. owner[m] = c /\ held'[c] = held[c] \ {m}
      BY <1>2, <2>1 DEF Owns
    <2> HIDE DEF m, n
    <2>3. n \in Task \cup {-1}
      BY <1>3
    <2>4. QED
      BY <1>2, <1>3, <1>4, <1>5, <1>6, <2>2, <2>3, HandedHold
  <1>7. QED
    BY <1>1, <1>6 DEF HoldInv

-----------------------------------------------------------------------------
\* Conditions.
LEMMA CondWaitCallHold ==
    ASSUME HoldInv, NEW c \in Task, NEW v \in Conds, NEW m \in Mutexes,
           NEW how \in {"lock", "timed"}, CondWaitCall(c, v, m, how)
    PROVE  HoldInv'
  <1> DEFINE a == [m |-> m, v |-> v, how |-> how, new_thread |-> Waiter(m)]
  <1>1. WaitInv' /\ WaitInv /\ Waiter(m) \in Task \cup {-1}
    BY CondWaitCallWait, WaiterFound DEF HoldInv
  <1>2. a \in Arg
    BY <1>1 DEF Arg, How
  <1>3. With(c, a) /\ Goto(c, "condwait") /\ UNCHANGED <<k, owner, held, spoilt>>
    BY DEF CondWaitCall
  <1> HIDE DEF a
  <1>4. spoilt = {} => Owns(c)'
    BY <1>1, <1>3, OwnsFree DEF HoldInv, Owns, Goto, WaitInv, Types
  <1>5. QED
    BY <1>1, <1>2, <1>3, <1>4, QuietHold, Places

\* What pthread_cond_wait() does to the sleepers.
LEMMA CondWaitTable ==
    ASSUME WaitInv, NEW c \in Task, CondWait(c)
    PROVE  LET m == arg[c].m
               n == arg[c].new_thread
           IN  /\ m \in Mutexes /\ n \in Task \cup {-1} /\ c \in k.active /\ NoNewWaiter
               /\ owner[m] = c /\ owner' = [owner EXCEPT ![m] = n]
               /\ \A t \in Task : t # c /\ t # n => SleepsOn(t)
               /\ "heir" \notin spoilt' =>
                     /\ n = -1 => BlockedOn(k, MutexObj(m)) = {}
                     /\ n # -1 => n \in BlockedOn(k, MutexObj(m)) /\ n # c /\ n \in k'.active
  <1> DEFINE m   == arg[c].m
             n   == arg[c].new_thread
             obj == CondObj(arg[c].v)
             K   == LeftTo(c, m, n)
  <1>1. c \in k.active /\ Runs(k) /\ k \in Kernel /\ k.current = c
    BY Running DEF CondWait, At
  <1>2. m \in Mutexes /\ n \in Task \cup {-1} /\ arg[c].v \in Conds
    BY <1>1 DEF WaitInv, Types, ArgsOK, CondWait, At, Arg
  <1>3. /\ owner[m] = c /\ owner' = [owner EXCEPT ![m] = n]
        /\ spoilt' = IF n \in BlockedOn(k, MutexObj(m)) \/ n = Waiter(m)
                     THEN spoilt ELSE spoilt \cup {"heir"}
    BY DEF CondWait
  <1>4. PICK kind : k' \in Return(TimedBlock(K, obj, kind))
    BY DEF CondWait, LeftTo
  <1>5. obj \in Object /\ obj # NULL /\ \A i \in Mutexes : obj # MutexObj(i)
    BY <1>2, MutexObject
  <1> HIDE DEF m, n, obj
  <1>6. /\ Runs(K) /\ K.used = k.used /\ K.current = c
        /\ K.active = k.active \cup (IF n # -1 THEN {n} ELSE {})
        /\ K.timed \subseteq k.timed
        /\ \A t \in Task : t # n => K.block[t] = k.block[t]
    BY <1>1, <1>2, LeftRuns
  <1> HIDE DEF K
  <1>7. NoNewWaiter /\ k'.active = K.active \ {c}
    <2>1. \A t \in Task : t \notin K.active => t # n
      BY <1>6 DEF Task
    <2>2. \A t \in Task : t \notin K.active => K.block[t] = k.block[t]
      BY <1>6, <2>1
    <2>3. Runs(K) /\ K.current \in Task /\ K.used = k.used /\ k.active \subseteq K.active
      BY <1>6
    <2>4. NoNewWaiter /\ k'.active = K.active \ {K.current}
      BY <1>1, <1>4, <1>5, <2>2, <2>3, SleepNoWaiter
    <2>5. QED
      BY <1>6, <2>4
  <1>8. ASSUME NEW t \in Task, t # c, t # n PROVE SleepsOn(t)
    <2>1. /\ t \in K.active <=> t \in k.active
          /\ t \in K.timed => t \in k.timed
          /\ K.block[t] = k.block[t]
      BY <1>6, <1>8
    <2>2. QED
      BY <1>4, <1>5, <1>6, <1>8, <2>1, SleepSleepsOn
  <1>9. ASSUME "heir" \notin spoilt'
        PROVE  /\ n = -1 => BlockedOn(k, MutexObj(m)) = {}
               /\ n # -1 => n \in BlockedOn(k, MutexObj(m)) /\ n # c /\ n \in k'.active
    <2>1. n \in BlockedOn(k, MutexObj(m)) \/ n = Waiter(m)
      BY <1>3, <1>9
    <2>2. \/ n = -1 /\ BlockedOn(k, MutexObj(m)) = {}
          \/ n \in BlockedOn(k, MutexObj(m)) /\ n # -1
      <3>1. -1 \notin BlockedOn(k, MutexObj(m))
        BY <1>1 DEF BlockedOn, Kernel, Task
      <3>2. QED
        BY <1>2, <2>1, <3>1, WaiterFound
    <2>3. n \in BlockedOn(k, MutexObj(m)) => n # c
      BY <1>1 DEF BlockedOn
    <2>4. QED
      BY <1>6, <1>7, <2>2, <2>3
  <1>10. QED
    BY <1>1, <1>2, <1>3, <1>7, <1>8, <1>9 DEF m, n

LEMMA CondWaitHold ==
    ASSUME HoldInv, NEW c \in Task, CondWait(c)
    PROVE  HoldInv'
  <1> DEFINE m == arg[c].m
             n == arg[c].new_thread
  <1>1. WaitInv' /\ WaitInv
    BY CondWaitWait DEF HoldInv
  <1>2. /\ held' = [held EXCEPT ![c] = held[c] \ {m}]
        /\ Goto(c, "waiting") /\ arg' = arg /\ spoilt \subseteq spoilt'
    BY DEF CondWait
  <1>3. /\ m \in Mutexes /\ n \in Task \cup {-1}
        /\ owner[m] = c /\ owner' = [owner EXCEPT ![m] = n]
        /\ \A t \in Task : t # c /\ t # n => SleepsOn(t)
        /\ "heir" \notin spoilt' =>
              (n # -1 => n \in BlockedOn(k, MutexObj(m)) /\ n # c /\ n \in k'.active)
    BY <1>1, CondWaitTable
  <1> HIDE DEF m, n
  <1>4. ASSUME NEW t \in Task, t # c PROVE Elsewhere(t)
    BY <1>1, <1>2, <1>4 DEF Elsewhere, Goto, WaitInv, Types
  <1>5. pc'[c] = "waiting" /\ held'[c] = held[c] \ {m}
    BY <1>1, <1>2 DEF Goto, WaitInv, Types
  <1>6. ASSUME spoilt' = {} PROVE \A t \in Task : Owns(t)'
    <2>1. spoilt = {} /\ n # c
      BY <1>2, <1>3, <1>6 DEF Task
    <2>2. QED
      BY <1>3, <1>4, <1>5, <1>6, <2>1, HandedHold
  <1>7. QED
    BY <1>1, <1>6 DEF HoldInv

LEMMA CondSignalCallHold ==
    ASSUME HoldInv, NEW c \in Task, NEW v \in Conds, CondSignalCall(c, v)
    PROVE  HoldInv'
  <1> DEFINE a == [NoArg EXCEPT !.v = v, !.new_thread = HighestPriorityBlocked(k, CondObj(v))]
  <1>1. WaitInv' /\ WaitInv /\ Runs(k) /\ k \in Kernel
    BY CondSignalCallWait DEF HoldInv, WaitInv, Runs
  <1>2. HighestPriorityBlocked(k, CondObj(v)) \in Task
    <2>1. HighestPriorityBlocked(k, CondObj(v)) # -1
      BY DEF CondSignalCall
    <2>2. HighestPriorityBlocked(k, CondObj(v)) \in BlockedOn(k, CondObj(v))
      BY <1>1, <2>1, HighestPriorityBlockedTask
    <2>3. QED
      BY <1>1, <2>2 DEF BlockedOn, Kernel
  <1>3. a \in Arg
    BY <1>2, NoArgIsArg DEF Arg
  <1>4. With(c, a) /\ Goto(c, "condsignal") /\ UNCHANGED <<k, owner, held, spoilt>>
    BY DEF CondSignalCall
  <1> HIDE DEF a
  <1>5. spoilt = {} => Owns(c)'
    BY <1>1, <1>4, OwnsFree DEF HoldInv, Owns, Goto, WaitInv, Types
  <1>6. QED
    BY <1>1, <1>3, <1>4, <1>5, QuietHold, Places

\* Threads that wait for a condition are woken, or c itself.
LEMMA WakeConditionHold ==
    ASSUME HoldInv, NEW c \in Task, WaitInv', owner' = owner, held' = held,
           spoilt \subseteq spoilt',
           NEW S \in SUBSET Task, NEW p \in NoPriority .. HighestPriority, NEW v,
           spoilt' = {} => S \subseteq BlockedOn(k, CondObj(v)),
           k' \in Return(UpdateOnWake(AssertActive(k, S, "COND"), p)),
           pc[c] \notin {"unlock", "blocked"},
           (Goto(c, "run") /\ With(c, NoArg)) \/ UNCHANGED <<pc, arg>>
    PROVE  HoldInv'
  <1>1. WaitInv /\ Runs(k) /\ k \in Kernel /\ "COND" \in UnblockType
    BY DEF HoldInv, WaitInv, Runs, UnblockType
  <1>2. k'.active = k.active \cup S
    BY <1>1, WakeNoWaiter
  <1>3. ASSUME spoilt' = {}, NEW t \in Task PROVE Owns(t)'
    <2>1. Owns(t) /\ KeepsOwn(t)
      BY <1>3, SameOwner DEF HoldInv
    <2>2. CASE t = c
      <3>1. pc'[c] \notin {"unlock", "blocked"}
        BY <1>1 DEF Goto, WaitInv, Types
      <3>2. \A i \in held'[c] : owner'[i] = c
        BY <2>1, <2>2 DEF Owns
      <3>3. QED
        BY <2>2, <3>1, <3>2, OwnsFree
    <2>3. CASE t # c
      <3>1. Elsewhere(t)
        BY <1>1, <2>3 DEF Elsewhere, Goto, With, WaitInv, Types
      <3>2. CASE t \in S
        <4>1. t \notin k.active /\ k.block[t] = CondObj(v)
          BY <1>3, <3>2 DEF BlockedOn
        <4>2. pc[t] # "blocked"
          BY <2>1, <4>1 DEF Owns, CondObj, MutexObj
        <4>3. QED
          BY <1>1, <1>2, <2>1, <3>1, <3>2, <4>2, OwnsWoken
      <3>3. CASE t \notin S
        <4>1. SleepsOn(t)
          BY <1>1, <3>3, WakeSleepsOn
        <4>2. QED
          BY <1>1, <2>1, <3>1, <4>1, OwnsOn
      <3>4. QED
        BY <3>2, <3>3
    <2>4. QED
      BY <2>2, <2>3
  <1>4. QED
    BY <1>3 DEF HoldInv

LEMMA CondSignalHold ==
    ASSUME HoldInv, NEW c \in Task, CondSignal(c)
    PROVE  HoldInv'
  <1> DEFINE n == arg[c].new_thread
  <1>1. WaitInv' /\ WaitInv /\ k \in Kernel
    BY CondSignalWait DEF HoldInv, WaitInv, Runs
  <1>2. n \in Task /\ k.prio[n] \in NoPriority .. HighestPriority
    BY <1>1, Priorities DEF CondSignal, At, WaitInv, ArgsOK
  <1>3. /\ k' \in Return(UpdateOnWake(AssertActive(k, {n}, "COND"), k.prio[n]))
        /\ Goto(c, "run") /\ With(c, NoArg) /\ UNCHANGED <<owner, held>>
        /\ spoilt \subseteq spoilt' /\ pc[c] = "condsignal"
        /\ spoilt' = {} => n \in BlockedOn(k, CondObj(arg[c].v))
    BY DEF CondSignal, Back, At
  <1> HIDE DEF n
  <1>4. spoilt' = {} => {n} \subseteq BlockedOn(k, CondObj(arg[c].v))
    BY <1>3
  <1>5. {n} \in SUBSET Task
    BY <1>2
  <1>6. QED
    BY <1>1, <1>2, <1>3, <1>4, <1>5, WakeConditionHold

LEMMA CondBroadcastHold ==
    ASSUME HoldInv, NEW c \in Task, NEW v \in Conds, CondBroadcast(c, v)
    PROVE  HoldInv'
  <1> DEFINE S == BlockedOn(k, CondObj(v))
             p == TopPriority([k EXCEPT !.prio = k.base], S)
  <1>1. WaitInv' /\ k \in Kernel
    BY CondBroadcastWait DEF HoldInv, WaitInv, Runs
  <1>2. S \in SUBSET Task
    BY <1>1 DEF BlockedOn, Kernel
  <1>3. p \in NoPriority .. HighestPriority
    <2>1. [k EXCEPT !.prio = k.base] \in Kernel
      BY <1>1 DEF Kernel
    <2> HIDE DEF S
    <2>2. QED
      BY <1>2, <2>1, TopPriorityRange
  <1>4. /\ k' \in Return(UpdateOnWake(AssertActive(k, S, "COND"), p))
        /\ UNCHANGED <<pc, arg, owner, held, spoilt>> /\ pc[c] = "run"
    BY DEF CondBroadcast, UnblockAll, At
  <1>5. S \subseteq BlockedOn(k, CondObj(v))
    OBVIOUS
  <1> HIDE DEF S, p
  <1>6. QED
    BY <1>1, <1>2, <1>3, <1>4, <1>5, WakeConditionHold

LEMMA NextHold ==
    ASSUME HoldInv, [Next]_vars
    PROVE  HoldInv'
  <1>1. CASE SysTick \/ TimerMatch
    BY <1>1, EnvironmentHold
  <1>2. ASSUME NEW c \in Task, MutexStep(c) PROVE HoldInv'
    BY <1>2, LockCallHold, LockAgainHold, UnlockCallHold, TryLockFreeHold, TryLockBlockHold,
       ReturnsHold, UnlockHold DEF MutexStep
  <1>3. ASSUME NEW c \in Task, CondStep(c) PROVE HoldInv'
    BY <1>3, CondWaitCallHold, CondWaitHold, ReturnsHold, CondSignalHold, CondSignalCallHold,
       CondBroadcastHold DEF CondStep
  <1>4. ASSUME NEW c \in Task, Sleep(c) \/ \E t \in Task : Signal(c, t) PROVE HoldInv'
    BY <1>4, SleepHold, SignalHold
  <1>5. CASE UNCHANGED vars
    <2>1. WaitInv'
      BY <1>5, NextWait DEF HoldInv
    <2>2. QED
      BY <1>5, <2>1 DEF vars, HoldInv, Owns, MutexObj
  <1>6. QED
    BY <1>1, <1>2, <1>3, <1>4, <1>5 DEF Next

\* For any number of threads, mutexes and conditions, and whatever runs out of
\* time: a thread whose lock call has returned zero owns the mutex until it
\* unlocks it or waits with it, although pthread_mutex_lock() does not look at
\* the owner when it wakes up.
THEOREM HoldersOwn == Spec => []HolderOwnsUndisturbed
  <1>1. HoldInv => HolderOwnsUndisturbed
    BY DEF HoldInv, Owns, HolderOwnsUndisturbed
  <1>2. QED
    BY <1>1, InitHold, NextHold, PTL DEF Spec

-----------------------------------------------------------------------------
(* Every mutex implements HandOffLock.                                     *)
\* A thread that is about to unlock a mutex owns it.  Signals make no
\* difference: pthread_mutex_unlock() has looked.
UnlockersOwn == \A c \in Task : pc[c] = "unlock" => owner[arg[c].m] = c

LockInv == WaitInv /\ UnlockersOwn

-----------------------------------------------------------------------------
\* Nobody begins to wait and the owner stays: at most time-outs.
LEMMA OwnerStays ==
    ASSUME WaitInv, WaitInv', NoNewWaiter, NEW m \in Mutexes, owner'[m] = owner[m]
    PROVE  LockStep(m)
  <1>1. BlockedOn(k', MutexObj(m)) \subseteq BlockedOn(k, MutexObj(m))
    BY FewerBlocked DEF WaitInv, Runs
  <1>2. BlockedOn(k, MutexObj(m))' = BlockedOn(k', MutexObj(m))
    BY DEF BlockedOn, MutexObj
  <1>3. Lock(m)!GiveUp
    BY <1>1, <1>2 DEF Lock!GiveUp
  <1>4. QED
    BY <1>3 DEF LockStep, Lock!Next

\* A step that does not move the table, and no owner.
LEMMA QuietLock ==
    ASSUME WaitInv, WaitInv', UNCHANGED <<k, owner>>, NEW m \in Mutexes
    PROVE  LockStep(m)
  BY SameTable, OwnerStays

\* The threads that sleep on as before are blocked as before.
LEMMA BlockedOnStays ==
    ASSUME WaitInv, WaitInv', NEW m \in Mutexes, NEW t \in Task, SleepsOn(t)
    PROVE  t \in BlockedOn(k', MutexObj(m)) <=> t \in BlockedOn(k, MutexObj(m))
  <1>1. k.used = Task /\ k'.used = Task
    BY DEF WaitInv, Types
  <1>2. QED
    BY <1>1 DEF BlockedOn, SleepsOn

LEMMA BlockedThreads ==
    ASSUME WaitInv, WaitInv', NEW m \in Mutexes
    PROVE  /\ BlockedOn(k, MutexObj(m)) \subseteq Task
           /\ BlockedOn(k', MutexObj(m)) \subseteq Task
           /\ BlockedOn(k, MutexObj(m))' = BlockedOn(k', MutexObj(m))
           /\ -1 \notin Task
  <1>1. k.used = Task /\ k'.used = Task
    BY DEF WaitInv, Types
  <1>2. QED
    BY <1>1 DEF BlockedOn, MutexObj, Task

\* The running thread c gives m to n, or leaves it free.
LEMMA HandedLock ==
    ASSUME WaitInv, WaitInv', NoNewWaiter, NEW c \in Task, c \in k.active,
           NEW m \in Mutexes, NEW n \in Task \cup {-1},
           owner[m] = c, owner' = [owner EXCEPT ![m] = n],
           \A t \in Task : t # c /\ t # n => SleepsOn(t),
           "heir" \notin spoilt' =>
              /\ n = -1 => BlockedOn(k, MutexObj(m)) = {}
              /\ n # -1 => n \in BlockedOn(k, MutexObj(m)) /\ n # c /\ n \in k'.active,
           NEW i \in Mutexes
    PROVE  LockStep(i)
  <1> DEFINE W == BlockedOn(k, MutexObj(m))
             V == BlockedOn(k', MutexObj(m))
  <1>0. owner \in [Mutexes -> Task \cup {-1}] /\ k \in Kernel /\ k' \in Kernel
    BY DEF WaitInv, Types, Runs
  <1>1. CASE i # m
    <2>1. owner'[i] = owner[i]
      BY <1>0, <1>1
    <2>2. QED
      BY <2>1, OwnerStays
  <1>2. CASE i = m /\ "heir" \in spoilt'
    BY <1>2 DEF LockStep
  <1>3. CASE i = m /\ "heir" \notin spoilt'
    <2>1. owner'[m] = n /\ owner[m] # -1
      BY <1>0, BlockedThreads
    <2>2. V \subseteq W /\ c \notin W
      BY <1>0, FewerBlocked DEF BlockedOn
    <2>3. W \subseteq Task /\ V \subseteq Task /\ BlockedOn(k, MutexObj(m))' = V /\ -1 \notin Task
      BY BlockedThreads
    <2>4. \A t \in Task : t # c /\ t # n => (t \in V <=> t \in W)
      BY BlockedOnStays
    <2>5. n # -1 => n \notin V /\ n \in W
      BY <1>3 DEF BlockedOn
    <2>6. n = -1 => W = {}
      BY <1>3
    <2> HIDE DEF V, W
    <2>7. CASE n = -1
      <3>1. W = {} /\ V = W
        BY <2>2, <2>6, <2>7
      <3>2. Lock(m)!Release
        BY <2>1, <2>3, <2>7, <3>1 DEF Lock!Release, Lock!Nobody, W
      <3>3. QED
        BY <1>3, <3>2 DEF LockStep, Lock!Next
    <2>8. CASE n # -1
      <3>1. V = W \ {n} /\ n \in W
        BY <2>2, <2>3, <2>4, <2>5, <2>8
      <3>2. Lock(m)!Release
        BY <2>1, <2>3, <3>1 DEF Lock!Release, Lock!Nobody, W
      <3>3. QED
        BY <1>3, <3>2 DEF LockStep, Lock!Next
    <2>9. QED
      BY <2>7, <2>8
  <1>4. QED
    BY <1>1, <1>2, <1>3

-----------------------------------------------------------------------------
\* Threads reach pthread_mutex_unlock()'s privileged call as owners, and nobody
\* takes the mutex from them.
LEMMA UnlockersStay ==
    ASSUME LockInv, WaitInv', NEW c \in Task,
           MutexStep(c) \/ CondStep(c) \/ Sleep(c) \/ \E t \in Task : Signal(c, t)
    PROVE  UnlockersOwn'
  <1>0. /\ UnlockersOwn /\ Types /\ ArgsOK
        /\ owner \in [Mutexes -> Task \cup {-1}] /\ pc \in [Task -> PC] /\ arg \in [Task -> Arg]
    BY DEF LockInv, WaitInv, Types
  <1>1. CASE UNCHANGED <<pc, arg, owner>>
    BY <1>0, <1>1 DEF UnlockersOwn
  <1>2. CASE \E l \in PC \ {"unlock"} : Goto(c, l) /\ owner' = owner
                /\ \A t \in Task : t # c => arg'[t] = arg[t]
    BY <1>0, <1>2 DEF UnlockersOwn, Goto
  <1>3. CASE \E m \in Mutexes : UnlockCall(c, m)
    <2>1. PICK m \in Mutexes : UnlockCall(c, m)
      BY <1>3
    <2>2. CASE Goto(c, "unlock") /\ With(c, [NoArg EXCEPT !.m = m])
      <3>1. pc'[c] = "unlock" /\ arg'[c].m = m /\ owner'[m] = c
        BY <1>0, <2>1, <2>2, NoArgIsArg DEF UnlockCall, Goto, With, Arg
      <3>2. \A t \in Task : t # c => pc'[t] = pc[t] /\ arg'[t] = arg[t]
        BY <1>0, <2>2 DEF Goto, With
      <3>3. owner' = owner
        BY <2>1 DEF UnlockCall
      <3>4. QED
        BY <1>0, <3>1, <3>2, <3>3 DEF UnlockersOwn
    <2>3. QED
      BY <1>1, <2>1, <2>2 DEF UnlockCall
  <1>4. CASE TryLockFree(c) \/ CondWait(c) \/ UnlockHandOff(c) \/ UnlockFree(c)
    <2> DEFINE m == arg[c].m
    <2>1. /\ m \in Mutexes /\ owner[m] \in {-1, c}
          /\ \E n : owner' = [owner EXCEPT ![m] = n]
          /\ \E l \in PC \ {"unlock"} : Goto(c, l)
          /\ \A t \in Task : t # c => arg'[t] = arg[t]
      BY <1>0, <1>4 DEF TryLockFree, CondWait, UnlockHandOff, UnlockFree, NewOwner, Back,
         With, Goto, PC, At, ArgsOK, UnlockersOwn
    <2> HIDE DEF m
    <2>2. SUFFICES ASSUME NEW t \in Task, pc'[t] = "unlock" PROVE owner'[arg'[t].m] = t
      BY DEF UnlockersOwn
    <2>3. t # c /\ pc[t] = "unlock" /\ arg'[t] = arg[t]
      BY <1>0, <2>1, <2>2 DEF Goto
    <2>4. owner[arg[t].m] = t /\ arg[t].m \in Mutexes /\ t # -1
      BY <1>0, <2>3 DEF UnlockersOwn, ArgsOK, Task
    <2>5. arg[t].m # m
      BY <2>1, <2>3, <2>4
    <2>6. QED
      BY <1>0, <2>1, <2>3, <2>4, <2>5
  <1>5. ASSUME TryLockBusy(c) \/ TryLockBlock(c) \/ LockWoken(c) \/ CondWaitDenied(c)
               \/ CondWoken(c) \/ CondSignal(c)
        PROVE  UnlockersOwn'
    BY <1>0, <1>2, <1>5 DEF TryLockBusy, TryLockBlock, LockWoken, CondWaitDenied, CondWoken,
       CondSignal, Back, With, PC
  <1>6. ASSUME \/ \E m \in Mutexes, how \in How : LockCall(c, m, how)
               \/ \E v \in Conds, m \in Mutexes, how \in {"lock", "timed"} :
                     CondWaitCall(c, v, m, how)
               \/ \E v \in Conds : CondSignalCall(c, v)
        PROVE  UnlockersOwn'
    BY <1>0, <1>2, <1>6 DEF LockCall, CondWaitCall, CondSignalCall, With, PC
  <1>7. ASSUME \/ \E m \in Mutexes : LockAgain(c, m) \/ UnlockDenied(c, m)
               \/ \E v \in Conds : CondBroadcast(c, v)
               \/ Sleep(c) \/ \E t \in Task : Signal(c, t)
        PROVE  UnlockersOwn'
    BY <1>1, <1>7 DEF LockAgain, UnlockDenied, CondBroadcast, Sleep, Signal
  <1>8. QED
    BY <1>3, <1>4, <1>5, <1>6, <1>7 DEF MutexStep, CondStep

LEMMA InitLock == Init => LockInv
  BY InitWait DEF Init, LockInv, UnlockersOwn

LEMMA NextLock ==
    ASSUME LockInv, [Next]_vars
    PROVE  LockInv'
  <1>1. WaitInv'
    BY NextWait DEF LockInv
  <1>2. CASE SysTick \/ TimerMatch \/ UNCHANGED vars
    BY <1>1, <1>2 DEF SysTick, TimerMatch, vars, LockInv, UnlockersOwn
  <1>3. CASE \E c \in Task : MutexStep(c) \/ CondStep(c) \/ Sleep(c) \/ \E t \in Task : Signal(c, t)
    BY <1>1, <1>3, UnlockersStay DEF LockInv
  <1>4. QED
    BY <1>2, <1>3 DEF Next
-----------------------------------------------------------------------------
\* A free mutex is taken only when nobody waits for it.
LEMMA TakenLock ==
    ASSUME LockInv, WaitInv', NEW c \in Task, TryLockFree(c), NEW i \in Mutexes
    PROVE  LockStep(i)
  <1> DEFINE m == arg[c].m
             W == BlockedOn(k, MutexObj(m))
  <1>1. m \in Mutexes /\ owner[m] = -1 /\ owner' = [owner EXCEPT ![m] = c] /\ spoilt' = spoilt
    BY DEF TryLockFree, At, LockInv, WaitInv, ArgsOK
  <1>2. k' = Elevated(c, m)
    BY DEF TryLockFree
  <1>3. k'.used = k.used /\ k'.active = k.active /\ k'.block = k.block
    BY <1>2 DEF Elevated, LockInv, WaitInv, Runs, Kernel
  <1> HIDE DEF m
  <1>4. NoNewWaiter /\ BlockedOn(k', MutexObj(m)) = W
    BY <1>3 DEF NoNewWaiter, Sleeping, BlockedOn
  <1>5. owner \in [Mutexes -> Task \cup {-1}]
    BY DEF LockInv, WaitInv, Types
  <1>6. CASE i # m
    <2>1. owner'[i] = owner[i]
      BY <1>1, <1>5, <1>6
    <2>2. QED
      BY <1>4, <2>1, OwnerStays DEF LockInv
  <1>7. CASE i = m /\ "heir" \in spoilt'
    BY <1>7 DEF LockStep
  <1>8. CASE i = m /\ "heir" \notin spoilt'
    <2>1. BlockedOn(k, MutexObj(i))' = BlockedOn(k', MutexObj(i))
      BY BlockedThreads DEF LockInv
    <2>2. /\ owner'[i] = c /\ owner[i] = -1
          /\ BlockedOn(k, MutexObj(i))' = BlockedOn(k, MutexObj(i))
      BY <1>1, <1>4, <1>5, <1>8, <2>1
    <2>3. BlockedOn(k, MutexObj(i)) = {}
      BY <1>1, <1>8, <2>2 DEF LockInv, WaitInv, NoWaitOnFree
    <2>4. Lock(i)!Take(c)
      BY <2>2, <2>3 DEF Lock!Take, Lock!Nobody
    <2>5. QED
      BY <2>4 DEF LockStep, Lock!Next
  <1>9. QED
    BY <1>6, <1>7, <1>8

LEMMA BlockLock ==
    ASSUME LockInv, WaitInv', NEW c \in Task, TryLockBlock(c), NEW i \in Mutexes
    PROVE  LockStep(i)
  <1> DEFINE m == arg[c].m
             W == BlockedOn(k, MutexObj(i))
             V == BlockedOn(k', MutexObj(i))
  <1>0. WaitInv /\ Runs(k) /\ k \in Kernel /\ c \in k.active /\ k.current = c
    BY Running DEF LockInv, TryLockBlock, At
  <1>1. m \in Mutexes /\ owner[m] # -1 /\ owner' = owner /\ spoilt' = spoilt
        /\ ("heir" \notin spoilt => owner[m] # c)
    BY DEF TryLockBlock, At, LockInv, WaitInv, ArgsOK, NotYetOwner
  <1>2. PICK kind : k' \in Return(TimedBlock(k, MutexObj(m), kind))
    BY DEF TryLockBlock
  <1> HIDE DEF m
  <1>3. MutexObj(m) \in Object /\ MutexObj(m) # NULL
    BY <1>1, MutexObject
  <1>4. /\ k'.active = k.active \ {c} /\ k'.block = [k.block EXCEPT ![c] = MutexObj(m)]
    BY <1>0, <1>2, <1>3, BlockRuns
  <1>5. \A t \in Task : t # c => SleepsOn(t)
    BY <1>0, <1>2, <1>3, SleepSleepsOn
  <1>6. /\ W \subseteq Task /\ V \subseteq Task /\ W' = V
        /\ \A t \in Task : t # c => (t \in V <=> t \in W)
    BY <1>0, <1>5, BlockedThreads, BlockedOnStays
  <1>7. c \notin W /\ (c \in V <=> i = m)
    <2>1. k'.used = Task /\ k'.block[c] = MutexObj(m) /\ c \notin k'.active
      BY <1>0, <1>4 DEF WaitInv, Types, Kernel
    <2>2. QED
      BY <1>0, <1>1, <2>1, MutexObject DEF BlockedOn
  <1> HIDE DEF V
  <1>8. CASE i # m
    <2>1. V = W
      BY <1>6, <1>7, <1>8
    <2>2. QED
      BY <1>1, <1>6, <2>1 DEF LockStep
  <1>9. CASE i = m /\ "heir" \in spoilt'
    BY <1>9 DEF LockStep
  <1>10. CASE i = m /\ "heir" \notin spoilt'
    <2>1. V = W \cup {c}
      BY <1>6, <1>7, <1>10
    <2>2. Lock(i)!Wait(c)
      BY <1>1, <1>6, <1>10, <2>1 DEF Lock!Wait, Lock!Nobody
    <2>3. QED
      BY <2>2 DEF LockStep, Lock!Next
  <1>11. QED
    BY <1>8, <1>9, <1>10

LEMMA GivenLock ==
    ASSUME LockInv, WaitInv', NEW c \in Task,
           UnlockHandOff(c) \/ UnlockFree(c) \/ CondWait(c), NEW i \in Mutexes
    PROVE  LockStep(i)
  <1>1. CASE UnlockHandOff(c) \/ UnlockFree(c)
    <2>1. pc[c] = "unlock" /\ owner[arg[c].m] = c /\ WaitInv
      BY <1>1 DEF UnlockHandOff, UnlockFree, At, LockInv, UnlockersOwn
    <2> DEFINE m == arg[c].m
               n == Waiter(m)
    <2>2. /\ m \in Mutexes /\ c \in k.active /\ owner' = [owner EXCEPT ![m] = n] /\ NoNewWaiter
          /\ \/ n = -1 /\ BlockedOn(k, MutexObj(m)) = {}
             \/ n \in BlockedOn(k, MutexObj(m)) /\ n \in Task /\ n # -1
          /\ n # c
          /\ \A t \in Task : t # c /\ t # n => SleepsOn(t)
          /\ n # -1 => n \in k'.active
      BY <1>1, <2>1, UnlockTable
    <2> HIDE DEF m, n
    <2>3. n \in Task \cup {-1} /\ owner[m] = c
      BY <2>1, <2>2 DEF m
    <2>4. /\ n = -1 => BlockedOn(k, MutexObj(m)) = {}
          /\ n # -1 => n \in BlockedOn(k, MutexObj(m)) /\ n # c /\ n \in k'.active
      BY <2>2
    <2>5. QED
      BY <2>1, <2>2, <2>3, <2>4, HandedLock
  <1>2. CASE CondWait(c)
    <2> DEFINE m == arg[c].m
               n == arg[c].new_thread
    <2>1. /\ m \in Mutexes /\ n \in Task \cup {-1} /\ c \in k.active /\ NoNewWaiter
          /\ owner[m] = c /\ owner' = [owner EXCEPT ![m] = n]
          /\ \A t \in Task : t # c /\ t # n => SleepsOn(t)
          /\ "heir" \notin spoilt' =>
                /\ n = -1 => BlockedOn(k, MutexObj(m)) = {}
                /\ n # -1 => n \in BlockedOn(k, MutexObj(m)) /\ n # c /\ n \in k'.active
      BY <1>2, CondWaitTable DEF LockInv
    <2> HIDE DEF m, n
    <2>2. QED
      BY <2>1, HandedLock DEF LockInv
  <1>3. QED
    BY <1>1, <1>2

LEMMA ThreadLock ==
    ASSUME LockInv, WaitInv', NEW c \in Task, MutexStep(c) \/ CondStep(c), NEW i \in Mutexes
    PROVE  LockStep(i)
  <1>0. WaitInv
    BY DEF LockInv
  <1>1. CASE TryLockFree(c) \/ TryLockBlock(c) \/ UnlockHandOff(c) \/ UnlockFree(c) \/ CondWait(c)
    BY <1>1, TakenLock, BlockLock, GivenLock
  <1>2. CASE \/ \E m \in Mutexes, how \in How : LockCall(c, m, how)
             \/ \E m \in Mutexes : LockAgain(c, m) \/ UnlockCall(c, m) \/ UnlockDenied(c, m)
             \/ TryLockBusy(c) \/ LockWoken(c) \/ CondWaitDenied(c) \/ CondWoken(c)
             \/ \E v \in Conds, m \in Mutexes, how \in {"lock", "timed"} : CondWaitCall(c, v, m, how)
             \/ \E v \in Conds : CondSignalCall(c, v)
    <2>1. UNCHANGED <<k, owner>>
      BY <1>2 DEF LockCall, LockAgain, UnlockCall, UnlockDenied, TryLockBusy, LockWoken,
         CondWaitDenied, CondWoken, CondWaitCall, CondSignalCall
    <2>2. QED
      BY <1>0, <2>1, QuietLock
  <1>3. CASE CondSignal(c) \/ \E v \in Conds : CondBroadcast(c, v)
    <2>1. NoNewWaiter
      BY <1>0, <1>3, CondSignalWait, CondBroadcastWait
    <2>2. owner' = owner
      BY <1>3 DEF CondSignal, CondBroadcast
    <2>3. QED
      BY <1>0, <2>1, <2>2, OwnerStays
  <1>4. QED
    BY <1>1, <1>2, <1>3 DEF MutexStep, CondStep

LEMMA NextLockStep ==
    ASSUME LockInv, [Next]_vars, NEW m \in Mutexes
    PROVE  LockStep(m)
  <1>0. WaitInv /\ WaitInv'
    BY NextWait DEF LockInv
  <1>1. CASE UNCHANGED vars
    BY <1>0, <1>1, QuietLock DEF vars
  <1>2. CASE \E c \in Task : MutexStep(c) \/ CondStep(c)
    BY <1>0, <1>2, ThreadLock
  <1>3. CASE \/ SysTick \/ TimerMatch
             \/ \E c \in Task : Sleep(c) \/ \E t \in Task : Signal(c, t)
    <2>1. NoNewWaiter
      BY <1>0, <1>3, EnvironmentWait, SleepWait, SignalWait
    <2>2. owner' = owner
      BY <1>3 DEF SysTick, TimerMatch, Sleep, Signal
    <2>3. QED
      BY <1>0, <2>1, <2>2, OwnerStays
  <1>4. QED
    BY <1>1, <1>2, <1>3 DEF Next

LEMMA InitIsLockInit ==
    ASSUME Init, NEW m \in Mutexes
    PROVE  Lock(m)!Init
  <1>1. owner[m] = -1 /\ BlockedOn(k, MutexObj(m)) = {}
    BY InitWait DEF Init, WaitInv, Runs, Kernel, BlockedOn
  <1>2. QED
    BY <1>1 DEF Lock!Init, Lock!Nobody

\* For any number of threads, mutexes and conditions: what the pthread_mutex
\* and pthread_cond calls do to a mutex and to its waiters is what HandOffLock
\* allows, as long as pthread_cond_wait() finds its heir waiting.
THEOREM MutexImplementsHandOffLock == Spec => IsHandOffLock
  <1>1. Init => \A m \in Mutexes : Lock(m)!Init
    BY InitIsLockInit
  <1>2. LockInv /\ [Next]_vars => [\A m \in Mutexes : LockStep(m)]_vars
    BY NextLockStep
  <1>3. QED
    BY <1>1, <1>2, InitLock, NextLock, PTL DEF Spec, IsHandOffLock

-----------------------------------------------------------------------------
(* No mutex is orphaned, and its locks are counted.                        *)
\* The owner of m holds it, has just been given it, or is about to unlock it.
Known(m) ==
    owner[m] # -1 => \/ m \in held[owner[m]]
                     \/ pc[owner[m]] \in {"blocked", "unlock"} /\ arg[owner[m]].m = m

\* It has locked m, but for the last part of pthread_mutex_unlock().
Counted(m) ==
    owner[m] # -1 => lock[m] # 0 \/ (pc[owner[m]] = "unlock" /\ arg[owner[m]].m = m)

KnownInv ==
    /\ WaitInv
    /\ lock \in [Mutexes -> 0 .. MaxLocks]
    /\ "heir" \notin spoilt => \A m \in Mutexes : Known(m)
    /\ \A m \in Mutexes : Counted(m)

\* A step of c changes the owner and the locks of some mutexes, and what c knows
\* of those it owns.
LEMMA KnownStep ==
    ASSUME KnownInv, WaitInv', NEW c \in Task, spoilt \subseteq spoilt',
           lock' \in [Mutexes -> 0 .. MaxLocks],
           \A t \in Task : t # c => Elsewhere(t),
           \A m \in Mutexes :
              \/ owner'[m] = owner[m] /\ lock'[m] = lock[m] /\ owner[m] # c
              \/ ("heir" \notin spoilt' => Known(m)') /\ Counted(m)'
              \/ owner'[m] = -1
    PROVE  KnownInv'
  <1>1. \A m \in Mutexes : owner[m] \in Task \cup {-1}
    BY DEF KnownInv, WaitInv, Types
  <1>2. ASSUME NEW m \in Mutexes, owner'[m] = owner[m], lock'[m] = lock[m], owner[m] # c
        PROVE  ("heir" \notin spoilt' => Known(m)') /\ Counted(m)'
    <2>1. owner[m] # -1 => Elsewhere(owner[m])
      BY <1>1, <1>2
    <2>2. Counted(m) /\ ("heir" \notin spoilt' => Known(m))
      BY DEF KnownInv
    <2>3. QED
      BY <1>2, <2>1, <2>2 DEF Known, Counted, Elsewhere
  <1>3. \A m \in Mutexes : owner'[m] = -1 => Known(m)' /\ Counted(m)'
    BY DEF Known, Counted
  <1>4. \A m \in Mutexes : ("heir" \notin spoilt' => Known(m)') /\ Counted(m)'
    BY <1>2, <1>3
  <1>5. QED
    BY <1>4 DEF KnownInv

\* What a thread owns when it is not in the middle of a lock or unlock call.
LEMMA OwnKnown ==
    ASSUME KnownInv, NEW c \in Task, NEW m \in Mutexes, owner[m] = c
    PROVE  /\ "heir" \notin spoilt =>
                 m \in held[c] \/ (pc[c] \in {"blocked", "unlock"} /\ arg[c].m = m)
           /\ lock[m] \in 0 .. MaxLocks
           /\ lock[m] # 0 \/ (pc[c] = "unlock" /\ arg[c].m = m)
           /\ c # -1
  <1>1. c # -1
    BY DEF Task
  <1>2. QED
    BY <1>1 DEF KnownInv, Known, Counted

\* A thread that goes from one place to another, neither of them an unlock.
LEMMA KnownMoved ==
    ASSUME KnownInv, WaitInv', NEW c \in Task, UNCHANGED <<owner, lock>>,
           spoilt \subseteq spoilt',
           (\E a \in Arg : With(c, a)) \/ arg' = arg,
           NEW l \in PC, Goto(c, l), pc[c] # "unlock",
           \/ held' = held /\ pc[c] # "blocked"
           \/ pc[c] = "blocked" /\ \E h \in SUBSET Mutexes :
                 /\ held' = [held EXCEPT ![c] = h] /\ held[c] \subseteq h
                 /\ owner[arg[c].m] = c => arg[c].m \in h
    PROVE  KnownInv'
  <1>1. pc \in [Task -> PC] /\ held \in [Task -> SUBSET Mutexes]
    BY DEF KnownInv, WaitInv, Types
  <1>2. \A t \in Task : t # c => Elsewhere(t)
    BY OthersElsewhere DEF KnownInv
  <1>3. ASSUME NEW m \in Mutexes, owner[m] = c
        PROVE  ("heir" \notin spoilt' => Known(m)') /\ Counted(m)'
    <2>1. /\ "heir" \notin spoilt => m \in held[c] \/ (pc[c] = "blocked" /\ arg[c].m = m)
          /\ lock[m] # 0
      BY <1>3, OwnKnown
    <2>2. "heir" \notin spoilt => m \in held'[c]
      BY <1>1, <1>3, <2>1
    <2>3. QED
      BY <1>3, <2>1, <2>2 DEF Known, Counted
  <1>4. lock' \in [Mutexes -> 0 .. MaxLocks]
    BY DEF KnownInv
  <1>5. QED
    BY <1>2, <1>3, <1>4, KnownStep

LEMMA KnownQuiet ==
    ASSUME KnownInv, WaitInv', UNCHANGED <<pc, arg, owner, lock, held>>, spoilt \subseteq spoilt'
    PROVE  KnownInv'
  BY DEF KnownInv, Known, Counted

LEMMA LockAgainKnown ==
    ASSUME KnownInv, NEW c \in Task, NEW m \in Mutexes, LockAgain(c, m)
    PROVE  KnownInv'
  <1>1. WaitInv'
    BY LockAgainWait DEF KnownInv
  <1>2. /\ UNCHANGED <<pc, arg, owner, held, spoilt>> /\ pc[c] = "run" /\ owner[m] = c
        /\ lock[m] < MaxLocks /\ lock' = [lock EXCEPT ![m] = lock[m] + 1]
    BY DEF LockAgain, At
  <1>3. lock \in [Mutexes -> 0 .. MaxLocks] /\ MaxLocks \in Nat
    BY MutexAssumption DEF KnownInv
  <1>4. /\ lock' \in [Mutexes -> 0 .. MaxLocks] /\ lock'[m] # 0
        /\ \A i \in Mutexes : i # m => lock'[i] = lock[i]
    BY <1>2, <1>3
  <1>5. \A i \in Mutexes : Counted(i)'
    BY <1>2, <1>4 DEF KnownInv, Counted
  <1>6. "heir" \notin spoilt' => \A i \in Mutexes : Known(i)'
    BY <1>2 DEF KnownInv, Known
  <1>7. QED
    BY <1>1, <1>4, <1>5, <1>6 DEF KnownInv

LEMMA TryLockFreeKnown ==
    ASSUME KnownInv, NEW c \in Task, TryLockFree(c)
    PROVE  KnownInv'
  <1> DEFINE m == arg[c].m
  <1>1. WaitInv' /\ WaitInv
    BY TryLockFreeWait DEF KnownInv
  <1>2. /\ pc[c] = "trylock" /\ owner' = [owner EXCEPT ![m] = c] /\ lock' = [lock EXCEPT ![m] = 1]
        /\ held' = [held EXCEPT ![c] = held[c] \cup {m}] /\ Goto(c, "run") /\ With(c, NoArg)
        /\ spoilt' = spoilt
    BY DEF TryLockFree, At, Back
  <1>3. m \in Mutexes /\ held \in [Task -> SUBSET Mutexes]
        /\ owner \in [Mutexes -> Task \cup {-1}]
    BY <1>1, <1>2 DEF WaitInv, Types, ArgsOK
  <1>4. lock \in [Mutexes -> 0 .. MaxLocks] /\ 1 \in 0 .. MaxLocks
    BY MutexAssumption DEF KnownInv
  <1> HIDE DEF m
  <1>5. \A t \in Task : t # c => Elsewhere(t)
    <2>1. held[c] \cup {m} \in SUBSET Mutexes
      BY <1>3
    <2>2. QED
      BY <1>1, <1>2, <2>1, Places, OthersElsewhere
  <1>6. lock' \in [Mutexes -> 0 .. MaxLocks]
    BY <1>2, <1>3, <1>4
  <1>7. ASSUME NEW i \in Mutexes
        PROVE  \/ owner'[i] = owner[i] /\ lock'[i] = lock[i] /\ owner[i] # c
               \/ ("heir" \notin spoilt' => Known(i)') /\ Counted(i)'
    <2>1. CASE i = m
      <3>1. owner'[i] = c /\ lock'[i] = 1 /\ i \in held'[c]
        BY <1>2, <1>3, <1>4, <2>1
      <3>2. QED
        BY <3>1 DEF Known, Counted
    <2>2. CASE i # m /\ owner[i] = c
      <3>1. owner'[i] = c /\ lock'[i] = lock[i] /\ held[c] \subseteq held'[c]
        BY <1>2, <1>3, <1>4, <2>2
      <3>2. lock[i] # 0 /\ ("heir" \notin spoilt => i \in held[c])
        BY <1>2, <2>2, OwnKnown
      <3>3. QED
        BY <1>2, <3>1, <3>2 DEF Known, Counted
    <2>3. CASE i # m /\ owner[i] # c
      BY <1>2, <1>3, <1>4, <2>3
    <2>4. QED
      BY <2>1, <2>2, <2>3
  <1>8. QED
    BY <1>1, <1>2, <1>5, <1>6, <1>7, KnownStep

\* Calls that begin, block or return without the mutex.
LEMMA MovesKnown ==
    ASSUME KnownInv, WaitInv', NEW c \in Task,
           \/ \E m \in Mutexes, how \in How : LockCall(c, m, how)
           \/ \E v \in Conds, m \in Mutexes, how \in {"lock", "timed"} :
                 CondWaitCall(c, v, m, how)
           \/ \E v \in Conds : CondSignalCall(c, v)
           \/ TryLockBusy(c) \/ TryLockBlock(c) \/ LockWoken(c)
           \/ CondWaitDenied(c) \/ CondWoken(c) \/ CondSignal(c)
    PROVE  KnownInv'
  <1>0. WaitInv
    BY DEF KnownInv
  <1>1. UNCHANGED <<owner, lock>> /\ spoilt \subseteq spoilt' /\ pc[c] # "unlock"
    BY DEF LockCall, CondWaitCall, CondSignalCall, TryLockBusy, TryLockBlock, LockWoken,
       CondWaitDenied, CondWoken, CondSignal, At
  <1>2. (\E a \in Arg : With(c, a)) \/ arg' = arg
    <2>1. CASE \E m \in Mutexes, how \in How : LockCall(c, m, how)
      <3>1. PICK m \in Mutexes, how \in How : LockCall(c, m, how)
        BY <2>1
      <3>2. [NoArg EXCEPT !.m = m, !.how = how] \in Arg
        BY NoArgIsArg DEF Arg
      <3>3. QED
        BY <3>1, <3>2 DEF LockCall
    <2>2. CASE \E v \in Conds, m \in Mutexes, how \in {"lock", "timed"} :
                 CondWaitCall(c, v, m, how)
      <3>1. PICK v \in Conds, m \in Mutexes, how \in {"lock", "timed"} :
                 CondWaitCall(c, v, m, how)
        BY <2>2
      <3>2. Waiter(m) \in Task \cup {-1}
        BY <1>0, WaiterFound
      <3>3. [m |-> m, v |-> v, how |-> how, new_thread |-> Waiter(m)] \in Arg
        BY <3>2 DEF Arg, How
      <3>4. QED
        BY <3>1, <3>3 DEF CondWaitCall
    <2>3. CASE \E v \in Conds : CondSignalCall(c, v)
      <3>1. PICK v \in Conds : CondSignalCall(c, v)
        BY <2>3
      <3> DEFINE n == HighestPriorityBlocked(k, CondObj(v))
      <3>2. n \in Task
        <4>1. n # -1 /\ k \in Kernel /\ k.used = Task
          BY <1>0, <3>1 DEF CondSignalCall, WaitInv, Types, Runs
        <4> HIDE DEF n
        <4>2. n \in BlockedOn(k, CondObj(v))
          BY <4>1, HighestPriorityBlockedTask DEF n
        <4>3. QED
          BY <4>1, <4>2 DEF BlockedOn
      <3> HIDE DEF n
      <3>3. [NoArg EXCEPT !.v = v, !.new_thread = n] \in Arg
        BY <3>2, NoArgIsArg DEF Arg
      <3>4. With(c, [NoArg EXCEPT !.v = v, !.new_thread = n])
        BY <3>1 DEF CondSignalCall, n
      <3>5. QED
        BY <3>3, <3>4
    <2>4. QED
      BY <2>1, <2>2, <2>3, NoArgIsArg DEF TryLockBusy, TryLockBlock, LockWoken,
         CondWaitDenied, CondWoken, CondSignal, Back
  <1>3. \E l \in PC : Goto(c, l)
    BY Places DEF LockCall, CondWaitCall, CondSignalCall, TryLockBusy, TryLockBlock,
       LockWoken, CondWaitDenied, CondWoken, CondSignal, Back
  <1>4. CASE LockWoken(c)
    <2>1. arg[c].m \in Mutexes /\ held[c] \subseteq Mutexes /\ pc[c] = "blocked"
      BY <1>0, <1>4 DEF WaitInv, Types, ArgsOK, LockWoken, At
    <2>2. \E h \in SUBSET Mutexes :
             /\ held' = [held EXCEPT ![c] = h] /\ held[c] \subseteq h
             /\ owner[arg[c].m] = c => arg[c].m \in h
      <3>1. CASE GotLock(c)
        <4>1. held' = [held EXCEPT ![c] = held[c] \cup {arg[c].m}]
          BY <1>4, <3>1 DEF LockWoken
        <4>2. held[c] \cup {arg[c].m} \in SUBSET Mutexes
          BY <2>1
        <4>3. QED
          BY <4>1, <4>2
      <3>2. CASE ~GotLock(c)
        <4>1. held' = [held EXCEPT ![c] = held[c]] /\ owner[arg[c].m] # c
          BY <1>0, <1>4, <3>2 DEF LockWoken, GotLock, WaitInv, Types
        <4>2. QED
          BY <2>1, <4>1
      <3>3. QED
        BY <3>1, <3>2
    <2>3. QED
      BY <1>1, <1>2, <1>3, <2>1, <2>2, KnownMoved
  <1>5. CASE ~LockWoken(c)
    <2>1. held' = held /\ pc[c] # "blocked"
      BY <1>5 DEF LockCall, CondWaitCall, CondSignalCall, TryLockBusy, TryLockBlock,
         CondWaitDenied, CondWoken, CondSignal, At
    <2>2. QED
      BY <1>1, <1>2, <1>3, <2>1, KnownMoved
  <1>6. QED
    BY <1>4, <1>5

LEMMA UnlockCallKnown ==
    ASSUME KnownInv, NEW c \in Task, NEW m \in Mutexes, UnlockCall(c, m) \/ UnlockDenied(c, m)
    PROVE  KnownInv'
  <1>1. WaitInv' /\ WaitInv
    BY UnlockCallWait, ReturnsWait, LockAgainWait DEF KnownInv
  <1>2. /\ pc[c] = "run" /\ UNCHANGED <<owner, spoilt>>
        /\ held \in [Task -> SUBSET Mutexes] /\ pc \in [Task -> PC] /\ arg \in [Task -> Arg]
        /\ owner \in [Mutexes -> Task \cup {-1}]
        /\ lock \in [Mutexes -> 0 .. MaxLocks] /\ MaxLocks \in Nat
    BY <1>1, MutexAssumption DEF UnlockCall, UnlockDenied, At, WaitInv, Types, KnownInv
  <1>3. \A i \in Mutexes : owner[i] = c => /\ "heir" \notin spoilt => i \in held[c]
                                           /\ lock[i] # 0 /\ lock[i] \in 0 .. MaxLocks
    BY <1>2, OwnKnown
  <1>4. CASE UnlockDenied(c, m)
    <2>1. /\ UNCHANGED <<pc, arg, lock>> /\ held' = [held EXCEPT ![c] = held[c] \ {m}]
          /\ owner[m] # c
      BY <1>4 DEF UnlockDenied
    <2>2. \A i \in Mutexes : Counted(i)'
      BY <1>2, <2>1 DEF KnownInv, Counted
    <2>3. ASSUME "heir" \notin spoilt', NEW i \in Mutexes PROVE Known(i)'
      <3>1. Known(i) /\ owner'[i] = owner[i]
        BY <1>2, <2>3 DEF KnownInv
      <3>2. owner[i] # -1 => (i \in held[owner[i]] => i \in held'[owner[i]])
        BY <1>2, <2>1
      <3>3. QED
        BY <2>1, <3>1, <3>2 DEF Known
    <2>4. QED
      BY <1>1, <1>2, <2>1, <2>2, <2>3 DEF KnownInv
  <1>5. CASE UnlockCall(c, m)
    <2> DEFINE n == IF m \in Recursive THEN lock[m] - 1 ELSE lock[m]
    <2>1. /\ owner[m] = c /\ lock' = [lock EXCEPT ![m] = n]
          /\ \/ n # 0 /\ UNCHANGED <<pc, arg, held>>
             \/ /\ Goto(c, "unlock") /\ With(c, [NoArg EXCEPT !.m = m])
                /\ held' = [held EXCEPT ![c] = held[c] \ {m}]
      BY <1>5 DEF UnlockCall
    <2>2. n \in 0 .. MaxLocks
      BY <1>2, <1>3, <2>1
    <2> HIDE DEF n
    <2>3. lock' \in [Mutexes -> 0 .. MaxLocks] /\ lock'[m] = n
          /\ \A i \in Mutexes : i # m => lock'[i] = lock[i]
      BY <1>2, <2>1, <2>2
    <2>4. CASE n # 0 /\ UNCHANGED <<pc, arg, held>>
      <3>1. \A i \in Mutexes : Counted(i)'
        BY <1>2, <2>3, <2>4 DEF KnownInv, Counted
      <3>2. "heir" \notin spoilt' => \A i \in Mutexes : Known(i)'
        BY <1>2, <2>4 DEF KnownInv, Known
      <3>3. QED
        BY <1>1, <2>3, <3>1, <3>2 DEF KnownInv
    <2>5. CASE /\ Goto(c, "unlock") /\ With(c, [NoArg EXCEPT !.m = m])
               /\ held' = [held EXCEPT ![c] = held[c] \ {m}]
      <3>1. [NoArg EXCEPT !.m = m] \in Arg /\ [NoArg EXCEPT !.m = m].m = m
            /\ held[c] \ {m} \in SUBSET Mutexes
        BY <1>2, NoArgIsArg DEF Arg
      <3>2. pc'[c] = "unlock" /\ arg'[c].m = m /\ held'[c] = held[c] \ {m}
        BY <1>2, <2>5, <3>1 DEF Goto, With
      <3>3. \A t \in Task : t # c => Elsewhere(t)
        BY <1>1, <2>5, <3>1, Places, OthersElsewhere
      <3>4. ASSUME NEW i \in Mutexes, owner[i] = c
            PROVE  ("heir" \notin spoilt' => Known(i)') /\ Counted(i)'
        <4>1. CASE i = m
          BY <1>2, <3>2, <3>4, <4>1 DEF Known, Counted
        <4>2. CASE i # m
          <5>1. lock'[i] # 0 /\ ("heir" \notin spoilt' => i \in held'[c])
            BY <1>2, <1>3, <2>3, <3>2, <3>4, <4>2
          <5>2. QED
            BY <1>2, <3>4, <5>1 DEF Known, Counted
        <4>3. QED
          BY <4>1, <4>2
      <3>5. \A i \in Mutexes : owner[i] # c => owner'[i] = owner[i] /\ lock'[i] = lock[i]
        BY <1>2, <2>1, <2>3
      <3>6. QED
        BY <1>1, <1>2, <2>3, <3>3, <3>4, <3>5, KnownStep
    <2>6. QED
      BY <2>1, <2>4, <2>5
  <1>6. QED
    BY <1>4, <1>5

\* The mutex is handed to a thread that waits for it, or set free.
LEMMA GivenKnown ==
    ASSUME KnownInv, WaitInv', NEW c \in Task, NEW m \in Mutexes, NEW n \in Task \cup {-1},
           owner' = [owner EXCEPT ![m] = n],
           lock' = [lock EXCEPT ![m] = IF n # -1 THEN 1 ELSE 0],
           spoilt \subseteq spoilt',
           "heir" \notin spoilt' /\ n # -1 => n \in BlockedOn(k, MutexObj(m)) /\ n # c,
           \/ pc[c] = "unlock" /\ arg[c].m = m /\ Goto(c, "run") /\ With(c, NoArg)
              /\ held' = held
           \/ pc[c] = "condwait" /\ Goto(c, "waiting") /\ arg' = arg
              /\ held' = [held EXCEPT ![c] = held[c] \ {m}]
    PROVE  KnownInv'
  <1>1. /\ WaitInv /\ held \in [Task -> SUBSET Mutexes] /\ pc \in [Task -> PC]
        /\ owner \in [Mutexes -> Task \cup {-1}]
        /\ lock \in [Mutexes -> 0 .. MaxLocks] /\ 0 \in 0 .. MaxLocks /\ 1 \in 0 .. MaxLocks
    BY MutexAssumption DEF KnownInv, WaitInv, Types
  <1>2. lock' \in [Mutexes -> 0 .. MaxLocks] /\ lock'[m] = IF n # -1 THEN 1 ELSE 0
    BY <1>1
  <1>3. \A i \in Mutexes : i # m => lock'[i] = lock[i] /\ owner'[i] = owner[i]
    BY <1>1
  <1>4. owner'[m] = n
    BY <1>1
  <1>5. \A t \in Task : t # c => Elsewhere(t)
    <2>1. held[c] \ {m} \in SUBSET Mutexes
      BY <1>1
    <2>2. QED
      BY <1>1, <2>1, Places, OthersElsewhere
  <1>6. ASSUME n # -1 PROVE ("heir" \notin spoilt' => Known(m)') /\ Counted(m)'
    <2>1. Counted(m)'
      BY <1>2, <1>4, <1>6 DEF Counted
    <2>2. ASSUME "heir" \notin spoilt' PROVE Known(m)'
      <3>1. n \in Task /\ n # c /\ pc[n] = "blocked" /\ arg[n].m = m
        BY <1>1, <1>6, <2>2 DEF WaitInv, WaitersKnown, BlockedOn
      <3>2. QED
        BY <1>4, <1>5, <3>1 DEF Known, Elsewhere
    <2>3. QED
      BY <2>1, <2>2
  <1>7. ASSUME NEW i \in Mutexes, i # m, owner[i] = c
        PROVE  ("heir" \notin spoilt' => Known(i)') /\ Counted(i)'
    <2>1. lock[i] # 0 /\ ("heir" \notin spoilt => i \in held[c])
      BY <1>7, OwnKnown
    <2>2. i \in held[c] => i \in held'[c]
      BY <1>1, <1>7
    <2>3. QED
      BY <1>3, <1>7, <2>1, <2>2 DEF Known, Counted
  <1>8. QED
    BY <1>2, <1>3, <1>4, <1>5, <1>6, <1>7, KnownStep

LEMMA UnlockKnown ==
    ASSUME KnownInv, NEW c \in Task, UnlockHandOff(c) \/ UnlockFree(c)
    PROVE  KnownInv'
  <1> DEFINE m == arg[c].m
             n == Waiter(m)
  <1>1. WaitInv /\ WaitInv'
    BY UnlockWait DEF KnownInv
  <1>2. /\ m \in Mutexes /\ n # c
        /\ \/ n = -1
           \/ n \in BlockedOn(k, MutexObj(m)) /\ n \in Task /\ n # -1
        /\ owner' = [owner EXCEPT ![m] = n]
    BY <1>1, UnlockTable
  <1>3. /\ pc[c] = "unlock" /\ Goto(c, "run") /\ With(c, NoArg) /\ UNCHANGED <<held, spoilt>>
        /\ lock' = [lock EXCEPT ![m] = IF n # -1 THEN 1 ELSE 0]
    BY DEF UnlockHandOff, UnlockFree, At, Back
  <1>4. QED
    BY <1>1, <1>2, <1>3, GivenKnown

LEMMA CondWaitKnown ==
    ASSUME KnownInv, NEW c \in Task, CondWait(c)
    PROVE  KnownInv'
  <1> DEFINE m == arg[c].m
             n == arg[c].new_thread
  <1>1. WaitInv /\ WaitInv'
    BY CondWaitWait DEF KnownInv
  <1>2. /\ m \in Mutexes /\ n \in Task \cup {-1} /\ owner' = [owner EXCEPT ![m] = n]
        /\ "heir" \notin spoilt' /\ n # -1 => n \in BlockedOn(k, MutexObj(m)) /\ n # c
    BY <1>1, CondWaitTable
  <1>3. /\ pc[c] = "condwait" /\ Goto(c, "waiting") /\ arg' = arg
        /\ held' = [held EXCEPT ![c] = held[c] \ {m}]
        /\ lock' = [lock EXCEPT ![m] = IF n # -1 THEN 1 ELSE 0]
        /\ spoilt \subseteq spoilt'
    BY DEF CondWait, At
  <1>4. QED
    BY <1>1, <1>2, <1>3, GivenKnown

LEMMA InitKnown == Init => KnownInv
  BY InitWait, MutexAssumption DEF Init, KnownInv, Known, Counted

LEMMA NextKnown ==
    ASSUME KnownInv, [Next]_vars
    PROVE  KnownInv'
  <1>1. WaitInv'
    BY NextWait DEF KnownInv
  <1>2. CASE \/ SysTick \/ TimerMatch \/ UNCHANGED vars
             \/ \E c \in Task : Sleep(c) \/ \E t \in Task : Signal(c, t)
    BY <1>1, <1>2, KnownQuiet DEF SysTick, TimerMatch, vars, Sleep, Signal
  <1>3. ASSUME NEW c \in Task, MutexStep(c) PROVE KnownInv'
    BY <1>1, <1>3, LockAgainKnown, TryLockFreeKnown, MovesKnown, UnlockCallKnown, UnlockKnown
       DEF MutexStep
  <1>4. ASSUME NEW c \in Task, CondStep(c) PROVE KnownInv'
    <2>1. ASSUME NEW v \in Conds, CondBroadcast(c, v) PROVE KnownInv'
      BY <1>1, <2>1, KnownQuiet DEF CondBroadcast
    <2>2. QED
      BY <1>1, <1>4, <2>1, MovesKnown, CondWaitKnown DEF CondStep
  <1>5. QED
    BY <1>2, <1>3, <1>4 DEF Next

\* No mutex stays with a thread that does not know of it: whoever
\* priv_mutex_unlock() or priv_cond_wait() makes its owner is in a call that locks
\* it, and a time-out that comes too late does not make the thread give it up.
THEOREM OwnersKnow == Spec => []NoOrphan
  <1>1. KnownInv => NoOrphan
    BY DEF KnownInv, Known, NoOrphan
  <1>2. QED
    BY <1>1, InitKnown, NextKnown, PTL DEF Spec

CountersOK == spoilt \subseteq Mishap /\ sent \in 0 .. MaxSignals /\ waits \in 0 .. MaxWaits

LEMMA NextCounters ==
    ASSUME CountersOK, [Next]_vars
    PROVE  CountersOK'
  <1>0. MaxSignals \in Nat /\ MaxWaits \in Nat
    BY MutexAssumption
  <1>1. CASE \/ SysTick \/ TimerMatch \/ UNCHANGED vars
             \/ \E c \in Task : Sleep(c) \/ \E t \in Task : Signal(c, t)
    <2>1. \/ UNCHANGED <<spoilt, sent, waits>>
          \/ spoilt' = spoilt \cup {"signal"} /\ sent < MaxSignals /\ sent' = sent + 1
             /\ waits' = waits
      BY <1>1 DEF SysTick, TimerMatch, vars, bounds, Sleep, Signal
    <2>2. spoilt' \subseteq Mishap
      BY <2>1 DEF CountersOK, Mishap
    <2>3. sent' \in 0 .. MaxSignals /\ waits' \in 0 .. MaxWaits
      BY <1>0, <2>1 DEF CountersOK
    <2>4. QED
      BY <2>2, <2>3 DEF CountersOK
  <1>2. ASSUME NEW c \in Task, MutexStep(c) PROVE CountersOK'
    <2>1. UNCHANGED <<spoilt, sent, waits>>
      BY <1>2 DEF MutexStep, LockCall, LockAgain, UnlockCall, UnlockDenied, TryLockFree,
         TryLockBusy, TryLockBlock, LockWoken, UnlockHandOff, UnlockFree, bounds
    <2>2. QED
      BY <2>1 DEF CountersOK
  <1>3. ASSUME NEW c \in Task, CondStep(c) PROVE CountersOK'
    <2>1. /\ spoilt' \subseteq spoilt \cup {"heir", "woken"} /\ sent' = sent
          /\ waits' = waits \/ (waits < MaxWaits /\ waits' = waits + 1)
      <3>1. ASSUME NEW v \in Conds, NEW m \in Mutexes, NEW how \in {"lock", "timed"},
                   CondWaitCall(c, v, m, how)
            PROVE  /\ UNCHANGED <<spoilt, sent>>
                   /\ waits < MaxWaits /\ waits' = waits + 1
        BY <3>1 DEF CondWaitCall
      <3>2. ASSUME CondWait(c) \/ CondWaitDenied(c) \/ CondWoken(c) \/ CondSignal(c)
                   \/ \E v \in Conds : CondSignalCall(c, v) \/ CondBroadcast(c, v)
            PROVE  spoilt' \subseteq spoilt \cup {"heir", "woken"} /\ UNCHANGED <<sent, waits>>
        BY <3>2 DEF CondWait, CondWaitDenied, CondWoken, CondSignal, CondSignalCall,
           CondBroadcast, bounds
      <3>3. QED
        BY <1>3, <3>1, <3>2 DEF CondStep
    <2>2. spoilt' \subseteq Mishap
      BY <2>1 DEF CountersOK, Mishap
    <2>3. sent' \in 0 .. MaxSignals /\ waits' \in 0 .. MaxWaits
      BY <1>0, <2>1 DEF CountersOK
    <2>4. QED
      BY <2>2, <2>3 DEF CountersOK
  <1>4. QED
    BY <1>1, <1>2, <1>3 DEF Next

\* The table stays well formed, and the lock count of a recursive mutex stays
\* within PTHREAD_MAX_LOCKS and never falls below zero.
THEOREM MutexTypes == Spec => []TypeOK
  <1>1. KnownInv /\ CountersOK => TypeOK
    BY DEF KnownInv, WaitInv, Types, Runs, CountersOK, TypeOK
  <1>2. Init => CountersOK
    BY MutexAssumption DEF Init, CountersOK
  <1>3. CountersOK /\ [Next]_vars => CountersOK'
    BY NextCounters
  <1>4. QED
    BY <1>1, <1>2, <1>3, InitKnown, NextKnown, PTL DEF Spec

-----------------------------------------------------------------------------
(* Priorities, and no idle processor.                                      *)
\* A thread that owns nothing, and one that waits for a condition, have their
\* base priorities: pthread_cond_broadcast() updates with a base priority.
BaseOf(t)   == (\A m \in Mutexes : owner[m] # t) => k.prio[t] = k.base[t]
WaiterOf(t) == \A v \in Conds :
                  t \notin k.active /\ k.block[t] = CondObj(v) => k.prio[t] = k.base[t]

SingleMutex  == \A i, j \in Mutexes : i = j
Raised(m) == owner[m] # -1 => k.prio[owner[m]] >= Ceiling[m]

TableFacts ==
    /\ Busy(k) /\ k.stopped = {}
    /\ \A t \in Task : BaseOf(t) /\ WaiterOf(t)
    /\ SingleMutex => \A m \in Mutexes : Raised(m)

\* pthread_cond_wait() does not choose the caller as the heir.
HeirOther == \A c \in Task : pc[c] = "condwait" => arg[c].new_thread # c

TableInv == LockInv /\ HeirOther /\ TableFacts

\* A step that leaves owners and priorities alone, and after which nobody new
\* waits for a condition.
LEMMA SamePriorities ==
    ASSUME TableFacts, owner' = owner, Busy(k'), k'.stopped = {},
           k'.prio = k.prio, k'.base = k.base,
           \A t \in Task, v \in Conds : t \notin k'.active /\ k'.block[t] = CondObj(v)
              => t \notin k.active /\ k.block[t] = CondObj(v)
    PROVE  TableFacts'
  <1>1. \A t \in Task : BaseOf(t)'
    BY DEF TableFacts, BaseOf
  <1>2. \A t \in Task : WaiterOf(t)'
    BY DEF TableFacts, WaiterOf, CondObj
  <1>3. SingleMutex => \A m \in Mutexes : Raised(m)'
    BY DEF TableFacts, Raised
  <1>4. QED
    BY <1>1, <1>2, <1>3 DEF TableFacts, SingleMutex

LEMMA SameTableFacts ==
    ASSUME TableFacts, k' = k, owner' = owner
    PROVE  TableFacts'
  BY SamePriorities DEF TableFacts

\* Threads are woken.
LEMMA WokenFacts ==
    ASSUME WaitInv, TableFacts, owner' = owner,
           NEW S \in SUBSET Task, NEW u \in UnblockType,
           NEW p \in NoPriority .. HighestPriority,
           \/ S = {} /\ p = NoPriority
           \/ \E t \in S : k.prio[t] = p,
           k' \in Return(UpdateOnWake(AssertActive(k, S, u), p))
    PROVE  TableFacts'
  <1>1. Runs(k) /\ k.used = Task /\ Busy(k) /\ k.stopped = {}
    BY DEF WaitInv, Types, TableFacts
  <1>2. /\ k'.active = k.active \cup S /\ k'.base = k.base /\ k'.prio = k.prio
        /\ k'.stopped = {}
        /\ \A t \in Task : k'.block[t] = IF t \in S THEN NULL ELSE k.block[t]
    BY <1>1, WakeRuns
  <1>3. Busy(k')
    BY <1>1, WakeBusy
  <1>4. \A t \in Task, v \in Conds : t \notin k'.active /\ k'.block[t] = CondObj(v)
           => t \notin k.active /\ k.block[t] = CondObj(v)
    BY <1>2
  <1>5. QED
    BY <1>2, <1>3, <1>4, SamePriorities

\* The running thread blocks on something that is no condition.
LEMMA BlockedFacts ==
    ASSUME WaitInv, TableFacts, owner' = owner, k.current \in Task,
           NEW obj \in Object, NEW kind, obj # NULL \/ kind \notin {"near", "past"},
           \A v \in Conds : obj # CondObj(v),
           k' \in Return(TimedBlock(k, obj, kind))
    PROVE  TableFacts'
  <1>1. Runs(k) /\ k \in Kernel /\ k.stopped = {}
    BY DEF WaitInv, Runs, TableFacts
  <1>2. /\ Runs(k') /\ IsTop(k') /\ k'.active = k.active \ {k.current}
        /\ k'.block = [k.block EXCEPT ![k.current] = obj]
        /\ k'.base = k.base /\ k'.prio = k.prio /\ k'.stopped = {}
    BY <1>1, BlockRuns
  <1>3. Busy(k')
    BY <1>2, TopBusy DEF Runs
  <1>4. \A t \in Task : k'.block[t] = IF t = k.current THEN obj ELSE k.block[t]
    BY <1>1, <1>2 DEF Kernel
  <1>5. \A t \in Task, v \in Conds : t \notin k'.active /\ k'.block[t] = CondObj(v)
           => t \notin k.active /\ k.block[t] = CondObj(v)
    BY <1>2, <1>4
  <1>6. QED
    BY <1>2, <1>3, <1>5, SamePriorities

LEMMA EnvironmentFacts ==
    ASSUME TableInv, SysTick \/ TimerMatch
    PROVE  TableFacts'
  <1>0. WaitInv /\ TableFacts /\ k \in Kernel /\ owner' = owner
    BY DEF TableInv, LockInv, WaitInv, Runs, SysTick, TimerMatch
  <1>1. CASE SysTick
    <2> DEFINE W == SwitchContext(k)
    <2>1. /\ W \in Kernel /\ W.exec = k.exec /\ W.cur = k.cur /\ Ready(W) = Ready(k)
          /\ Entries(W) = Entries(k) /\ W.pend
      BY <1>0 DEF SwitchContext, Kernel, Ready, Entries
    <2>2. Busy(W) /\ W.exec \subseteq Ready(W) /\ k' \in Return(W)
      BY <1>0, <1>1, <2>1 DEF Busy, TableFacts, WaitInv, Runs, SysTick
    <2> HIDE DEF W
    <2>3. Busy(k') /\ Entries(k') = Entries(k)
      BY <2>1, <2>2, ReturnBusy, ReturnRuns
    <2>4. QED
      BY <1>0, <2>3, SamePriorities DEF Entries, TableFacts
  <1>2. CASE TimerMatch
    <2>1. PICK S \in SUBSET Sleepers(k) : S # {} /\ k' \in Return(MatchEvent(k, S))
      BY <1>2 DEF TimerMatch
    <2>2. S \in SUBSET Task
      BY <1>0 DEF Sleepers, Kernel
    <2>3. TopPriority(k, S) \in NoPriority .. HighestPriority /\ "SLEEP" \in UnblockType
      BY <1>0, <2>2, TopPriorityRange DEF UnblockType
    <2>4. \E t \in S : k.prio[t] = TopPriority(k, S)
      BY <1>0, <2>1, <2>2, TopPriorityIsMax
    <2>5. QED
      BY <1>0, <2>1, <2>2, <2>3, <2>4, WokenFacts DEF MatchEvent
  <1>3. QED
    BY <1>1, <1>2

LEMMA ClientFacts ==
    ASSUME TableInv, NEW c \in Task, Sleep(c) \/ \E t \in Task : Signal(c, t)
    PROVE  TableFacts'
  <1>0. WaitInv /\ TableFacts /\ k \in Kernel /\ owner' = owner /\ k.current \in Task
    BY DEF TableInv, LockInv, WaitInv, Runs, Sleep, Signal, At
  <1>1. CASE Sleep(c)
    <2>1. \A v \in Conds : NULL # CondObj(v)
      BY MutexObject
    <2>2. QED
      BY <1>0, <1>1, <2>1, MutexObject, BlockedFacts DEF Sleep
  <1>2. ASSUME NEW t \in Task, Signal(c, t) PROVE TableFacts'
    <2>1. k.stopped = {} /\ k' \in Return(SignalActivate(k, t))
      BY <1>0, <1>2 DEF Signal, TableFacts
    <2>2. [k EXCEPT !.stopped = @ \ {t}] = k
      BY <1>0, <2>1 DEF Kernel
    <2>3. k' \in Return(UpdateOnWake(AssertActive(k, {t}, "SIGNAL"), k.prio[t]))
      BY <2>1, <2>2 DEF SignalActivate
    <2>4. k.prio[t] \in NoPriority .. HighestPriority
      BY <1>0, Priorities
    <2>5. QED
      BY <1>0, <2>3, <2>4, WokenFacts DEF UnblockType
  <1>3. QED
    BY <1>1, <1>2

\* The step of c gives m, which was c's or nobody's, to n, and priorities change
\* only for those two.
LEMMA PassedFacts ==
    ASSUME WaitInv, TableFacts, Busy(k'), k'.stopped = {}, k'.base = k.base,
           NEW c \in Task, NEW m \in Mutexes, NEW n \in Task \cup {-1},
           owner[m] \in {-1, c}, owner' = [owner EXCEPT ![m] = n],
           \A t \in Task : t # n => k'.prio[t] = IF t = c THEN k.base[c] ELSE k.prio[t],
           n # -1 => k'.prio[n] >= Ceiling[m] /\ n \in k'.active,
           \A t \in Task, v \in Conds : t \notin k'.active /\ k'.block[t] = CondObj(v)
              => t = c \/ (t \notin k.active /\ k.block[t] = CondObj(v)),
           c = n \/ c \in k'.active \/ k'.prio[c] = k.base[c]
    PROVE  TableFacts'
  <1>0. owner \in [Mutexes -> Task \cup {-1}]
    BY DEF WaitInv, Types
  <1>1. ASSUME NEW t \in Task PROVE BaseOf(t)'
    <2> SUFFICES ASSUME \A i \in Mutexes : owner'[i] # t
                 PROVE  k'.prio[t] = k'.base[t]
      BY DEF BaseOf
    <2>1. t # n
      BY <1>0
    <2>2. t # c => \A i \in Mutexes : owner[i] # t
      BY <1>0 DEF Task
    <2>3. QED
      BY <2>1, <2>2 DEF TableFacts, BaseOf
  <1>2. ASSUME NEW t \in Task PROVE WaiterOf(t)'
    <2> SUFFICES ASSUME NEW v \in Conds, t \notin k'.active, k'.block[t] = CondObj(v)
                 PROVE  k'.prio[t] = k'.base[t]
      BY DEF WaiterOf, CondObj
    <2>1. t # n
      BY DEF Task
    <2>2. QED
      BY <2>1 DEF TableFacts, WaiterOf
  <1>3. SingleMutex => \A i \in Mutexes : Raised(i)'
    <2> SUFFICES ASSUME SingleMutex, NEW i \in Mutexes, owner'[i] # -1
                 PROVE  k'.prio[owner'[i]] >= Ceiling[i]
      BY DEF Raised
    <2>1. i = m
      BY DEF SingleMutex
    <2>2. QED
      BY <1>0, <2>1
  <1>4. QED
    BY <1>1, <1>2, <1>3 DEF TableFacts, SingleMutex

LEMMA TryLockFreeFacts ==
    ASSUME TableInv, NEW c \in Task, TryLockFree(c)
    PROVE  TableFacts'
  <1> DEFINE m == arg[c].m
  <1>0. WaitInv /\ TableFacts /\ k \in Kernel
    BY DEF TableInv, LockInv, WaitInv, Runs
  <1>1. m \in Mutexes /\ owner[m] = -1 /\ c \in k.active
    BY <1>0, Running DEF WaitInv, ArgsOK, TryLockFree, At
  <1>2. owner' = [owner EXCEPT ![m] = c] /\ k' = Elevated(c, m)
    BY DEF TryLockFree
  <1> HIDE DEF m
  <1>3. Ceiling[m] \in Int /\ k.prio[c] \in Int
    BY <1>0, <1>1, MutexAssumption, TableAssumption DEF Kernel, Priority
  <1>4. /\ k'.exec = k.exec /\ k'.cur = k.cur /\ Ready(k') = Ready(k)
        /\ k'.stopped = {} /\ k'.base = k.base /\ k'.active = k.active /\ k'.block = k.block
    BY <1>0, <1>2 DEF Elevated, Kernel, Ready, TableFacts
  <1>5. k'.prio[c] >= Ceiling[m] /\ \A t \in Task : t # c => k'.prio[t] = k.prio[t]
    BY <1>0, <1>2, <1>3 DEF Elevated, Kernel
  <1>6. Busy(k')
    BY <1>0, <1>4 DEF Busy, TableFacts
  <1>7. \A t \in Task : t # c => k'.prio[t] = IF t = c THEN k.base[c] ELSE k.prio[t]
    BY <1>5
  <1>8. c # -1 => k'.prio[c] >= Ceiling[m] /\ c \in k'.active
    BY <1>1, <1>4, <1>5
  <1>9. \A t \in Task, v \in Conds : t \notin k'.active /\ k'.block[t] = CondObj(v)
           => t = c \/ (t \notin k.active /\ k.block[t] = CondObj(v))
    BY <1>4
  <1>10. owner[m] \in {-1, c} /\ c \in Task \cup {-1} /\ owner' = [owner EXCEPT ![m] = c]
    BY <1>1, <1>2
  <1>11. k'.stopped = {} /\ k'.base = k.base
    BY <1>4
  <1>12. QED
    BY <1>0, <1>1, <1>6, <1>7, <1>8, <1>9, <1>10, <1>11, PassedFacts, Zenon

LEMMA TryLockBlockFacts ==
    ASSUME TableInv, NEW c \in Task, TryLockBlock(c)
    PROVE  TableFacts'
  <1>0. WaitInv /\ TableFacts /\ owner' = owner /\ k.current \in Task
    BY DEF TableInv, LockInv, TryLockBlock, At
  <1>1. arg[c].m \in Mutexes
    BY <1>0 DEF WaitInv, ArgsOK, TryLockBlock, At
  <1>2. PICK kind : k' \in Return(TimedBlock(k, MutexObj(arg[c].m), kind))
    BY DEF TryLockBlock
  <1>3. QED
    BY <1>0, <1>1, <1>2, MutexObject, BlockedFacts

\* priv_mutex_unlock(): the processor is not idle before the waiter is woken,
\* since the caller runs.
LEMMA RestoredBusy ==
    ASSUME WaitInv, TableFacts, NEW c \in Task, c \in k.active
    PROVE  /\ Busy(Restored(c)) /\ c \in Ready(Restored(c))
           /\ Restored(c).stopped = {} /\ Restored(c).base = k.base
           /\ Restored(c).cur = k.base[c] /\ k.base[c] \in Priority
           /\ \A t \in Task : Restored(c).prio[t] = IF t = c THEN k.base[c] ELSE k.prio[t]
  <1>1. k \in Kernel /\ k.used = Task /\ k.stopped = {} /\ Busy(k)
    BY DEF WaitInv, Runs, Types, TableFacts
  <1>2. k.base[c] \in Priority /\ k.base[c] # NoPriority /\ NULL \in Object
    BY <1>1, TableAssumption, MutexObject DEF Kernel, Priority, NoPriority
  <1>3. k.exec # {}
    BY <1>1 DEF Busy, Ready
  <1>4. /\ Restored(c).exec = k.exec /\ Restored(c).cur = k.base[c]
        /\ Restored(c).stopped = {} /\ Restored(c).base = k.base
        /\ Restored(c).used = Task /\ Restored(c).active = k.active
        /\ \A t \in Task : Restored(c).prio[t] = IF t = c THEN k.base[c] ELSE k.prio[t]
    BY <1>1, <1>2 DEF Restored, Kernel
  <1>5. QED
    BY <1>2, <1>3, <1>4 DEF Busy, Ready

LEMMA UnlockHandOffFacts ==
    ASSUME TableInv, NEW c \in Task, UnlockHandOff(c)
    PROVE  TableFacts'
  <1> DEFINE m == arg[c].m
             n == Waiter(m)
             K == [Restored(c) EXCEPT !.prio[n] = Ceiling[m]]
  <1>0. WaitInv /\ TableFacts /\ k \in Kernel /\ c \in k.active
    BY Running DEF TableInv, LockInv, WaitInv, Runs, UnlockHandOff, At
  <1>1. m \in Mutexes /\ owner[m] = c
    BY <1>0 DEF TableInv, LockInv, UnlockersOwn, WaitInv, ArgsOK, UnlockHandOff, At
  <1>2. /\ n # -1 /\ owner' = [owner EXCEPT ![m] = n]
        /\ k' \in Return(UpdateOnWake(AssertActive(K, {n}, "MUTEX"), Ceiling[m]))
    BY DEF UnlockHandOff, NewOwner, HandedOff
  <1>3. n \in Task /\ n # c
    BY <1>0, <1>1, <1>2, WaiterFound DEF BlockedOn
  <1> HIDE DEF m, n
  <1>4. Ceiling[m] \in Priority /\ Ceiling[m] \in NoPriority .. HighestPriority
    <2>1. Ceiling[m] \in Priority
      BY <1>1, MutexAssumption
    <2>2. QED
      BY <2>1, TableAssumption DEF Priority, NoPriority
  <1>5. /\ Runs(Restored(c)) /\ Restored(c).used = k.used /\ Restored(c).active = k.active
        /\ \A t \in Task : t # c => Restored(c).block[t] = k.block[t]
    BY <1>0, RestoredRuns
  <1>6. /\ Runs(K) /\ K.used = Task /\ K.active = k.active /\ K.block = Restored(c).block
        /\ K.exec = Restored(c).exec /\ K.cur = Restored(c).cur /\ Ready(K) = Ready(Restored(c))
        /\ K.stopped = Restored(c).stopped /\ K.base = Restored(c).base
        /\ \A t \in Task : K.prio[t] = IF t = n THEN Ceiling[m] ELSE Restored(c).prio[t]
    <2>1. k.used = Task
      BY <1>0 DEF WaitInv, Types
    <2>2. QED
      BY <1>3, <1>4, <1>5, <2>1 DEF Runs, Kernel, Ready
  <1> HIDE DEF K
  <1>7. Busy(K) /\ K.stopped = {}
    BY <1>0, <1>6, RestoredBusy DEF Busy
  <1>8. "MUTEX" \in UnblockType
    BY DEF UnblockType
  <1>9. /\ k'.active = K.active \cup {n} /\ k'.base = K.base /\ k'.prio = K.prio
        /\ k'.stopped = {}
        /\ \A t \in Task : k'.block[t] = IF t \in {n} THEN NULL ELSE K.block[t]
    <2> DEFINE S == {n}
    <2>1. S \in SUBSET Task /\ k' \in Return(UpdateOnWake(AssertActive(K, S, "MUTEX"), Ceiling[m]))
      BY <1>2, <1>3
    <2>2. /\ k'.active = K.active \cup S /\ k'.base = K.base /\ k'.prio = K.prio
          /\ k'.stopped = K.stopped
          /\ \A t \in Task : k'.block[t] = IF t \in S THEN NULL ELSE K.block[t]
      <3> HIDE DEF S
      <3>1. QED
        BY <1>4, <1>6, <1>8, <2>1, WakeRuns
    <2>3. QED
      BY <1>7, <2>2
  <1>10. Busy(k')
    <2>1. n \in {n} /\ n \in K.used /\ n \notin K.stopped /\ K.prio[n] = Ceiling[m]
      BY <1>3, <1>6, <1>7
    <2>2. QED
      BY <1>2, <1>3, <1>4, <1>6, <1>7, <1>8, <2>1, WakeBusy
  <1>11. \A t \in Task : t # n => k'.prio[t] = IF t = c THEN k.base[c] ELSE k.prio[t]
    BY <1>0, <1>6, <1>9, RestoredBusy
  <1>12. k'.prio[n] >= Ceiling[m] /\ n \in k'.active /\ k'.prio[c] = k.base[c]
         /\ k'.base = k.base
    <2>1. Ceiling[m] \in Int
      BY <1>4 DEF Priority
    <2>2. QED
      BY <1>0, <1>3, <1>6, <1>9, <1>11, <2>1, RestoredBusy
  <1>13. \A t \in Task, v \in Conds : t \notin k'.active /\ k'.block[t] = CondObj(v)
           => t = c \/ (t \notin k.active /\ k.block[t] = CondObj(v))
    BY <1>5, <1>6, <1>9
  <1>14. owner[m] \in {-1, c} /\ n \in Task \cup {-1} /\ k'.stopped = {}
    BY <1>1, <1>3, <1>9
  <1>15. QED
    BY <1>0, <1>1, <1>2, <1>10, <1>11, <1>12, <1>13, <1>14, PassedFacts

LEMMA UnlockFreeFacts ==
    ASSUME TableInv, NEW c \in Task, UnlockFree(c)
    PROVE  TableFacts'
  <1> DEFINE m == arg[c].m
             R == Restored(c)
  <1>0. WaitInv /\ TableFacts /\ k \in Kernel /\ c \in k.active
    BY Running DEF TableInv, LockInv, WaitInv, Runs, UnlockFree, At
  <1>1. m \in Mutexes /\ owner[m] = c
    BY <1>0 DEF TableInv, LockInv, UnlockersOwn, WaitInv, ArgsOK, UnlockFree, At
  <1>2. owner' = [owner EXCEPT ![m] = -1] /\ k' \in Return(Unlocked(c))
    BY DEF UnlockFree, NewOwner
  <1>3. /\ Runs(R) /\ R.used = k.used /\ R.active = k.active
        /\ \A t \in Task : t # c => R.block[t] = k.block[t]
    BY <1>0, RestoredRuns
  <1>4. /\ Busy(R) /\ c \in Ready(R) /\ R.stopped = {} /\ R.base = k.base
        /\ R.cur = k.base[c] /\ k.base[c] \in Priority
        /\ \A t \in Task : R.prio[t] = IF t = c THEN k.base[c] ELSE k.prio[t]
    BY <1>0, RestoredBusy
  <1>5. Unlocked(c) = R \/ Unlocked(c) = UpdateOnWake(R, R.cur)
    BY DEF Unlocked
  <1> HIDE DEF m, R
  <1>6. R.cur \in NoPriority .. HighestPriority /\ ~(R.cur < R.cur)
    BY <1>3 DEF Runs, Kernel, NoPriority
  <1>7. Runs(Unlocked(c)) /\ Entries(Unlocked(c)) = Entries(R)
    BY <1>3, <1>5, <1>6, UpdateOnWakeRuns
  <1>8. Busy(Unlocked(c))
    <2> DEFINE U == UpdateOnWake(R, R.cur)
    <2>1. U.cur = R.cur /\ U.exec = {t \in Ready(R) : R.prio[t] = R.cur}
      BY <1>3, <1>6, UpdateOnWakeTaken DEF Runs
    <2> HIDE DEF U
    <2>2. c \in U.exec
      BY <1>4, <2>1
    <2>3. U.cur # NoPriority
      BY <1>4, <2>1, TableAssumption DEF Priority, NoPriority
    <2>4. Busy(U)
      BY <2>2, <2>3 DEF Busy
    <2>5. QED
      BY <1>4, <1>5, <2>4 DEF U
  <1>9. Busy(k') /\ Entries(k') = Entries(R)
    BY <1>2, <1>7, <1>8, ReturnBusy, ReturnRuns DEF Runs
  <1>10. /\ k'.active = k.active /\ k'.base = k.base /\ k'.stopped = {} /\ k'.prio = R.prio
         /\ k'.block = R.block
    BY <1>3, <1>4, <1>9 DEF Entries
  <1>11. \A t \in Task, v \in Conds : t \notin k'.active /\ k'.block[t] = CondObj(v)
           => t = c \/ (t \notin k.active /\ k.block[t] = CondObj(v))
    BY <1>3, <1>10
  <1>12. /\ \A t \in Task : k'.prio[t] = IF t = c THEN k.base[c] ELSE k.prio[t]
         /\ k'.base = k.base /\ k'.stopped = {} /\ c \in k'.active /\ Busy(k')
    BY <1>0, <1>4, <1>9, <1>10
  <1>13. owner[m] \in {-1, c} /\ -1 \in Task \cup {-1}
    BY <1>1
  <1>14. PICK n \in Task \cup {-1} : n = -1
    BY <1>13
  <1>15. owner' = [owner EXCEPT ![m] = n]
    BY <1>2, <1>14
  <1>16. \A t \in Task : t # n => k'.prio[t] = IF t = c THEN k.base[c] ELSE k.prio[t]
    BY <1>12, <1>14
  <1>17. /\ n # -1 => k'.prio[n] >= Ceiling[m] /\ n \in k'.active
         /\ c = n \/ c \in k'.active \/ k'.prio[c] = k.base[c]
    BY <1>12, <1>14
  <1>18. QED
    BY <1>0, <1>1, <1>11, <1>12, <1>13, <1>15, <1>16, <1>17, PassedFacts, Zenon

LEMMA LeftPriorities ==
    ASSUME k \in Kernel, NEW c \in Task, NEW m \in Mutexes, NEW n \in Task \cup {-1}, n # c
    PROVE  LET K == LeftTo(c, m, n)
           IN  /\ K.stopped = k.stopped /\ K.base = k.base
               /\ \A t \in Task : t # n => K.prio[t] = IF t = c THEN k.base[c] ELSE k.prio[t]
               /\ n # -1 => K.prio[n] = Ceiling[m]
  <1> DEFINE K1 == [k EXCEPT !.prio[c] = k.base[c]]
             K2 == [K1 EXCEPT !.prio[n] = Ceiling[m]]
  <1>1. /\ K1.stopped = k.stopped /\ K1.base = k.base /\ K1.prio = [k.prio EXCEPT ![c] = k.base[c]]
        /\ k.prio \in [Task -> Priority]
    BY DEF Kernel
  <1>2. CASE n = -1
    <2>1. LeftTo(c, m, n) = K1
      BY <1>2 DEF LeftTo
    <2> HIDE DEF K1
    <2>2. QED
      BY <1>1, <1>2, <2>1
  <1>3. CASE n # -1
    <2>1. /\ K2.stopped = K1.stopped /\ K2.base = K1.base
          /\ K2.prio = [K1.prio EXCEPT ![n] = Ceiling[m]]
      BY DEF Kernel
    <2>2. LeftTo(c, m, n) = AssertActive(K2, {n}, "MUTEX")
      BY <1>3 DEF HandedOff, LeftTo
    <2> HIDE DEF K1, K2
    <2>3. LET K == LeftTo(c, m, n)
          IN  K.stopped = K2.stopped /\ K.base = K2.base /\ K.prio = K2.prio
      BY <2>2 DEF AssertActive
    <2>4. QED
      BY <1>1, <1>3, <2>1, <2>3
  <1>4. QED
    BY <1>2, <1>3

LEMMA CondWaitFacts ==
    ASSUME TableInv, NEW c \in Task, CondWait(c)
    PROVE  TableFacts'
  <1> DEFINE m   == arg[c].m
             n   == arg[c].new_thread
             obj == CondObj(arg[c].v)
             K   == LeftTo(c, m, n)
  <1>0. WaitInv /\ TableFacts /\ k \in Kernel /\ c \in k.active /\ k.current = c
    BY Running DEF TableInv, LockInv, WaitInv, Runs, CondWait, At
  <1>1. m \in Mutexes /\ n \in Task \cup {-1} /\ arg[c].v \in Conds /\ n # c
    BY <1>0 DEF TableInv, HeirOther, WaitInv, Types, ArgsOK, CondWait, At, Arg
  <1>2. owner[m] = c /\ owner' = [owner EXCEPT ![m] = n]
    BY DEF CondWait
  <1>3. PICK kind : k' \in Return(TimedBlock(K, obj, kind))
    BY DEF CondWait, LeftTo
  <1>4. obj \in Object /\ obj # NULL
    BY <1>1, MutexObject
  <1>5. /\ Runs(K) /\ K.used = k.used /\ K.current = c
        /\ K.active = k.active \cup (IF n # -1 THEN {n} ELSE {})
        /\ \A t \in Task : t # n => K.block[t] = k.block[t]
    <2> HIDE DEF m, n
    <2>1. QED
      BY <1>0, <1>1, LeftRuns
  <1>6. /\ K.stopped = k.stopped /\ K.base = k.base
        /\ \A t \in Task : t # n => K.prio[t] = IF t = c THEN k.base[c] ELSE k.prio[t]
        /\ n # -1 => K.prio[n] = Ceiling[m]
    <2> HIDE DEF m, n
    <2>1. QED
      BY <1>0, <1>1, LeftPriorities
  <1> HIDE DEF m, n, obj, K
  <1>7. /\ Runs(k') /\ IsTop(k') /\ k'.active = K.active \ {c}
        /\ k'.block = [K.block EXCEPT ![c] = obj]
        /\ k'.base = K.base /\ k'.prio = K.prio /\ k'.stopped = K.stopped
    BY <1>3, <1>4, <1>5, BlockRuns
  <1>8. Busy(k') /\ k'.stopped = {} /\ k'.base = k.base
    BY <1>0, <1>6, <1>7, TopBusy DEF Runs, TableFacts
  <1>9. \A t \in Task : t # n => k'.prio[t] = IF t = c THEN k.base[c] ELSE k.prio[t]
    BY <1>6, <1>7
  <1>10. n # -1 => k'.prio[n] >= Ceiling[m] /\ n \in k'.active
    <2>1. Ceiling[m] \in Int
      BY <1>1, MutexAssumption DEF Priority
    <2>2. QED
      BY <1>1, <1>5, <1>6, <1>7, <2>1
  <1>11. \A t \in Task, v \in Conds : t \notin k'.active /\ k'.block[t] = CondObj(v)
           => t = c \/ (t \notin k.active /\ k.block[t] = CondObj(v))
    <2> SUFFICES ASSUME NEW t \in Task, NEW v \in Conds, t # c,
                        t \notin k'.active, k'.block[t] = CondObj(v)
                 PROVE  t \notin k.active /\ k.block[t] = CondObj(v)
      OBVIOUS
    <2>1. t \notin K.active /\ k'.block[t] = K.block[t]
      BY <1>5, <1>7 DEF Runs, Kernel
    <2>2. t # n
      BY <1>5, <2>1 DEF Task
    <2>3. QED
      BY <1>5, <2>1, <2>2
  <1>12. k'.prio[c] = k.base[c]
    BY <1>1, <1>9
  <1>13. QED
    BY <1>0, <1>1, <1>2, <1>8, <1>9, <1>10, <1>11, <1>12, PassedFacts

LEMMA ConditionFacts ==
    ASSUME TableInv, NEW c \in Task,
           CondSignal(c) \/ \E v \in Conds : CondBroadcast(c, v)
    PROVE  TableFacts'
  <1>0. WaitInv /\ TableFacts /\ k \in Kernel /\ owner' = owner
    BY DEF TableInv, LockInv, WaitInv, Runs, CondSignal, CondBroadcast
  <1>1. "COND" \in UnblockType
    BY DEF UnblockType
  <1>2. CASE CondSignal(c)
    <2> DEFINE n == arg[c].new_thread
               S == {n}
    <2>1. n \in Task /\ k' \in Return(UpdateOnWake(AssertActive(k, S, "COND"), k.prio[n]))
      BY <1>0, <1>2 DEF WaitInv, ArgsOK, CondSignal, At
    <2>2. S \in SUBSET Task /\ n \in S
      BY <2>1
    <2> HIDE DEF S, n
    <2>3. k.prio[n] \in NoPriority .. HighestPriority
      BY <1>0, <2>1, Priorities
    <2>4. QED
      BY <1>0, <1>1, <2>1, <2>2, <2>3, WokenFacts
  <1>3. ASSUME NEW v \in Conds, CondBroadcast(c, v) PROVE TableFacts'
    <2> DEFINE S == BlockedOn(k, CondObj(v))
               B == [k EXCEPT !.prio = k.base]
               p == TopPriority(B, S)
    <2>1. k' \in Return(UpdateOnWake(AssertActive(k, S, "COND"), p))
      BY <1>3 DEF CondBroadcast, UnblockAll
    <2>2. S \in SUBSET Task
      BY <1>0 DEF BlockedOn, Kernel
    <2>3. B \in Kernel /\ B.prio = k.base
      BY <1>0 DEF Kernel
    <2>4. \A t \in S : k.prio[t] = k.base[t]
      BY <1>0, <2>2 DEF BlockedOn, TableFacts, WaiterOf
    <2> HIDE DEF S, B
    <2>5. p \in NoPriority .. HighestPriority
      BY <2>2, <2>3, TopPriorityRange
    <2>6. S = {} => p = NoPriority
      BY DEF TopPriority
    <2>7. S # {} => \E t \in S : k.prio[t] = p
      BY <2>2, <2>3, <2>4, TopPriorityIsMax
    <2> HIDE DEF p
    <2>8. QED
      BY <1>0, <1>1, <2>1, <2>2, <2>5, <2>6, <2>7, WokenFacts
  <1>4. QED
    BY <1>2, <1>3

-----------------------------------------------------------------------------
\* The heir: only pthread_cond_wait()'s look for a waiter chooses one.
LEMMA HeirMoved ==
    ASSUME WaitInv, HeirOther, NEW c \in Task, NEW l, NEW a,
           pc' = [pc EXCEPT ![c] = l], arg' = [arg EXCEPT ![c] = a],
           l = "condwait" => a.new_thread # c
    PROVE  HeirOther'
  BY DEF WaitInv, Types, HeirOther

LEMMA NextHeir ==
    ASSUME WaitInv, HeirOther, [Next]_vars
    PROVE  HeirOther'
  <1>1. CASE UNCHANGED <<pc, arg>>
    BY <1>1 DEF HeirOther
  <1>2. ASSUME NEW c \in Task, Back(c) PROVE HeirOther'
    BY <1>2, HeirMoved DEF Back, Goto, With
  <1>3. ASSUME NEW c \in Task, NEW l \in {"blocked", "waiting"}, Goto(c, l), arg' = arg
        PROVE  HeirOther'
    BY <1>3 DEF Goto, HeirOther, WaitInv, Types
  <1>4. ASSUME NEW c \in Task, NEW l \in {"trylock", "unlock", "condsignal"}, NEW a,
               Goto(c, l), With(c, a)
        PROVE  HeirOther'
    BY <1>4, HeirMoved DEF Goto, With
  <1>5. ASSUME NEW c \in Task, NEW v \in Conds, NEW m \in Mutexes,
               NEW how \in {"lock", "timed"}, CondWaitCall(c, v, m, how)
        PROVE  HeirOther'
    <2>1. Waiter(m) # c
      <3>1. c \in k.active /\ c # -1
        BY <1>5, Running DEF CondWaitCall, At, Task
      <3>2. QED
        BY <3>1, WaiterFound DEF BlockedOn
    <2> DEFINE a == [m |-> m, v |-> v, how |-> how, new_thread |-> Waiter(m)]
    <2>2. a.new_thread # c
      BY <2>1
    <2>3. pc' = [pc EXCEPT ![c] = "condwait"] /\ arg' = [arg EXCEPT ![c] = a]
      BY <1>5 DEF CondWaitCall, Goto, With
    <2> HIDE DEF a
    <2>4. QED
      BY <2>2, <2>3, HeirMoved
  <1>6. ASSUME NEW c \in Task, MutexStep(c) PROVE HeirOther'
    BY <1>1, <1>2, <1>3, <1>4, <1>6 DEF MutexStep, LockCall, LockAgain, UnlockCall,
       UnlockDenied, TryLockFree, TryLockBusy, TryLockBlock, LockWoken, UnlockHandOff,
       UnlockFree
  <1>7. ASSUME NEW c \in Task, CondStep(c) PROVE HeirOther'
    BY <1>1, <1>2, <1>3, <1>4, <1>5, <1>7 DEF CondStep, CondWait, CondWaitDenied, CondWoken,
       CondSignal, CondSignalCall, CondBroadcast
  <1>8. CASE \/ SysTick \/ TimerMatch \/ UNCHANGED vars
             \/ \E c \in Task : Sleep(c) \/ \E t \in Task : Signal(c, t)
    BY <1>1, <1>8 DEF SysTick, TimerMatch, vars, Sleep, Signal
  <1>9. QED
    BY <1>6, <1>7, <1>8 DEF Next

LEMMA InitTable == Init => TableInv
  <1> SUFFICES ASSUME Init PROVE TableInv
    OBVIOUS
  <1>1. Runs(k) /\ IsTop(k) /\ LockInv
    BY InitRuns, InitLock
  <1>2. Busy(k)
    BY <1>1, TopBusy DEF Runs
  <1>3. k.prio = k.base /\ k.stopped = {} /\ k.active = Task
    BY DEF Init
  <1>4. HeirOther /\ \A m \in Mutexes : owner[m] = -1
    BY DEF Init, HeirOther
  <1>5. QED
    BY <1>1, <1>2, <1>3, <1>4 DEF TableInv, TableFacts, BaseOf, WaiterOf, Raised

LEMMA NextTable ==
    ASSUME TableInv, [Next]_vars
    PROVE  TableInv'
  <1>1. LockInv' /\ HeirOther'
    BY NextLock, NextHeir DEF TableInv, LockInv
  <1>2. CASE UNCHANGED <<k, owner>>
    BY <1>1, <1>2, SameTableFacts DEF TableInv
  <1>3. ASSUME NEW c \in Task, MutexStep(c) PROVE TableFacts' \/ UNCHANGED <<k, owner>>
    BY <1>3, TryLockFreeFacts, TryLockBlockFacts, UnlockHandOffFacts, UnlockFreeFacts
       DEF MutexStep, LockCall, LockAgain, UnlockCall, UnlockDenied, TryLockBusy, LockWoken
  <1>4. ASSUME NEW c \in Task, CondStep(c) PROVE TableFacts' \/ UNCHANGED <<k, owner>>
    BY <1>4, CondWaitFacts, ConditionFacts
       DEF CondStep, CondWaitCall, CondWaitDenied, CondWoken, CondSignalCall
  <1>5. CASE \/ SysTick \/ TimerMatch
             \/ \E c \in Task : Sleep(c) \/ \E t \in Task : Signal(c, t)
    BY <1>1, <1>5, EnvironmentFacts, ClientFacts DEF TableInv
  <1>6. CASE UNCHANGED vars
    BY <1>2, <1>6 DEF vars
  <1>7. QED
    BY <1>1, <1>2, <1>3, <1>4, <1>5, <1>6 DEF Next, TableInv

\* The updates on wakes, sleeps, hand-offs and restored priorities never leave the
\* processor idle while a thread is ready, nor executable a thread that is not.
THEOREM ProcessorUsed == Spec => []WorkConserving
  <1>1. TableInv => WorkConserving
    BY DEF TableInv, LockInv, WaitInv, Runs, TableFacts, Busy, WorkConserving
  <1>2. QED
    BY <1>1, InitTable, NextTable, PTL DEF Spec

\* With one mutex, for any number of threads and conditions: the ceiling is
\* given with the mutex and taken back with it, whether it is locked, handed over
\* by priv_mutex_unlock() or left to an heir by priv_cond_wait().
THEOREM CeilingFollowsOwner ==
    ASSUME SingleMutex
    PROVE  Spec => []PriorityProtocol
  <1>1. TableInv => PriorityProtocol
    <2> SUFFICES ASSUME TableInv, NEW c \in Task
                 PROVE  LET owned == {m \in Mutexes : owner[m] = c}
                        IN  /\ pc[c] = "run" /\ owned = {} => k.prio[c] = k.base[c]
                            /\ \A m \in owned : k.prio[c] >= Ceiling[m]
      BY DEF PriorityProtocol
    <2>1. BaseOf(c) /\ \A m \in Mutexes : Raised(m)
      BY SingleMutex DEF TableInv, TableFacts
    <2>2. c # -1
      BY DEF Task
    <2>3. QED
      BY <2>1, <2>2 DEF BaseOf, Raised
  <1>2. QED
    BY <1>1, InitTable, NextTable, PTL DEF Spec
=============================================================================
