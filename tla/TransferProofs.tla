--------------------------- MODULE TransferProofs ----------------------------
(***************************************************************************)
(* Proofs about the transfers of a device and about the files of the flash *)
(* file system.                                                            *)
(*                                                                         *)
(* A thread that waits for a transfer has one that will be completed, the  *)
(* count that it returns is the true one, and the processor does not idle. *)
(* A privileged call is a chain of callbacks and driver functions, from a  *)
(* system's state to the next; the invariant is therefore one of such a    *)
(* record and of the threads' places, and each link of the chain keeps it. *)
(*                                                                         *)
(* A file has its old or its new contents whenever power fails, it has one *)
(* version, no block of it is lost, and the device can be mounted.         *)
(***************************************************************************)
EXTENDS Transfer, CafsFile, SchedTableProofs, SequenceTheorems, FiniteSetTheorems

\* The records of the model, without the bounds that TypeOK has for them.
Number  == Int
IoType  == [read : BOOLEAN, ret : Number, nbyte : Number, got : Number]
AioType == [busy : BOOLEAN, failed : BOOLEAN, nbyte : Number, got : Number]
UType   == [rbrie : BOOLEAN, etbei : BOOLEAN, rcb : Ctx, wcb : Ctx, rxbuf : Ctx,
            rxlen : Nat, txlen : Number, fifo : Nat]
Mishaps == {"stray", "cancelled", "refused"}
SysType == [k : Kernel, io : [Task -> IoType], aio : [Task -> AioType], u : UType,
            spoilt : SUBSET Mishaps]

\* Callbacks into a thread's call of read() or write(), and for its asynchronous
\* transfer.
InCall(t) == <<"io", t>>
InAio(t)  == <<"aio", t>>

\* The table of a system whose threads all exist and are never stopped.
Table(K) ==
    /\ Runs(K) /\ Busy(K)
    /\ K.used = Task /\ K.inuse = Task /\ K.stopped = {}

-----------------------------------------------------------------------------
\* The inductive invariant, of a system's state s and the threads' places P.

\* Who sleeps is waiting for what the driver will call back, or for what the
\* driver refused; who does not sleep has no blocking object.
SleepInv(s, P) ==
    \A t \in Task :
        \/ t \in s.k.active /\ s.k.block[t] = NULL
        \/ /\ t \notin s.k.active /\ P[t] = "check"
           /\ \/ s.k.block[t] = DevObj(TRUE) /\ s.u.rcb = InCall(t)
              \/ s.k.block[t] = DevObj(FALSE) /\ s.u.wcb = InCall(t)
        \/ /\ t \notin s.k.active /\ P[t] = "suspended" /\ s.k.block[t] = AioObj(t)
           /\ "refused" \in s.spoilt \/ s.u.rcb = InAio(t) \/ s.u.wcb = InAio(t)

\* The driver has a callback exactly when the interrupt that leads to it is
\* enabled.
DriverInv(s) == (s.u.rcb # None <=> s.u.rbrie) /\ (s.u.wcb # None <=> s.u.etbei)

\* A callback into a call of read() or write() finds the call in progress: its
\* thread sleeps, or a signal has woken it and it has not cancelled yet.
CallsInv(s, P) ==
    \A t \in Task :
        /\ s.u.rcb = InCall(t) => s.io[t].read
        /\ s.u.wcb = InCall(t) => ~s.io[t].read
        /\ InCall(t) \in {s.u.rcb, s.u.wcb} =>
              \/ P[t] = "check" /\ (t \notin s.k.active \/ s.k.unblock[t] = "SIGNAL")
              \/ P[t] = "cancel"

\* An asynchronous transfer that the driver took is one it will call back.
AioInv(s) ==
    \A t \in Task :
        s.aio[t].busy /\ ~s.aio[t].failed => InAio(t) \in {s.u.rcb, s.u.wcb}

Good(s, P) ==
    /\ s \in SysType /\ Table(s.k) /\ P \in [Task -> PC]
    /\ SleepInv(s, P) /\ DriverInv(s) /\ CallsInv(s, P) /\ AioInv(s)

\* The receiver fills the buffer of the transfer whose callback it will call.
RxInv(s) == s.u.rbrie => s.u.rxbuf = s.u.rcb

\* What a read has got is what it will return, or it is under way and nothing
\* has come yet.
Returned(r) == IF r.ret # 0 THEN r.ret ELSE r.nbyte

CountInv(s, P) ==
    {"stray", "cancelled"} \cap s.spoilt = {} =>
        \A t \in Task : P[t] = "check" /\ s.io[t].read =>
            IF s.u.rcb = InCall(t)
            THEN s.io[t].ret = 0 /\ s.io[t].got = 0 /\ s.io[t].nbyte = s.u.rxlen
            ELSE Returned(s.io[t]) > 0 => Returned(s.io[t]) = s.io[t].got

Inv(s, P) == Good(s, P) /\ RxInv(s) /\ CountInv(s, P)

TransferInv == Inv(Sys, pc)

-----------------------------------------------------------------------------
\* The table.

\* The maximum that priv_data_transfer_callback() takes of the priorities.
LEMMA MaxOfPriorities ==
    ASSUME NEW K \in Kernel, NEW X \in SUBSET Task
    PROVE  LET p == Max({K.prio[i] : i \in X} \cup {NoPriority})
           IN  /\ p \in NoPriority .. HighestPriority
               /\ X = {} => p = NoPriority
               /\ X # {} => \E i \in X : K.prio[i] = p
  <1> DEFINE V == {K.prio[i] : i \in X} \cup {NoPriority}
             p == CHOOSE x \in V : \A y \in V : x >= y
  <1>1. K.prio \in [Task -> Priority]
    BY DEF Kernel
  <1>2. /\ NoPriority \in Int /\ HighestPriority \in Nat /\ NoPriority < 0
        /\ \A i \in X : K.prio[i] \in 0 .. HighestPriority
    BY <1>1, TableAssumption DEF NoPriority, Priority
  <1>3. \E x \in V : \A y \in V : x >= y
    <2>1. CASE X = {}
      BY <1>2, <2>1
    <2>2. CASE X # {}
      <3>1. /\ \E t \in X : K.prio[t] = TopPriority(K, X)
            /\ \A t \in X : K.prio[t] <= TopPriority(K, X)
        BY <2>2, TopPriorityIsMax
      <3>2. PICK t \in X : \A i \in X : K.prio[i] <= K.prio[t]
        BY <3>1
      <3>3. QED
        BY <1>2, <3>2
    <2>3. QED
      BY <2>1, <2>2
  <1>4. p \in V /\ \A y \in V : p >= y
    BY <1>3, Zenon
  <1>5. Max(V) = p
    BY DEF Max
  <1> HIDE DEF p
  <1>6. p \in NoPriority .. HighestPriority
    BY <1>2, <1>4
  <1>7. X = {} => p = NoPriority
    BY <1>4
  <1>8. X # {} => \E i \in X : K.prio[i] = p
    <2> SUFFICES ASSUME NEW j \in X PROVE \E i \in X : K.prio[i] = p
      OBVIOUS
    <2>1. K.prio[j] \in V /\ p \in V
      BY <1>4
    <2>2. p >= K.prio[j]
      BY <1>4, <2>1
    <2>3. p # NoPriority
      BY <1>2, <1>6, <2>2
    <2>4. QED
      BY <2>1, <2>3
  <1>9. QED
    BY <1>5, <1>6, <1>7, <1>8

\* The priority that the threads start with.
LEMMA MaxOfBase ==
    ASSUME NEW B \in [Task -> Priority]
    PROVE  Max({B[t] : t \in Task}) = TopOf(B)
  <1> DEFINE V == {B[t] : t \in Task}
             p == CHOOSE x \in V : \A y \in V : x >= y
  <1>1. /\ TopOf(B) \in V /\ \A y \in V : y <= TopOf(B)
        /\ \A y \in V : y \in Int
    <2>1. \A t \in Task : B[t] \in Int
      BY DEF Priority
    <2>2. (\E t \in Task : B[t] = TopOf(B)) /\ \A t \in Task : B[t] <= TopOf(B)
      BY TopOfIsTop
    <2>3. QED
      BY <2>1, <2>2
  <1>2. \E x \in V : \A y \in V : x >= y
    BY <1>1
  <1>3. p \in V /\ \A y \in V : p >= y
    BY <1>2, Zenon
  <1>4. Max(V) = p
    BY DEF Max
  <1> HIDE DEF p
  <1>5. p \in Int /\ TopOf(B) \in Int /\ p >= TopOf(B) /\ p <= TopOf(B)
    BY <1>1, <1>3
  <1>6. QED
    BY <1>4, <1>5

\* A callback wakes the threads S: U is the table K after it.
AfterWake(K, U, S, u1) ==
    /\ Table(U) /\ U.current = K.current
    /\ U.active = K.active \cup S
    /\ \A t \in Task : /\ U.block[t] = IF t \in S THEN NULL ELSE K.block[t]
                       /\ U.unblock[t] = IF t \in S THEN u1 ELSE K.unblock[t]

LEMMA WokenTable ==
    ASSUME NEW K \in Kernel, Table(K), NEW S \in SUBSET Task, NEW u1 \in UnblockType,
           NEW i \in S \cup (K.active \cap Task), NEW p, p = K.prio[i],
           NEW U, U = UpdateOnWake(AssertActive(K, S, u1), p)
    PROVE  AfterWake(K, U, S, u1)
  <1> DEFINE A == AssertActive(K, S, u1)
  <1>1. K \in Kernel /\ A \in Kernel /\ Runs(K) /\ Busy(K)
    BY AssertActiveKernel DEF Table, Runs
  <1>2. p \in NoPriority .. HighestPriority
    BY <1>1, TableAssumption DEF Kernel, Priority, NoPriority
  <1>9. \E t \in S \cup (K.active \cap Task) :
           t \in K.used /\ t \notin K.stopped /\ K.prio[t] = p
    BY DEF Table
  <1>10. U = UpdateOnWake(AssertActive(K, S, u1), p)
    OBVIOUS
  <1>11. U \in Kernel /\ Busy(U)
    BY <1>1, <1>2, <1>9, <1>10, WokenBusy
  <1>3. /\ A.used = Task /\ A.inuse = Task /\ A.stopped = {}
        /\ A.active = K.active \cup S /\ A.exec = K.exec /\ A.current = K.current
        /\ A.block = [t \in Task |-> IF t \in S THEN NULL ELSE K.block[t]]
        /\ A.unblock = [t \in Task |-> IF t \in S THEN u1 ELSE K.unblock[t]]
    BY <1>1 DEF AssertActive, Kernel, Table
  <1>0. U = UpdateOnWake(A, p)
    BY <1>10
  <1> HIDE DEF A
  <1>4. Runs(A)
    BY <1>1, <1>3 DEF Runs, Ready, Table
  <1>5. Runs(U) /\ Entries(U) = Entries(A)
    BY <1>0, <1>2, <1>4, UpdateOnWakeRuns
  <1>6. U.current = A.current
    <2>1. U \in {A, [A EXCEPT !.cur  = p, !.exec = {t \in Ready(A) : A.prio[t] = p},
                              !.pend = @ \/ p > A.cur]}
      BY <1>0 DEF UpdateOnWake
    <2>2. QED
      BY <1>1, <2>1 DEF Kernel
  <1>7. Table(U)
    BY <1>11, <1>3, <1>5 DEF Table, Entries
  <1>8. QED
    BY <1>3, <1>5, <1>6, <1>7 DEF Entries, AfterWake

\* The call or the handler returns.
LEMMA ReturnTable ==
    ASSUME NEW K, Table(K), NEW R \in Return(K)
    PROVE  /\ Table(R) /\ R \in Kernel
           /\ R.active = K.active /\ R.block = K.block /\ R.unblock = K.unblock
  <1>1. K \in Kernel /\ Busy(K) /\ Runs(K) /\ K.exec \subseteq Ready(K)
        /\ K.current \in K.active \cup {0}
    BY DEF Table, Runs
  <1>2. Runs(R) /\ Entries(R) = Entries(K)
    BY <1>1, ReturnRuns
  <1>3. Busy(R)
    BY <1>1, ReturnBusy
  <1>4. QED
    BY <1>2, <1>3 DEF Table, Entries, Runs

\* The thread c sleeps on obj in R.
Asleep(K, R, c, obj) ==
    /\ Table(R) /\ R \in Kernel
    /\ R.active = K.active \ {c} /\ R.unblock = K.unblock
    /\ R.block = [K.block EXCEPT ![c] = obj]

\* The running thread goes to sleep and the call returns.
WithObject(K, c, obj) == [K EXCEPT !.block[c] = obj]

LEMMA SleepTable ==
    ASSUME NEW K, Table(K), NEW c \in Task, K.current = c, NEW obj \in Object,
           NEW R \in Return(UpdateOnSleep(WithObject(K, c, obj)))
    PROVE  Asleep(K, R, c, obj)
  <1> DEFINE K1 == WithObject(K, c, obj)
  <1>1. K \in Kernel /\ Runs(K)
    BY DEF Table, Runs
  <1>2. /\ K1 \in Kernel /\ K1.used = Task /\ K1.inuse = Task /\ K1.stopped = {}
        /\ K1.active = K.active /\ K1.unblock = K.unblock /\ K1.current = c
        /\ K1.exec = K.exec /\ K1.block = [K.block EXCEPT ![c] = obj]
    BY <1>1 DEF Kernel, Table, WithObject
  <1>3. R \in Return(UpdateOnSleep(K1))
    OBVIOUS
  <1> HIDE DEF K1
  <1>4. Runs(K1)
    BY <1>1, <1>2 DEF Runs, Ready, Table
  <1>5. /\ Runs(R) /\ IsTop(R) /\ R.used = K1.used /\ R.inuse = K1.inuse
        /\ R.active = K1.active \ {c} /\ R.unblock = K1.unblock
        /\ R.block = K1.block /\ R.stopped = K1.stopped
    BY <1>2, <1>3, <1>4, SleepRuns
  <1>6. R \in Kernel /\ Busy(R)
    BY <1>5, TopBusy DEF Runs
  <1>7. QED
    BY <1>2, <1>5, <1>6 DEF Table, Asleep

\* Objects of the two directions and of asynchronous transfers differ.
LEMMA Objects ==
    /\ \A t \in Task : AioObj(t) \in Object
    /\ DevObj(TRUE) \in Object /\ DevObj(FALSE) \in Object /\ DevObj(TRUE) # DevObj(FALSE)
    /\ NULL \in Object /\ DevObj(TRUE) # NULL /\ DevObj(FALSE) # NULL
    /\ \A t \in Task : AioObj(t) \notin {NULL, DevObj(TRUE), DevObj(FALSE)}
  <1>1. Task \subseteq Nat
    BY TableAssumption DEF Task
  <1>2. QED
    BY <1>1 DEF AioObj, DevObj, NULL, Object, ObjectKind

\* Contexts of callbacks differ.
LEMMA Contexts ==
    /\ None \in Ctx
    /\ \A t \in Task : /\ InCall(t) \in Ctx /\ InAio(t) \in Ctx
                       /\ InCall(t) # None /\ InAio(t) # None
    /\ \A i, j \in Task : /\ InCall(i) = InCall(j) => i = j
                          /\ InAio(i) = InAio(j) => i = j
                          /\ InCall(i) # InAio(j)
    /\ \A x \in Ctx : x = None \/ \E t \in Task : x = InCall(t) \/ x = InAio(t)
  BY DEF None, Ctx, InCall, InAio

-----------------------------------------------------------------------------
\* The callbacks.

\* Threads that the callback of ctx wakes: the one that is in the call, or that
\* is suspended for the asynchronous transfer.
Woken(s, ctx) ==
    {t \in Task : /\ t \notin s.k.active
                  /\ ctx = InCall(t) \/ (ctx = InAio(t) /\ s.k.block[t] = AioObj(t))}

\* d is s after the callback of ctx.
CalledBack(s, d, ctx, cancelled, u1) ==
    /\ d \in SysType /\ Table(d.k)
    /\ d.k.active = s.k.active \cup Woken(s, ctx)
    /\ \A t \in Task :
          /\ d.k.block[t] = IF t \in Woken(s, ctx) THEN NULL ELSE s.k.block[t]
          /\ d.k.unblock[t] = IF t \in Woken(s, ctx) THEN u1 ELSE s.k.unblock[t]
    /\ d.k.current = s.k.current
    /\ d.u = s.u /\ d.spoilt = s.spoilt
    /\ \A t \in Task : /\ d.aio[t].failed = s.aio[t].failed
                       /\ d.aio[t].busy = (s.aio[t].busy /\ ctx # InAio(t))
                       /\ d.io[t].read = s.io[t].read
                       /\ (~cancelled \/ ctx # InCall(t)) => d.io[t] = s.io[t]

\* Who sleeps on a direction of the device is the thread whose transfer it is.
LEMMA WaitingIsWoken ==
    ASSUME NEW s, NEW P, Good(s, P), NEW read \in BOOLEAN, NEW t \in Task,
           InCall(t) = IF read THEN s.u.rcb ELSE s.u.wcb
    PROVE  /\ Waiting(s, read) = {t} \ s.k.active
           /\ Woken(s, InCall(t)) = {t} \ s.k.active
  <1>1. Woken(s, InCall(t)) = {t} \ s.k.active
    BY Contexts DEF Woken
  <1>2. Waiting(s, read) = {i \in Task : s.k.block[i] = DevObj(read)}
    BY DEF Waiting, Good, Table
  <1>3. CASE read = TRUE
    <2>1. s.u.rcb = InCall(t)
      BY <1>3
    <2>2. \A i \in Task : s.k.block[i] = DevObj(TRUE) => i \notin s.k.active /\ i = t
      <3>1. \A i \in Task : s.k.block[i] = DevObj(TRUE) =>
               i \notin s.k.active /\ s.u.rcb = InCall(i)
        BY DEF Good, SleepInv, DevObj, AioObj, NULL
      <3>2. QED
        BY <2>1, <3>1, Contexts
    <2>3. t \notin s.k.active => s.k.block[t] = DevObj(TRUE)
      <3>1. ASSUME t \notin s.k.active PROVE P[t] = "check" /\ s.io[t].read
        BY <2>1, <3>1 DEF Good, CallsInv, SleepInv
      <3>2. ASSUME t \notin s.k.active PROVE s.u.wcb # InCall(t)
        BY <3>1, <3>2 DEF Good, CallsInv
      <3>3. QED
        BY <3>1, <3>2 DEF Good, SleepInv
    <2>4. QED
      BY <1>1, <1>2, <1>3, <2>2, <2>3
  <1>4. CASE read = FALSE
    <2>1. s.u.wcb = InCall(t)
      BY <1>4
    <2>2. \A i \in Task : s.k.block[i] = DevObj(FALSE) => i \notin s.k.active /\ i = t
      <3>1. \A i \in Task : s.k.block[i] = DevObj(FALSE) =>
               i \notin s.k.active /\ s.u.wcb = InCall(i)
        BY DEF Good, SleepInv, DevObj, AioObj, NULL
      <3>2. QED
        BY <2>1, <3>1, Contexts
    <2>3. t \notin s.k.active => s.k.block[t] = DevObj(FALSE)
      <3>1. ASSUME t \notin s.k.active PROVE P[t] = "check" /\ ~s.io[t].read
        BY <2>1, <3>1 DEF Good, CallsInv, SleepInv
      <3>2. ASSUME t \notin s.k.active PROVE s.u.rcb # InCall(t)
        BY <3>1, <3>2 DEF Good, CallsInv
      <3>3. QED
        BY <3>1, <3>2 DEF Good, SleepInv
    <2>4. QED
      BY <1>1, <1>2, <1>4, <2>2, <2>3
  <1>5. QED
    BY <1>3, <1>4

\* priv_data_transfer_callback() looks at the priority of a thread that it wakes
\* or that is awake.
LEMMA IoCalledBack ==
    ASSUME NEW s, NEW P, Good(s, P), NEW read \in BOOLEAN, NEW cancelled \in BOOLEAN,
           NEW t \in Task, InCall(t) = IF read THEN s.u.rcb ELSE s.u.wcb
    PROVE  CalledBack(s, IoCallback(s, t, read, cancelled), InCall(t), cancelled, "TRANSFER")
  <1> DEFINE W == Waiting(s, read)
             X == W \cup ({t} \cap s.k.inuse)
             p == Max({s.k.prio[i] : i \in X} \cup {NoPriority})
             U == UpdateOnWake(AssertActive(s.k, W, "TRANSFER"), p)
             d == IoCallback(s, t, read, cancelled)
  <1>1. W = {t} \ s.k.active /\ Woken(s, InCall(t)) = W
    BY WaitingIsWoken
  <1>2. s \in SysType /\ s.k \in Kernel /\ Table(s.k)
    BY DEF Good, SysType
  <1>3. X = {t}
    BY <1>1, <1>2 DEF Table
  <1>4. X \in SUBSET Task /\ X # {}
    BY <1>3
  <1>5. p = s.k.prio[t]
    BY <1>2, <1>3, <1>4, MaxOfPriorities
  <1>6. d = [s EXCEPT !.k = U, !.io[t].nbyte = IF cancelled THEN -1 ELSE @]
    BY DEF IoCallback
  <1> HIDE DEF p, X, W, d
  <1>7. W \in SUBSET Task /\ "TRANSFER" \in UnblockType
    BY <1>1 DEF UnblockType
  <1>8. t \in W \cup (s.k.active \cap Task)
    BY <1>1
  <1>9. /\ Table(U) /\ U.current = s.k.current /\ U.active = s.k.active \cup W
        /\ \A i \in Task :
              /\ U.block[i] = IF i \in W THEN NULL ELSE s.k.block[i]
              /\ U.unblock[i] = IF i \in W THEN "TRANSFER" ELSE s.k.unblock[i]
    <2>1. AfterWake(s.k, U, W, "TRANSFER")
      BY <1>2, <1>5, <1>7, <1>8, WokenTable
    <2> HIDE DEF U
    <2>2. QED
      BY <2>1 DEF AfterWake
  <1> HIDE DEF U
  <1>10. U \in Kernel
    BY <1>9 DEF Table, Runs
  <1>11. s.io \in [Task -> IoType]
    BY <1>2 DEF SysType
  <1>12. DEFINE x == [s.io EXCEPT ![t].nbyte = IF cancelled THEN -1 ELSE @]
  <1>13. /\ x \in [Task -> IoType]
         /\ \A i \in Task : /\ x[i].read = s.io[i].read
                            /\ (~cancelled \/ i # t) => x[i] = s.io[i]
    BY <1>11 DEF IoType, Number
  <1>14. /\ d.k = U /\ d.io = x /\ d.aio = s.aio /\ d.u = s.u /\ d.spoilt = s.spoilt
    BY <1>2, <1>6 DEF SysType
  <1> HIDE DEF x
  <1>15. d = [k |-> U, io |-> x, aio |-> s.aio, u |-> s.u, spoilt |-> s.spoilt]
    BY <1>2, <1>6 DEF SysType, x
  <1>16. d \in SysType
    BY <1>2, <1>10, <1>13, <1>15 DEF SysType
  <1>17. \A i \in Task : InCall(t) # InAio(i) /\ (InCall(t) = InCall(i) <=> i = t)
    BY Contexts
  <1>18. s.aio \in [Task -> AioType]
    BY <1>2 DEF SysType
  <1>19. \A i \in Task : /\ d.aio[i].failed = s.aio[i].failed
                         /\ d.aio[i].busy = (s.aio[i].busy /\ InCall(t) # InAio(i))
                         /\ d.io[i].read = s.io[i].read
                         /\ (~cancelled \/ InCall(t) # InCall(i)) => d.io[i] = s.io[i]
    BY <1>13, <1>14, <1>17, <1>18 DEF AioType
  <1>20. QED
    BY <1>1, <1>9, <1>14, <1>16, <1>19 DEF CalledBack, d

\* aio_data_transfer_callback() wakes its thread if that is suspended for it.
LEMMA AioCalledBack ==
    ASSUME NEW s, NEW P, Good(s, P), NEW cancelled \in BOOLEAN, NEW t \in Task
    PROVE  CalledBack(s, AioCallback(s, t), InAio(t), cancelled, "AIO")
  <1> DEFINE W == Woken(s, InAio(t))
             U == UpdateOnWake(AssertActive(s.k, {t}, "AIO"), s.k.prio[t])
             K == IF s.k.block[t] = AioObj(t) /\ t \notin s.k.active THEN U ELSE s.k
             d == AioCallback(s, t)
  <1>1. s \in SysType /\ s.k \in Kernel /\ Table(s.k)
    BY DEF Good, SysType
  <1>2. d = [s EXCEPT !.aio[t].busy = FALSE, !.k = K]
    BY DEF AioCallback
  <1>3. W = IF s.k.block[t] = AioObj(t) /\ t \notin s.k.active THEN {t} ELSE {}
    BY Contexts DEF Woken
  <1> HIDE DEF W, d
  <1>4. /\ Table(K) /\ K.current = s.k.current /\ K.active = s.k.active \cup W
        /\ \A i \in Task :
              /\ K.block[i] = IF i \in W THEN NULL ELSE s.k.block[i]
              /\ K.unblock[i] = IF i \in W THEN "AIO" ELSE s.k.unblock[i]
    <2>1. CASE s.k.block[t] = AioObj(t) /\ t \notin s.k.active
      <3>1. /\ t \in {t} \cup (s.k.active \cap Task)
            /\ {t} \in SUBSET Task /\ "AIO" \in UnblockType
        BY DEF UnblockType
      <3>2. AfterWake(s.k, U, {t}, "AIO")
        BY <1>1, <3>1, WokenTable
      <3>3. K = U /\ W = {t}
        BY <1>3, <2>1
      <3> HIDE DEF K, U
      <3>4. QED
        BY <3>2, <3>3 DEF AfterWake
    <2>2. CASE ~(s.k.block[t] = AioObj(t) /\ t \notin s.k.active)
      <3>1. K = s.k /\ W = {}
        BY <1>3, <2>2
      <3> HIDE DEF K
      <3>2. QED
        BY <1>1, <3>1
    <2>3. QED
      BY <2>1, <2>2
  <1> HIDE DEF K
  <1>5. K \in Kernel
    BY <1>4 DEF Table, Runs
  <1>6. s.aio \in [Task -> AioType]
    BY <1>1 DEF SysType
  <1>7. DEFINE x == [s.aio EXCEPT ![t].busy = FALSE]
  <1>8. /\ x \in [Task -> AioType]
        /\ \A i \in Task : /\ x[i].failed = s.aio[i].failed
                           /\ x[i].busy = (s.aio[i].busy /\ i # t)
    BY <1>6 DEF AioType
  <1>9. /\ d.k = K /\ d.io = s.io /\ d.aio = x /\ d.u = s.u /\ d.spoilt = s.spoilt
    BY <1>1, <1>2 DEF SysType
  <1>10. d = [k |-> K, io |-> s.io, aio |-> x, u |-> s.u, spoilt |-> s.spoilt]
    BY <1>1, <1>2 DEF SysType
  <1> HIDE DEF x
  <1>11. d \in SysType
    BY <1>1, <1>5, <1>8, <1>10 DEF SysType
  <1>12. \A i \in Task : InAio(t) # InCall(i) /\ (InAio(t) = InAio(i) <=> i = t)
    BY Contexts
  <1>13. \A i \in Task : /\ d.aio[i].failed = s.aio[i].failed
                         /\ d.aio[i].busy = (s.aio[i].busy /\ InAio(t) # InAio(i))
                         /\ d.io[i].read = s.io[i].read
                         /\ d.io[i] = s.io[i]
    BY <1>8, <1>9, <1>12
  <1>14. QED
    BY <1>4, <1>9, <1>11, <1>13 DEF CalledBack, d, W

\* The driver's callback, when there is one.
LEMMA AnyCalledBack ==
    ASSUME NEW s, NEW P, Good(s, P), NEW read \in BOOLEAN, NEW cancelled \in BOOLEAN,
           NEW ctx, ctx = IF read THEN s.u.rcb ELSE s.u.wcb
    PROVE  \E u1 \in {"TRANSFER", "AIO"} :
              CalledBack(s, Callback(s, ctx, read, cancelled), ctx, cancelled, u1)
  <1>1. s \in SysType /\ Table(s.k) /\ s.k \in Kernel
    BY DEF Good, SysType
  <1>2. s.u \in UType /\ s.io \in [Task -> IoType] /\ s.aio \in [Task -> AioType]
    BY <1>1 DEF SysType
  <1>3. ctx \in Ctx
    BY <1>2 DEF UType
  <1>4. CASE ctx = None
    <2>1. Callback(s, ctx, read, cancelled) = s
      BY <1>4 DEF Callback, None
    <2>2. \A t \in Task : ctx # InCall(t) /\ ctx # InAio(t)
      BY <1>4, Contexts
    <2>3. Woken(s, ctx) = {}
      BY <2>2 DEF Woken
    <2>4. \A t \in Task : s.aio[t].busy = (s.aio[t].busy /\ ctx # InAio(t))
      BY <1>2, <2>2 DEF AioType
    <2>5. CalledBack(s, s, ctx, cancelled, "AIO")
      BY <1>1, <2>3, <2>4 DEF CalledBack
    <2>6. QED
      BY <2>1, <2>5
  <1>5. ASSUME NEW t \in Task, ctx = InCall(t)
        PROVE  CalledBack(s, Callback(s, ctx, read, cancelled), ctx, cancelled, "TRANSFER")
    <2>1. Callback(s, ctx, read, cancelled) = IoCallback(s, t, read, cancelled)
      BY <1>5 DEF Callback, InCall
    <2>2. QED
      BY <1>5, <2>1, IoCalledBack
  <1>6. ASSUME NEW t \in Task, ctx = InAio(t)
        PROVE  CalledBack(s, Callback(s, ctx, read, cancelled), ctx, cancelled, "AIO")
    <2>1. Callback(s, ctx, read, cancelled) = AioCallback(s, t)
      BY <1>6 DEF Callback, InAio
    <2>2. QED
      BY <1>6, <2>1, AioCalledBack
  <1>7. QED
    BY <1>3, <1>4, <1>5, <1>6, Contexts

\* The driver forgets a callback that it has made, and the interrupt is disabled:
\* e is d without the callback for reads, or for writes.
Forgets(d, e, read) ==
    /\ e.k = d.k /\ e.io = d.io /\ e.aio = d.aio /\ e.spoilt = d.spoilt
    /\ e \in SysType
    /\ e.u.rcb = (IF read THEN None ELSE d.u.rcb) /\ e.u.rbrie = (d.u.rbrie /\ ~read)
    /\ e.u.wcb = (IF read THEN d.u.wcb ELSE None) /\ e.u.etbei = (d.u.etbei /\ read)
    /\ e.u.rxbuf = d.u.rxbuf /\ e.u.rxlen = d.u.rxlen /\ e.u.fifo = d.u.fifo

\* After the callback the invariant holds again.
LEMMA CallbackGood ==
    ASSUME NEW s, NEW P, Good(s, P), NEW read \in BOOLEAN, NEW cancelled \in BOOLEAN,
           NEW ctx, ctx = IF read THEN s.u.rcb ELSE s.u.wcb, NEW u1,
           NEW d, CalledBack(s, d, ctx, cancelled, u1),
           NEW e, Forgets(d, e, read)
    PROVE  Good(e, P)
  <1> DEFINE W == Woken(s, ctx)
  <1>1. /\ e \in SysType /\ Table(e.k) /\ e.k.active = s.k.active \cup W
        /\ e.spoilt = s.spoilt
        /\ \A t \in Task :
              /\ e.k.block[t] = IF t \in W THEN NULL ELSE s.k.block[t]
              /\ t \notin W => e.k.unblock[t] = s.k.unblock[t]
        /\ e.u.rcb = (IF read THEN None ELSE s.u.rcb) /\ e.u.rbrie = (s.u.rbrie /\ ~read)
        /\ e.u.wcb = (IF read THEN s.u.wcb ELSE None) /\ e.u.etbei = (s.u.etbei /\ read)
    BY DEF CalledBack, Forgets
  <1>2. \A t \in Task : /\ e.aio[t].failed = s.aio[t].failed
                        /\ e.aio[t].busy = (s.aio[t].busy /\ ctx # InAio(t))
                        /\ e.io[t].read = s.io[t].read
    BY DEF CalledBack, Forgets
  <1>3. \A t \in Task : None # InCall(t) /\ None # InAio(t)
    BY Contexts
  <1>4. \A t \in Task : t \in W => t \notin s.k.active /\ ctx \in {InCall(t), InAio(t)}
    BY DEF Woken
  <1>5. \A t \in Task \ e.k.active :
           /\ t \notin s.k.active /\ ctx # InCall(t)
           /\ s.k.block[t] = AioObj(t) => ctx # InAio(t)
    BY <1>1 DEF Woken
  <1> HIDE DEF W
  <1>6. SleepInv(e, P)
    <2> SUFFICES ASSUME NEW t \in Task
                 PROVE  \/ t \in e.k.active /\ e.k.block[t] = NULL
                        \/ /\ t \notin e.k.active /\ P[t] = "check"
                           /\ \/ e.k.block[t] = DevObj(TRUE) /\ e.u.rcb = InCall(t)
                              \/ e.k.block[t] = DevObj(FALSE) /\ e.u.wcb = InCall(t)
                        \/ /\ t \notin e.k.active /\ P[t] = "suspended"
                           /\ e.k.block[t] = AioObj(t)
                           /\ "refused" \in e.spoilt \/ e.u.rcb = InAio(t) \/ e.u.wcb = InAio(t)
      BY DEF SleepInv
    <2>1. \/ t \in s.k.active /\ s.k.block[t] = NULL
          \/ /\ t \notin s.k.active /\ P[t] = "check"
             /\ \/ s.k.block[t] = DevObj(TRUE) /\ s.u.rcb = InCall(t)
                \/ s.k.block[t] = DevObj(FALSE) /\ s.u.wcb = InCall(t)
          \/ /\ t \notin s.k.active /\ P[t] = "suspended" /\ s.k.block[t] = AioObj(t)
             /\ "refused" \in s.spoilt \/ s.u.rcb = InAio(t) \/ s.u.wcb = InAio(t)
      BY DEF Good, SleepInv
    <2>2. CASE t \in e.k.active
      BY <1>1, <1>4, <2>1, <2>2
    <2>3. CASE t \notin e.k.active
      <3>1. t \notin W /\ t \notin s.k.active /\ e.k.block[t] = s.k.block[t]
        BY <1>1, <2>3
      <3>2. /\ ctx # InCall(t)
            /\ s.k.block[t] = AioObj(t) => ctx # InAio(t)
        BY <1>5, <2>3
      <3>3. QED
        BY <1>1, <2>1, <2>3, <3>1, <3>2
    <2>4. QED
      BY <2>2, <2>3
  <1>7. DriverInv(e)
    BY <1>1 DEF Good, DriverInv
  <1>8. CallsInv(e, P)
    <2> SUFFICES ASSUME NEW t \in Task
                 PROVE  /\ e.u.rcb = InCall(t) => e.io[t].read
                        /\ e.u.wcb = InCall(t) => ~e.io[t].read
                        /\ InCall(t) \in {e.u.rcb, e.u.wcb} =>
                              \/ P[t] = "check" /\ (t \notin e.k.active \/ e.k.unblock[t] = "SIGNAL")
                              \/ P[t] = "cancel"
      BY DEF CallsInv
    <2>1. /\ s.u.rcb = InCall(t) => s.io[t].read
          /\ s.u.wcb = InCall(t) => ~s.io[t].read
          /\ InCall(t) \in {s.u.rcb, s.u.wcb} =>
                \/ P[t] = "check" /\ (t \notin s.k.active \/ s.k.unblock[t] = "SIGNAL")
                \/ P[t] = "cancel"
      BY DEF Good, CallsInv
    <2>2. /\ e.u.rcb = InCall(t) => e.io[t].read
          /\ e.u.wcb = InCall(t) => ~e.io[t].read
      BY <1>1, <1>2, <1>3, <2>1
    <2>3. ASSUME InCall(t) \in {e.u.rcb, e.u.wcb}
          PROVE  \/ P[t] = "check" /\ (t \notin e.k.active \/ e.k.unblock[t] = "SIGNAL")
                 \/ P[t] = "cancel"
      <3>1. InCall(t) \in {s.u.rcb, s.u.wcb} /\ ctx # InCall(t)
        BY <1>1, <1>3, <2>1, <2>3
      <3>2. t \notin W
        <4>1. ASSUME t \in W PROVE FALSE
          <5>1. ctx = InAio(t) /\ t \notin s.k.active /\ s.k.block[t] = AioObj(t)
            BY <3>1, <4>1 DEF W, Woken
          <5>2. P[t] = "suspended"
            BY <5>1, Objects DEF Good, SleepInv
          <5>3. QED
            BY <2>1, <3>1, <5>2
        <4>2. QED
          BY <4>1
      <3>3. QED
        BY <1>1, <2>1, <3>1, <3>2
    <2>4. QED
      BY <2>2, <2>3
  <1>9. AioInv(e)
    <2> SUFFICES ASSUME NEW t \in Task, e.aio[t].busy, ~e.aio[t].failed
                 PROVE  InAio(t) \in {e.u.rcb, e.u.wcb}
      BY DEF AioInv
    <2>1. s.aio[t].busy /\ ~s.aio[t].failed /\ ctx # InAio(t)
      BY <1>2
    <2>2. InAio(t) \in {s.u.rcb, s.u.wcb}
      BY <2>1 DEF Good, AioInv
    <2>3. QED
      BY <1>1, <2>1, <2>2
  <1>10. QED
    BY <1>1, <1>6, <1>7, <1>8, <1>9 DEF Good

\* e is s after the callback for reads, or for writes.
Ended(s, e, read, cancelled) ==
    /\ e.u.rcb = (IF read THEN None ELSE s.u.rcb) /\ e.u.rbrie = (s.u.rbrie /\ ~read)
    /\ e.u.wcb = (IF read THEN s.u.wcb ELSE None) /\ e.u.etbei = (s.u.etbei /\ read)
    /\ e.u.rxbuf = s.u.rxbuf /\ e.u.rxlen = s.u.rxlen /\ e.u.fifo = s.u.fifo
    /\ e.spoilt = s.spoilt /\ e.k.current = s.k.current
    /\ \A t \in Task : /\ e.io[t].read = s.io[t].read
                       /\ (~cancelled \/ read \/ s.u.wcb # InCall(t)) => e.io[t] = s.io[t]

\* exec_readcallback() ...
LEMMA ReadCallbackGood ==
    ASSUME NEW s, NEW P, Good(s, P)
    PROVE  Good(ReadCallback(s), P) /\ Ended(s, ReadCallback(s), TRUE, FALSE)
  <1> DEFINE d == Callback(s, s.u.rcb, TRUE, FALSE)
             e == ReadCallback(s)
  <1>1. PICK u1 \in {"TRANSFER", "AIO"} : CalledBack(s, d, s.u.rcb, FALSE, u1)
    BY AnyCalledBack
  <1>2. e = [d EXCEPT !.u.rcb = None, !.u.rbrie = FALSE]
    BY DEF ReadCallback
  <1> HIDE DEF d, e
  <1>3. d \in SysType /\ d.u \in UType /\ d.u = s.u
    BY <1>1 DEF CalledBack, SysType
  <1> DEFINE x == [d.u EXCEPT !.rcb = None, !.rbrie = FALSE]
  <1>4. /\ x \in UType /\ x.rcb = None /\ x.rbrie = FALSE /\ x.wcb = d.u.wcb
        /\ x.etbei = d.u.etbei /\ x.rxbuf = d.u.rxbuf /\ x.rxlen = d.u.rxlen
        /\ x.fifo = d.u.fifo
    BY <1>3, Contexts DEF UType
  <1>5. e = [k |-> d.k, io |-> d.io, aio |-> d.aio, u |-> x, spoilt |-> d.spoilt]
    BY <1>2, <1>3 DEF SysType
  <1> HIDE DEF x
  <1>6. e \in SysType /\ e.u = x
    BY <1>3, <1>4, <1>5 DEF SysType
  <1>7. d.u.rbrie \in BOOLEAN /\ d.u.etbei \in BOOLEAN
    BY <1>3 DEF UType
  <1>8. Forgets(d, e, TRUE)
    BY <1>4, <1>5, <1>6, <1>7 DEF Forgets
  <1>9. Good(e, P)
    BY <1>1, <1>8, CallbackGood
  <1>10. Ended(s, e, TRUE, FALSE)
    BY <1>1, <1>3, <1>8 DEF Ended, Forgets, CalledBack
  <1>11. QED
    BY <1>9, <1>10 DEF e

\* ... and exec_writecallback().
LEMMA WriteCallbackGood ==
    ASSUME NEW s, NEW P, Good(s, P), NEW cancelled \in BOOLEAN
    PROVE  /\ Good(WriteCallback(s, cancelled), P)
           /\ Ended(s, WriteCallback(s, cancelled), FALSE, cancelled)
  <1> DEFINE d == Callback(s, s.u.wcb, FALSE, cancelled)
             e == WriteCallback(s, cancelled)
  <1>1. PICK u1 \in {"TRANSFER", "AIO"} : CalledBack(s, d, s.u.wcb, cancelled, u1)
    BY AnyCalledBack
  <1>2. e = [d EXCEPT !.u.wcb = None, !.u.etbei = FALSE]
    BY DEF WriteCallback
  <1> HIDE DEF d, e
  <1>3. d \in SysType /\ d.u \in UType /\ d.u = s.u
    BY <1>1 DEF CalledBack, SysType
  <1> DEFINE x == [d.u EXCEPT !.wcb = None, !.etbei = FALSE]
  <1>4. /\ x \in UType /\ x.wcb = None /\ x.etbei = FALSE /\ x.rcb = d.u.rcb
        /\ x.rbrie = d.u.rbrie /\ x.rxbuf = d.u.rxbuf /\ x.rxlen = d.u.rxlen
        /\ x.fifo = d.u.fifo
    BY <1>3, Contexts DEF UType
  <1>5. e = [k |-> d.k, io |-> d.io, aio |-> d.aio, u |-> x, spoilt |-> d.spoilt]
    BY <1>2, <1>3 DEF SysType
  <1> HIDE DEF x
  <1>6. e \in SysType /\ e.u = x
    BY <1>3, <1>4, <1>5 DEF SysType
  <1>7. d.u.rbrie \in BOOLEAN /\ d.u.etbei \in BOOLEAN
    BY <1>3 DEF UType
  <1>8. Forgets(d, e, FALSE)
    BY <1>4, <1>5, <1>6, <1>7 DEF Forgets
  <1>9. Good(e, P)
    BY <1>1, <1>8, CallbackGood
  <1>10. Ended(s, e, FALSE, cancelled)
    BY <1>1, <1>3, <1>8 DEF Ended, Forgets, CalledBack
  <1>11. QED
    BY <1>9, <1>10 DEF e

-----------------------------------------------------------------------------
\* The driver.

LEMMA FilledIo ==
    ASSUME NEW r \in IoType, NEW n \in Number, NEW less \in Number
    PROVE  LET e == Filled(r, n, less)
           IN  /\ e \in IoType /\ e.read = r.read /\ e.ret = r.ret
               /\ e.got = r.got + n /\ e.nbyte = r.nbyte - less
  <1> DEFINE b  == r.got + n
             a  == r.nbyte - less
             r1 == [r EXCEPT !.got = b]
             e  == [r1 EXCEPT !.nbyte = a]
  <1>1. a \in Number /\ b \in Number
    BY DEF Number, IoType
  <1> HIDE DEF a, b
  <1>2. /\ r1 \in IoType /\ r1.read = r.read /\ r1.ret = r.ret /\ r1.got = b
        /\ r1.nbyte = r.nbyte
    BY <1>1 DEF IoType
  <1> HIDE DEF r1
  <1>3. /\ e \in IoType /\ e.read = r1.read /\ e.ret = r1.ret /\ e.got = r1.got
        /\ e.nbyte = a
    BY <1>1, <1>2 DEF IoType
  <1>4. Filled(r, n, less) = e
    BY <1>2, Zenon DEF Filled, r1, a, b
  <1> HIDE DEF e
  <1>5. QED
    BY <1>2, <1>3, <1>4 DEF a, b

LEMMA FilledAio ==
    ASSUME NEW r \in AioType, NEW n \in Number, NEW less \in Number
    PROVE  LET e == Filled(r, n, less)
           IN  e \in AioType /\ e.busy = r.busy /\ e.failed = r.failed
  <1> DEFINE b  == r.got + n
             a  == r.nbyte - less
             r1 == [r EXCEPT !.got = b]
             e  == [r1 EXCEPT !.nbyte = a]
  <1>1. a \in Number /\ b \in Number
    BY DEF Number, AioType
  <1> HIDE DEF a, b
  <1>2. /\ r1 \in AioType /\ r1.busy = r.busy /\ r1.failed = r.failed
        /\ r1.nbyte = r.nbyte
    BY <1>1 DEF AioType
  <1> HIDE DEF r1
  <1>3. e \in AioType /\ e.busy = r1.busy /\ e.failed = r1.failed
    BY <1>1, <1>2 DEF AioType
  <1>4. Filled(r, n, less) = e
    BY <1>2, Zenon DEF Filled, r1, a, b
  <1> HIDE DEF e
  <1>5. QED
    BY <1>2, <1>3, <1>4

\* Bytes go to the transfer of ctx and to nobody else's.
LEMMA StoreType ==
    ASSUME NEW s \in SysType, NEW ctx \in Ctx, NEW n \in Number, NEW less \in Number
    PROVE  LET e == Store(s, ctx, n, less)
           IN  /\ e \in SysType /\ e.k = s.k /\ e.u = s.u /\ e.spoilt = s.spoilt
               /\ \A t \in Task :
                     /\ e.aio[t].busy = s.aio[t].busy /\ e.aio[t].failed = s.aio[t].failed
                     /\ e.io[t].read = s.io[t].read /\ e.io[t].ret = s.io[t].ret
                     /\ ctx # InCall(t) => e.io[t] = s.io[t]
                     /\ ctx = InCall(t) => /\ e.io[t].got = s.io[t].got + n
                                           /\ e.io[t].nbyte = s.io[t].nbyte - less
  <1> DEFINE e == Store(s, ctx, n, less)
  <1>1. s.io \in [Task -> IoType] /\ s.aio \in [Task -> AioType]
    BY DEF SysType
  <1>2. CASE ctx = None
    <2>1. e = s
      BY <1>2 DEF Store, None
    <2>2. QED
      BY <1>2, <2>1, Contexts
  <1>3. ASSUME NEW c \in Task, ctx = InCall(c)
        PROVE  /\ e \in SysType /\ e.k = s.k /\ e.u = s.u /\ e.spoilt = s.spoilt
               /\ \A t \in Task :
                     /\ e.aio[t].busy = s.aio[t].busy /\ e.aio[t].failed = s.aio[t].failed
                     /\ e.io[t].read = s.io[t].read /\ e.io[t].ret = s.io[t].ret
                     /\ ctx # InCall(t) => e.io[t] = s.io[t]
                     /\ ctx = InCall(t) => /\ e.io[t].got = s.io[t].got + n
                                           /\ e.io[t].nbyte = s.io[t].nbyte - less
    <2> DEFINE y == Filled(s.io[c], n, less)
               x == [s.io EXCEPT ![c] = y]
    <2>1. e = [s EXCEPT !.io = x]
      BY <1>3 DEF Store, InCall
    <2>2. s.io[c] \in IoType
      BY <1>1
    <2>3. /\ y \in IoType /\ y.read = s.io[c].read /\ y.ret = s.io[c].ret
          /\ y.got = s.io[c].got + n /\ y.nbyte = s.io[c].nbyte - less
      BY <2>2, FilledIo
    <2> HIDE DEF e, y
    <2>4. /\ x \in [Task -> IoType] /\ x[c] = y
          /\ \A t \in Task : t # c => x[t] = s.io[t]
      BY <1>1, <2>3
    <2> HIDE DEF x
    <2>5. /\ e \in SysType /\ e.io = x /\ e.aio = s.aio /\ e.k = s.k /\ e.u = s.u
          /\ e.spoilt = s.spoilt
      BY <2>1, <2>4 DEF SysType
    <2>6. \A t \in Task : ctx = InCall(t) <=> t = c
      BY <1>3, Contexts
    <2>7. QED
      BY <2>3, <2>4, <2>5, <2>6
  <1>4. ASSUME NEW c \in Task, ctx = InAio(c)
        PROVE  /\ e \in SysType /\ e.k = s.k /\ e.u = s.u /\ e.spoilt = s.spoilt
               /\ e.io = s.io
               /\ \A t \in Task :
                     e.aio[t].busy = s.aio[t].busy /\ e.aio[t].failed = s.aio[t].failed
    <2> DEFINE y == Filled(s.aio[c], n, less)
               x == [s.aio EXCEPT ![c] = y]
    <2>1. e = [s EXCEPT !.aio = x]
      BY <1>4 DEF Store, InAio
    <2>2. s.aio[c] \in AioType
      BY <1>1
    <2>3. y \in AioType /\ y.busy = s.aio[c].busy /\ y.failed = s.aio[c].failed
      BY <2>2, FilledAio
    <2> HIDE DEF e, y
    <2>4. /\ x \in [Task -> AioType] /\ x[c] = y
          /\ \A t \in Task : t # c => x[t] = s.aio[t]
      BY <1>1, <2>3
    <2> HIDE DEF x
    <2>5. /\ e \in SysType /\ e.aio = x /\ e.io = s.io /\ e.k = s.k /\ e.u = s.u
          /\ e.spoilt = s.spoilt
      BY <2>1, <2>4 DEF SysType
    <2>6. QED
      BY <2>3, <2>4, <2>5
  <1>5. CASE \E c \in Task : ctx = InAio(c)
    <2>1. \A t \in Task : ctx # InCall(t)
      BY <1>5, Contexts
    <2>2. QED
      BY <1>4, <1>5, <2>1
  <1>6. QED
    BY <1>2, <1>3, <1>5, Contexts

\* What the driver has done, d, when it was asked to start a transfer for ctx.
\* A result other than 0 says that it is over or was refused.
Started(s, d, ctx, read, n) ==
    /\ d.ret \in Number /\ d.s \in SysType
    /\ d.s.k = s.k /\ d.s.spoilt = s.spoilt
    /\ \A t \in Task :
          /\ d.s.aio[t].busy = s.aio[t].busy /\ d.s.aio[t].failed = s.aio[t].failed
          /\ d.s.io[t].read = s.io[t].read
          /\ ctx # InCall(t) => d.s.io[t] = s.io[t]
    /\ d.s.u.rcb = (IF d.ret = 0 /\ read THEN ctx ELSE s.u.rcb)
    /\ d.s.u.rbrie <=> (s.u.rbrie \/ (d.ret = 0 /\ read))
    /\ d.s.u.wcb = (IF d.ret = 0 /\ ~read THEN ctx ELSE s.u.wcb)
    /\ d.s.u.etbei <=> (s.u.etbei \/ (d.ret = 0 /\ ~read))
    /\ d.ret = 0 /\ read => /\ ~s.u.rbrie /\ d.s.u.rxbuf = ctx /\ d.s.u.rxlen = n
                            /\ d.s.io = s.io
    /\ d.ret = 0 /\ ~read => ~s.u.etbei
    /\ d.ret > 0 => \A t \in Task : ctx = InCall(t) => d.s.io[t].got = s.io[t].got + d.ret
    /\ s.u.rbrie \/ ~read => /\ d.s.u.rxbuf = s.u.rxbuf /\ d.s.u.rxlen = s.u.rxlen
                             /\ d.s.io = s.io

\* The driver refuses when it is busy.
LEMMA RefusedStarts ==
    ASSUME NEW s \in SysType, NEW ctx \in Ctx, NEW n, NEW read \in BOOLEAN,
           NEW d, d = [ret |-> -1, s |-> s]
    PROVE  Started(s, d, ctx, read, n)
  <1>1. d.ret = -1 /\ d.s = s
    OBVIOUS
  <1>2. s.u.etbei \in BOOLEAN /\ s.u.rbrie \in BOOLEAN
    BY DEF SysType, UType
  <1>3. QED
    BY <1>1, <1>2 DEF Started, Number

\* _hwpl_uart_dev_write() ...
LEMMA DevWriteStarts ==
    ASSUME NEW s \in SysType, NEW ctx \in Ctx, NEW n \in Nat
    PROVE  Started(s, DevWrite(s, ctx, n), ctx, FALSE, n)
  <1>1. s.u \in UType /\ s.u.etbei \in BOOLEAN /\ s.u.rbrie \in BOOLEAN
    BY DEF SysType, UType
  <1>2. CASE s.u.etbei
    <2>1. DevWrite(s, ctx, n) = [ret |-> -1, s |-> s]
      BY <1>2 DEF DevWrite
    <2>2. QED
      BY <1>1, <1>2, <2>1, RefusedStarts
  <1>3. CASE ~s.u.etbei
    <2> DEFINE m == n - Smaller(n, TxFifo)
               x == [s.u EXCEPT !.txlen = m, !.wcb = ctx, !.etbei = TRUE]
               e == [s EXCEPT !.u.txlen = m, !.u.wcb = ctx, !.u.etbei = TRUE]
    <2>1. DevWrite(s, ctx, n) = [ret |-> 0, s |-> e]
      BY <1>3 DEF DevWrite
    <2>2. m \in Number
      BY TransferAssumption DEF Smaller, Number
    <2>7. e = [s EXCEPT !.u.txlen = m, !.u.wcb = ctx, !.u.etbei = TRUE]
      OBVIOUS
    <2> HIDE DEF m, e
    <2>3. /\ x \in UType /\ x.etbei = TRUE /\ x.wcb = ctx /\ x.rbrie = s.u.rbrie
          /\ x.rcb = s.u.rcb /\ x.rxbuf = s.u.rxbuf /\ x.rxlen = s.u.rxlen
      BY <1>1, <2>2 DEF UType
    <2>4. e = [k |-> s.k, io |-> s.io, aio |-> s.aio, u |-> x, spoilt |-> s.spoilt]
      BY <1>1, <2>7 DEF SysType
    <2> HIDE DEF x
    <2>5. e \in SysType /\ e.k = s.k /\ e.io = s.io /\ e.aio = s.aio /\ e.spoilt = s.spoilt
          /\ e.u = x
      BY <2>3, <2>4 DEF SysType
    <2>8. DevWrite(s, ctx, n).ret = 0 /\ DevWrite(s, ctx, n).s = e
      BY <2>1
    <2>9. DevWrite(s, ctx, n).s.u.rbrie = s.u.rbrie /\ DevWrite(s, ctx, n).s.u.etbei = TRUE
      BY <2>3, <2>5, <2>8
    <2>6. QED
      BY <1>1, <1>3, <2>3, <2>5, <2>8, <2>9 DEF Started, Number
  <1>4. QED
    BY <1>1, <1>2, <1>3

\* ... and _hwpl_uart_dev_read().
LEMMA DevReadStarts ==
    ASSUME NEW s \in SysType, DriverInv(s), NEW ctx \in Ctx, NEW n \in Nat \ {0},
           NEW nonblock \in BOOLEAN
    PROVE  Started(s, DevRead(s, ctx, n, nonblock), ctx, TRUE, n)
  <1> DEFINE m  == Smaller(n, s.u.fifo)
             s1 == [s EXCEPT !.u.rxbuf = ctx, !.u.rxlen = n - m, !.u.fifo = @ - m]
             d  == DevRead(s, ctx, n, nonblock)
  <1>1. /\ s.u \in UType /\ s.u.etbei \in BOOLEAN /\ s.u.rbrie \in BOOLEAN
        /\ s.u.fifo \in Nat
    BY DEF SysType, UType
  <1>2. m \in Nat /\ n - m \in Nat /\ s.u.fifo - m \in Nat
    BY <1>1 DEF Smaller, Number
  <1>3. CASE s.u.rbrie
    <2>1. d = [ret |-> -1, s |-> s]
      BY <1>3 DEF DevRead
    <2>2. QED
      BY <1>1, <1>3, <2>1, RefusedStarts
  <1>4. CASE ~s.u.rbrie
    <2> DEFINE l == n - m
               f == s.u.fifo - m
               x == [s.u EXCEPT !.rxbuf = ctx, !.rxlen = l, !.fifo = f]
    <2>1. s.u.rcb = None
      BY <1>4 DEF DriverInv
    <2>2. l \in Nat /\ f \in Nat /\ m \in Number
      BY <1>2 DEF Number
    <2>3. s1 = [s EXCEPT !.u.rxbuf = ctx, !.u.rxlen = l, !.u.fifo = f]
      OBVIOUS
    <2>4. d = CASE m > 0 -> [ret |-> m, s |-> Store(s1, ctx, m, 0)]
                [] m = 0 /\ nonblock ->
                     [ret |-> -1, s |-> [Store(s1, ctx, 0, n) EXCEPT !.u.rcb = None, !.u.rxbuf = None]]
                [] OTHER -> [ret |-> 0, s |-> [s1 EXCEPT !.u.rcb = ctx, !.u.rbrie = TRUE]]
      <3>1. CASE m > 0
        BY <1>4, <3>1 DEF DevRead
      <3>2. CASE m = 0 /\ nonblock
        BY <1>4, <3>2 DEF DevRead
      <3>3. CASE m = 0 /\ ~nonblock
        BY <1>4, <3>3 DEF DevRead
      <3>4. QED
        BY <1>2, <3>1, <3>2, <3>3
    <2>5. m = 0 => l = n
      OBVIOUS
    <2> HIDE DEF m, l, f, d, s1
    <2>6. /\ x \in UType /\ x.rxbuf = ctx /\ x.rxlen = l /\ x.rcb = s.u.rcb
          /\ x.wcb = s.u.wcb /\ x.rbrie = s.u.rbrie /\ x.etbei = s.u.etbei
      BY <1>1, <2>2 DEF UType
    <2>7. s1 = [k |-> s.k, io |-> s.io, aio |-> s.aio, u |-> x, spoilt |-> s.spoilt]
      BY <1>1, <2>3 DEF SysType
    <2> HIDE DEF x
    <2>8. /\ s1 \in SysType /\ s1.k = s.k /\ s1.io = s.io /\ s1.aio = s.aio
          /\ s1.spoilt = s.spoilt /\ s1.u = x
      BY <2>6, <2>7 DEF SysType
    <2>9. CASE m > 0
      <3> DEFINE e == Store(s1, ctx, m, 0)
      <3>1. d = [ret |-> m, s |-> e]
        BY <2>4, <2>9
      <3>2. /\ e \in SysType /\ e.k = s1.k /\ e.u = s1.u /\ e.spoilt = s1.spoilt
            /\ \A t \in Task :
                  /\ e.aio[t].busy = s1.aio[t].busy /\ e.aio[t].failed = s1.aio[t].failed
                  /\ e.io[t].read = s1.io[t].read
                  /\ ctx # InCall(t) => e.io[t] = s1.io[t]
                  /\ ctx = InCall(t) => e.io[t].got = s1.io[t].got + m
        <4>1. 0 \in Number /\ s1 \in SysType /\ m \in Number
          BY <2>2, <2>8 DEF Number
        <4>2. QED
          BY <4>1, StoreType
      <3> HIDE DEF e
      <3>3. d.ret = m /\ d.s = e
        BY <3>1
      <3>4. m \in Nat /\ m # 0
        BY <1>2, <2>9 DEF m
      <3>5. /\ d.s \in SysType /\ d.s.k = s.k /\ d.s.spoilt = s.spoilt
            /\ \A t \in Task :
                  /\ d.s.aio[t].busy = s.aio[t].busy /\ d.s.aio[t].failed = s.aio[t].failed
                  /\ d.s.io[t].read = s.io[t].read
                  /\ ctx # InCall(t) => d.s.io[t] = s.io[t]
                  /\ ctx = InCall(t) => d.s.io[t].got = s.io[t].got + m
        BY <2>8, <3>2, <3>3
      <3>6. /\ d.s.u.rcb = s.u.rcb /\ d.s.u.wcb = s.u.wcb
            /\ d.s.u.rbrie = s.u.rbrie /\ d.s.u.etbei = s.u.etbei
        BY <2>6, <2>8, <3>2, <3>3
      <3>7. QED
        BY <1>1, <1>4, <2>2, <3>3, <3>4, <3>5, <3>6 DEF Started, Number, d
    <2>10. CASE m = 0 /\ nonblock
      <3> DEFINE e == Store(s1, ctx, 0, n)
                 g == [e EXCEPT !.u.rcb = None, !.u.rxbuf = None]
                 y == [e.u EXCEPT !.rcb = None, !.rxbuf = None]
      <3>1. d = [ret |-> -1, s |-> g]
        BY <2>4, <2>10
      <3>2. /\ e \in SysType /\ e.k = s1.k /\ e.u = s1.u /\ e.spoilt = s1.spoilt
            /\ \A t \in Task :
                  /\ e.aio[t].busy = s1.aio[t].busy /\ e.aio[t].failed = s1.aio[t].failed
                  /\ e.io[t].read = s1.io[t].read
                  /\ ctx # InCall(t) => e.io[t] = s1.io[t]
        <4>1. 0 \in Number /\ n \in Number /\ s1 \in SysType
          BY <2>8 DEF Number
        <4> HIDE DEF s1
        <4>2. QED
          BY <4>1, StoreType
      <3> HIDE DEF e
      <3>7. g = [e EXCEPT !.u.rcb = None, !.u.rxbuf = None] /\ e.u \in UType
        BY <2>6, <2>8, <3>2
      <3> HIDE DEF g
      <3>3. /\ y \in UType /\ y.rcb = None /\ y.wcb = x.wcb /\ y.rbrie = x.rbrie
            /\ y.etbei = x.etbei
        BY <2>6, <2>8, <3>2, Contexts DEF UType
      <3>4. g = [k |-> e.k, io |-> e.io, aio |-> e.aio, u |-> y, spoilt |-> e.spoilt]
        BY <3>2, <3>7 DEF SysType
      <3> HIDE DEF y
      <3>5. /\ g \in SysType /\ g.k = e.k /\ g.io = e.io /\ g.aio = e.aio
            /\ g.spoilt = e.spoilt /\ g.u = y
        BY <3>2, <3>3, <3>4 DEF SysType
      <3>8. d.ret = -1 /\ d.s = g
        BY <3>1
      <3>9. /\ d.s \in SysType /\ d.s.k = s.k /\ d.s.spoilt = s.spoilt
            /\ \A t \in Task :
                  /\ d.s.aio[t].busy = s.aio[t].busy /\ d.s.aio[t].failed = s.aio[t].failed
                  /\ d.s.io[t].read = s.io[t].read
                  /\ ctx # InCall(t) => d.s.io[t] = s.io[t]
        BY <2>8, <3>2, <3>5, <3>8
      <3>10. /\ d.s.u.rcb = s.u.rcb /\ d.s.u.wcb = s.u.wcb
             /\ d.s.u.rbrie = s.u.rbrie /\ d.s.u.etbei = s.u.etbei
        BY <2>1, <2>6, <2>8, <3>2, <3>3, <3>5, <3>8
      <3>6. QED
        BY <1>1, <1>4, <3>8, <3>9, <3>10 DEF Started, Number, d
    <2>11. CASE m = 0 /\ ~nonblock
      <3> DEFINE g == [s1 EXCEPT !.u.rcb = ctx, !.u.rbrie = TRUE]
                 y == [s1.u EXCEPT !.rcb = ctx, !.rbrie = TRUE]
      <3>1. d = [ret |-> 0, s |-> g]
        BY <2>4, <2>11
      <3>6. g = [s1 EXCEPT !.u.rcb = ctx, !.u.rbrie = TRUE] /\ s1.u \in UType
        BY <2>6, <2>8
      <3> HIDE DEF g
      <3>2. /\ y \in UType /\ y.rcb = ctx /\ y.wcb = x.wcb /\ y.rbrie = TRUE
            /\ y.etbei = x.etbei /\ y.rxbuf = x.rxbuf /\ y.rxlen = x.rxlen
        BY <2>6, <2>8 DEF UType
      <3>3. g = [k |-> s1.k, io |-> s1.io, aio |-> s1.aio, u |-> y, spoilt |-> s1.spoilt]
        BY <2>8, <3>6 DEF SysType
      <3> HIDE DEF y
      <3>4. /\ g \in SysType /\ g.k = s.k /\ g.io = s.io /\ g.aio = s.aio
            /\ g.spoilt = s.spoilt /\ g.u = y
        BY <2>8, <3>2, <3>3 DEF SysType
      <3>7. d.ret = 0 /\ d.s = g
        BY <3>1
      <3>8. /\ d.s \in SysType /\ d.s.k = s.k /\ d.s.spoilt = s.spoilt
            /\ d.s.io = s.io /\ d.s.aio = s.aio
        BY <3>4, <3>7
      <3>9. /\ d.s.u.rcb = ctx /\ d.s.u.wcb = s.u.wcb /\ d.s.u.rbrie = TRUE
            /\ d.s.u.etbei = s.u.etbei /\ d.s.u.rxbuf = ctx /\ d.s.u.rxlen = n
        BY <2>5, <2>6, <2>11, <3>2, <3>4, <3>7
      <3>5. QED
        BY <1>1, <1>4, <3>7, <3>8, <3>9 DEF Started, Number, d
    <2>12. m = 0 \/ m > 0
      BY <1>2 DEF m
    <2>13. QED
      BY <2>9, <2>10, <2>11, <2>12 DEF d
  <1>5. QED
    BY <1>1, <1>3, <1>4

LEMMA DevStarts ==
    ASSUME NEW s \in SysType, DriverInv(s), NEW ctx \in Ctx, NEW n \in Sizes,
           NEW read \in BOOLEAN, NEW nonblock \in BOOLEAN
    PROVE  Started(s, DevStart(s, ctx, read, n, nonblock), ctx, read, n)
  <1>1. n \in Nat \ {0}
    BY TransferAssumption
  <1>2. CASE read = TRUE
    <2>1. DevStart(s, ctx, read, n, nonblock) = DevRead(s, ctx, n, nonblock)
      BY <1>2 DEF DevStart
    <2>2. QED
      BY <1>1, <1>2, <2>1, DevReadStarts
  <1>3. CASE read = FALSE
    <2>1. DevStart(s, ctx, read, n, nonblock) = DevWrite(s, ctx, n)
      BY <1>3 DEF DevStart
    <2>2. QED
      BY <1>1, <1>3, <2>1, DevWriteStarts
  <1>4. QED
    BY <1>2, <1>3

-----------------------------------------------------------------------------
\* Steps that leave the table and the callbacks alone.

\* The system e has the table, the callbacks and the mishaps of s, and no new
\* asynchronous transfer.
Alike(s, e) ==
    /\ e \in SysType /\ e.k = s.k
    /\ e.u.rcb = s.u.rcb /\ e.u.wcb = s.u.wcb
    /\ e.u.rbrie = s.u.rbrie /\ e.u.etbei = s.u.etbei
    /\ \A t \in Task : e.aio[t].busy /\ ~e.aio[t].failed => s.aio[t].busy /\ ~s.aio[t].failed
    /\ s.spoilt \subseteq e.spoilt

LEMMA AlikeGood ==
    ASSUME NEW s, NEW P, Good(s, P), NEW e, Alike(s, e),
           \A t \in Task : e.io[t].read = s.io[t].read
    PROVE  Good(e, P)
  <1>1. SleepInv(e, P)
    BY DEF Good, SleepInv, Alike
  <1>2. DriverInv(e)
    BY DEF Good, DriverInv, Alike
  <1>3. CallsInv(e, P)
    BY DEF Good, CallsInv, Alike
  <1>4. AioInv(e)
    BY DEF Good, AioInv, Alike
  <1>5. QED
    BY <1>1, <1>2, <1>3, <1>4 DEF Good, Alike

\* The running thread, which has no call under way, goes on.
LEMMA MovesGood ==
    ASSUME NEW s, NEW P, Good(s, P), NEW e, Alike(s, e),
           NEW c \in Task, c \in s.k.active, InCall(c) \notin {s.u.rcb, s.u.wcb},
           \A t \in Task \ {c} : e.io[t].read = s.io[t].read,
           NEW l \in PC, NEW Q, Q = [P EXCEPT ![c] = l]
    PROVE  Good(e, Q)
  <1>1. P \in [Task -> PC]
    BY DEF Good
  <1>2. Q \in [Task -> PC] /\ \A t \in Task \ {c} : Q[t] = P[t]
    BY <1>1
  <1>3. SleepInv(e, Q)
    <2>1. \A t \in Task : t \in s.k.active \/ Q[t] = P[t]
      BY <1>2
    <2>2. SleepInv(s, P)
      BY DEF Good
    <2>3. /\ e.k = s.k /\ e.u.rcb = s.u.rcb /\ e.u.wcb = s.u.wcb
          /\ s.spoilt \subseteq e.spoilt
      BY DEF Alike
    <2>4. QED
      BY <2>1, <2>2, <2>3 DEF SleepInv
  <1>4. DriverInv(e)
    BY DEF Good, DriverInv, Alike
  <1>5. CallsInv(e, Q)
    <2>1. \A t \in Task : InCall(t) \in {s.u.rcb, s.u.wcb} =>
             Q[t] = P[t] /\ e.io[t].read = s.io[t].read
      BY <1>2
    <2>2. QED
      BY <2>1 DEF Good, CallsInv, Alike
  <1>6. AioInv(e)
    BY DEF Good, AioInv, Alike
  <1>7. QED
    BY <1>2, <1>3, <1>4, <1>5, <1>6 DEF Good, Alike

\* What a read of thread t has got, and will return.
OwnCount(s, P, t) ==
    P[t] = "check" /\ s.io[t].read =>
        IF s.u.rcb = InCall(t)
        THEN s.io[t].ret = 0 /\ s.io[t].got = 0 /\ s.io[t].nbyte = s.u.rxlen
        ELSE Returned(s.io[t]) > 0 => Returned(s.io[t]) = s.io[t].got

\* Another thread's step leaves the counts of thread t as they were.
CountsLeft(s, P, e, Q, t) ==
    /\ Q[t] = P[t] /\ e.io[t] = s.io[t]
    /\ (e.u.rcb = InCall(t) <=> s.u.rcb = InCall(t))
    /\ s.u.rcb = InCall(t) => e.u.rxlen = s.u.rxlen

\* Other threads' counts stay right when thread c goes on.
LEMMA MovesCount ==
    ASSUME NEW s, NEW P, CountInv(s, P), NEW e, NEW c \in Task, NEW Q,
           \A t \in Task \ {c} : CountsLeft(s, P, e, Q, t),
           s.spoilt \subseteq e.spoilt, OwnCount(e, Q, c)
    PROVE  CountInv(e, Q)
  <1> SUFFICES ASSUME {"stray", "cancelled"} \cap e.spoilt = {}, NEW t \in Task
               PROVE  OwnCount(e, Q, t)
    BY DEF CountInv, OwnCount
  <1>1. CASE t = c
    BY <1>1
  <1>2. CASE t # c
    <2>1. CountsLeft(s, P, e, Q, t)
      BY <1>2
    <2>2. {"stray", "cancelled"} \cap s.spoilt = {}
      OBVIOUS
    <2>3. OwnCount(s, P, t)
      BY <2>2 DEF CountInv, OwnCount
    <2>4. QED
      BY <2>1, <2>3 DEF CountsLeft, OwnCount
  <1>3. QED
    BY <1>1, <1>2

\* The system that the variables are.
LEMMA SysFields ==
    ASSUME Good(Sys, pc)
    PROVE  /\ Sys \in SysType /\ Sys.k = k /\ Sys.io = io /\ Sys.aio = aio
           /\ Sys.u = u /\ Sys.spoilt = spoilt
           /\ k \in Kernel /\ io \in [Task -> IoType] /\ aio \in [Task -> AioType]
           /\ u \in UType /\ spoilt \in SUBSET Mishaps
           /\ Table(k) /\ pc \in [Task -> PC]
  <1>1. Sys \in SysType /\ Table(Sys.k) /\ pc \in [Task -> PC]
    BY DEF Good
  <1>2. QED
    BY <1>1 DEF Sys, SysType

\* A privileged call leaves the system x: only the switch is to come.
LEMMA LeaveInv ==
    ASSUME NEW x, Inv(x, pc'), Leave(x)
    PROVE  TransferInv'
  <1>1. /\ k' \in Return(x.k) /\ io' = x.io /\ aio' = x.aio /\ u' = x.u
        /\ spoilt' = x.spoilt
    BY DEF Leave
  <1>2. Good(x, pc') /\ x \in SysType /\ Table(x.k)
    BY DEF Inv, Good
  <1>3. /\ Table(k') /\ k' \in Kernel
        /\ k'.active = x.k.active /\ k'.block = x.k.block /\ k'.unblock = x.k.unblock
    BY <1>1, <1>2, ReturnTable
  <1> DEFINE e == [k |-> k', io |-> x.io, aio |-> x.aio, u |-> x.u, spoilt |-> x.spoilt]
  <1>4. e \in SysType
    BY <1>2, <1>3 DEF SysType
  <1>5. /\ e.k = k' /\ e.io = x.io /\ e.aio = x.aio /\ e.u = x.u /\ e.spoilt = x.spoilt
    OBVIOUS
  <1>6. Sys' = e
    BY <1>1 DEF Sys
  <1> HIDE DEF e
  <1>7. SleepInv(e, pc')
    BY <1>2, <1>3, <1>5 DEF Good, SleepInv
  <1>8. DriverInv(e)
    BY <1>2, <1>5 DEF Good, DriverInv
  <1>9. CallsInv(e, pc')
    BY <1>2, <1>3, <1>5 DEF Good, CallsInv
  <1>10. AioInv(e)
    BY <1>2, <1>5 DEF Good, AioInv
  <1>11. Good(e, pc')
    BY <1>2, <1>3, <1>4, <1>5, <1>7, <1>8, <1>9, <1>10 DEF Good
  <1>12. RxInv(e) /\ CountInv(e, pc')
    BY <1>5 DEF Inv, RxInv, CountInv
  <1>13. Inv(e, pc')
    BY <1>11, <1>12 DEF Inv
  <1>14. TransferInv' <=> Inv(Sys', pc')
    BY DEF TransferInv
  <1>15. QED
    BY <1>6, <1>13, <1>14

LEMMA RunningThread ==
    ASSUME Good(Sys, pc), NEW c \in Task, k.current = c
    PROVE  c \in k.active
  <1>1. Runs(k) /\ c # 0
    BY SysFields, TableAssumption DEF Table, Task
  <1>2. QED
    BY <1>1 DEF Runs

-----------------------------------------------------------------------------
\* The actions.

LEMMA SysTickInv ==
    ASSUME TransferInv, SysTick
    PROVE  TransferInv'
  <1> DEFINE K == SwitchContext(k)
             x == [k |-> K, io |-> io, aio |-> aio, u |-> u, spoilt |-> spoilt]
  <1>1. Good(Sys, pc) /\ RxInv(Sys) /\ CountInv(Sys, pc)
    BY DEF TransferInv, Inv
  <1>2. /\ k \in Kernel /\ Table(k) /\ Sys \in SysType
        /\ io \in [Task -> IoType] /\ aio \in [Task -> AioType]
        /\ u \in UType /\ spoilt \in SUBSET Mishaps
        /\ Sys.k = k /\ Sys.io = io /\ Sys.aio = aio /\ Sys.u = u /\ Sys.spoilt = spoilt
    BY <1>1, SysFields
  <1>3. /\ K \in Kernel /\ K.exec = k.exec /\ K.current = k.current /\ K.active = k.active
        /\ K.used = k.used /\ K.inuse = k.inuse /\ K.stopped = k.stopped
        /\ K.cur = k.cur /\ K.block = k.block /\ K.unblock = k.unblock
    BY <1>2 DEF SwitchContext, Kernel
  <1> HIDE DEF K
  <1>4. Table(K)
    BY <1>2, <1>3 DEF Table, Runs, Busy, Ready
  <1>5. x \in SysType
    BY <1>2, <1>3 DEF SysType
  <1>6. x.k = K /\ x.io = io /\ x.aio = aio /\ x.u = u /\ x.spoilt = spoilt
    OBVIOUS
  <1> HIDE DEF x
  <1>7. SleepInv(x, pc)
    <2>1. x.k.active = k.active /\ x.k.block = k.block
      BY <1>3, <1>6
    <2>2. SleepInv(Sys, pc)
      BY <1>1 DEF Good
    <2>3. QED
      BY <1>2, <1>6, <2>1, <2>2, ZenonT(60) DEF SleepInv
  <1>8. DriverInv(x) /\ AioInv(x) /\ RxInv(x) /\ CountInv(x, pc)
    BY <1>1, <1>2, <1>6 DEF Good, DriverInv, AioInv, RxInv, CountInv
  <1>9. CallsInv(x, pc)
    BY <1>1, <1>2, <1>3, <1>6 DEF Good, CallsInv
  <1>10. Inv(x, pc')
    BY <1>1, <1>4, <1>5, <1>6, <1>7, <1>8, <1>9 DEF Inv, Good, SysTick
  <1>11. Leave(x)
    BY <1>6 DEF Leave, SysTick, K
  <1>12. QED
    BY <1>10, <1>11, LeaveInv

\* A signal wakes a thread, and its call is then one to cancel.
LEMMA SignalInv ==
    ASSUME TransferInv, NEW t \in Task, Signal(t)
    PROVE  TransferInv'
  <1> DEFINE K == SignalActivate(k, t)
             x == [k |-> K, io |-> io, aio |-> aio, u |-> u, spoilt |-> spoilt]
  <1>1. Good(Sys, pc) /\ RxInv(Sys) /\ CountInv(Sys, pc)
    BY DEF TransferInv, Inv
  <1>2. /\ k \in Kernel /\ Table(k) /\ Sys \in SysType
        /\ io \in [Task -> IoType] /\ aio \in [Task -> AioType]
        /\ u \in UType /\ spoilt \in SUBSET Mishaps
        /\ Sys.k = k /\ Sys.io = io /\ Sys.aio = aio /\ Sys.u = u /\ Sys.spoilt = spoilt
    BY <1>1, SysFields
  <1>3. AfterWake(k, K, {t}, "SIGNAL")
    <2>1. k.stopped \ {t} = k.stopped
      BY <1>2 DEF Table
    <2>2. [k EXCEPT !.stopped = @ \ {t}] = k
      BY <1>2, <2>1 DEF Kernel
    <2>3. K = UpdateOnWake(AssertActive(k, {t}, "SIGNAL"), k.prio[t])
      BY <2>2 DEF SignalActivate
    <2>4. /\ t \in {t} \cup (k.active \cap Task)
          /\ {t} \in SUBSET Task /\ "SIGNAL" \in UnblockType
      BY DEF UnblockType
    <2> HIDE DEF K
    <2>5. QED
      BY <1>2, <2>3, <2>4, WokenTable
  <1>4. /\ Table(K) /\ K \in Kernel /\ K.active = k.active \cup {t}
        /\ \A i \in Task : /\ K.block[i] = IF i \in {t} THEN NULL ELSE k.block[i]
                           /\ K.unblock[i] = IF i \in {t} THEN "SIGNAL" ELSE k.unblock[i]
    BY <1>3 DEF AfterWake, Table, Runs
  <1> HIDE DEF K
  <1>5. x \in SysType
    BY <1>2, <1>4 DEF SysType
  <1>6. x.k = K /\ x.io = io /\ x.aio = aio /\ x.u = u /\ x.spoilt = spoilt
    OBVIOUS
  <1> HIDE DEF x
  <1>7. SleepInv(x, pc)
    <2>1. t \in x.k.active /\ x.k.block[t] = NULL
      BY <1>4, <1>6
    <2>2. \A i \in Task \ {t} : /\ i \in x.k.active <=> i \in k.active
                               /\ x.k.block[i] = k.block[i]
      BY <1>4, <1>6
    <2>3. SleepInv(Sys, pc) /\ x.u = Sys.u /\ x.spoilt = Sys.spoilt
      BY <1>1, <1>2, <1>6 DEF Good
    <2>4. QED
      BY <1>2, <2>1, <2>2, <2>3 DEF SleepInv
  <1>8. DriverInv(x) /\ AioInv(x) /\ RxInv(x) /\ CountInv(x, pc)
    BY <1>1, <1>2, <1>6 DEF Good, DriverInv, AioInv, RxInv, CountInv
  <1>9. CallsInv(x, pc)
    BY <1>1, <1>2, <1>4, <1>6 DEF Good, CallsInv
  <1>10. Inv(x, pc')
    BY <1>1, <1>4, <1>5, <1>6, <1>7, <1>8, <1>9 DEF Inv, Good, Signal
  <1>11. Leave(x)
    BY <1>6 DEF Leave, Signal, K
  <1>12. QED
    BY <1>10, <1>11, LeaveInv

LEMMA RxStep ==
    ASSUME TransferInv, Rx
    PROVE  TransferInv'
  <1> DEFINE v == [u EXCEPT !.fifo = @ + 1]
             e == [k |-> k, io |-> io, aio |-> aio, u |-> v, spoilt |-> spoilt]
  <1>1. Good(Sys, pc) /\ RxInv(Sys) /\ CountInv(Sys, pc)
    BY DEF TransferInv, Inv
  <1>2. /\ k \in Kernel /\ io \in [Task -> IoType] /\ aio \in [Task -> AioType]
        /\ u \in UType /\ spoilt \in SUBSET Mishaps
        /\ Sys.k = k /\ Sys.io = io /\ Sys.aio = aio /\ Sys.u = u /\ Sys.spoilt = spoilt
    BY <1>1, SysFields
  <1>3. /\ v \in UType /\ v.rcb = u.rcb /\ v.wcb = u.wcb /\ v.rbrie = u.rbrie
        /\ v.etbei = u.etbei /\ v.rxbuf = u.rxbuf /\ v.rxlen = u.rxlen
    BY <1>2 DEF UType
  <1>4. Sys' = e /\ pc' = pc
    BY DEF Rx, Sys
  <1> HIDE DEF v
  <1>5. e \in SysType
    BY <1>2, <1>3 DEF SysType
  <1>6. e.k = k /\ e.io = io /\ e.aio = aio /\ e.u = v /\ e.spoilt = spoilt
    OBVIOUS
  <1> HIDE DEF e
  <1>7. Alike(Sys, e)
    BY <1>2, <1>3, <1>5, <1>6 DEF Alike
  <1>8. Good(e, pc)
    BY <1>1, <1>2, <1>6, <1>7, AlikeGood
  <1>9. RxInv(e) /\ CountInv(e, pc)
    BY <1>1, <1>2, <1>3, <1>6 DEF RxInv, CountInv
  <1>10. Inv(Sys', pc')
    BY <1>4, <1>8, <1>9 DEF Inv
  <1>11. QED
    BY <1>10 DEF TransferInv

\* A thread that is woken by the callback has no call under way any more.
LEMMA CheckStep ==
    ASSUME TransferInv, NEW c \in Task, Check(c)
    PROVE  TransferInv'
  <1>1. Good(Sys, pc) /\ RxInv(Sys) /\ CountInv(Sys, pc)
    BY DEF TransferInv, Inv
  <1>2. /\ k \in Kernel /\ io \in [Task -> IoType] /\ aio \in [Task -> AioType]
        /\ u \in UType /\ spoilt \in SUBSET Mishaps /\ pc \in [Task -> PC] /\ Sys \in SysType
        /\ Sys.k = k /\ Sys.io = io /\ Sys.aio = aio /\ Sys.u = u /\ Sys.spoilt = spoilt
    BY <1>1, SysFields
  <1>3. k.current = c /\ pc[c] = "check" /\ c \in k.active
    BY <1>1, RunningThread DEF Check, At
  <1>4. UNCHANGED <<k, aio, u, spoilt>>
    BY DEF Check
  <1>5. CASE k.unblock[c] = "SIGNAL"
    <2>1. io' = io /\ pc' = [pc EXCEPT ![c] = "cancel"]
      BY <1>5 DEF Check, Goto
    <2>2. Sys' = Sys
      BY <1>4, <2>1 DEF Sys
    <2> DEFINE Q == [pc EXCEPT ![c] = "cancel"]
    <2>3. /\ Q \in [Task -> PC] /\ Q[c] = "cancel"
          /\ \A t \in Task \ {c} : Q[t] = pc[t]
      BY <1>2 DEF PC
    <2>4. pc' = Q
      BY <2>1
    <2> HIDE DEF Q
    <2>5. \A t \in Task : t \in k.active \/ Q[t] = pc[t]
      BY <1>3, <2>3
    <2>6. SleepInv(Sys, Q)
      BY <1>1, <1>2, <2>5 DEF Good, SleepInv
    <2>7. CallsInv(Sys, Q)
      BY <1>1, <1>2, <2>3 DEF Good, CallsInv
    <2>8. CountInv(Sys, Q)
      BY <1>1, <2>3 DEF CountInv
    <2>9. Inv(Sys, Q)
      BY <1>1, <2>3, <2>6, <2>7, <2>8 DEF Inv, Good
    <2>10. Inv(Sys', pc')
      BY <2>2, <2>4, <2>9
    <2>11. QED
      BY <2>10 DEF TransferInv
  <1>6. CASE k.unblock[c] # "SIGNAL"
    <2> DEFINE x == [io EXCEPT ![c] = NoIo]
               e == [k |-> k, io |-> x, aio |-> aio, u |-> u, spoilt |-> spoilt]
               Q == [pc EXCEPT ![c] = "run"]
    <2>1. pc' = Q /\ Sys' = e
      BY <1>4, <1>6 DEF Check, Goto, Sys
    <2>2. NoIo \in IoType
      BY DEF NoIo, IoType, Number
    <2>3. x \in [Task -> IoType] /\ \A t \in Task \ {c} : x[t] = io[t]
      BY <1>2, <2>2
    <2>4. Q[c] = "run" /\ "run" \in PC /\ \A t \in Task \ {c} : Q[t] = pc[t]
      BY <1>2 DEF PC
    <2> HIDE DEF x
    <2>5. e \in SysType
      BY <1>2, <2>3 DEF SysType
    <2>6. e.k = k /\ e.io = x /\ e.aio = aio /\ e.u = u /\ e.spoilt = spoilt
      OBVIOUS
    <2> HIDE DEF e
    <2>7. InCall(c) \notin {u.rcb, u.wcb}
      BY <1>1, <1>2, <1>3, <1>6 DEF Good, CallsInv
    <2>8. Alike(Sys, e)
      BY <1>2, <2>5, <2>6 DEF Alike
    <2>9. Good(e, Q)
      <3>1. /\ Good(Sys, pc) /\ c \in Sys.k.active
            /\ InCall(c) \notin {Sys.u.rcb, Sys.u.wcb}
            /\ \A t \in Task \ {c} : e.io[t].read = Sys.io[t].read
            /\ "run" \in PC /\ Q = [pc EXCEPT ![c] = "run"]
        BY <1>1, <1>2, <1>3, <2>3, <2>4, <2>6, <2>7
      <3> HIDE DEF Q
      <3>2. QED
        BY <2>8, <3>1, MovesGood
    <2>10. RxInv(e)
      BY <1>1, <1>2, <2>6 DEF RxInv
    <2>11. CountInv(e, Q)
      <3>1. \A t \in Task \ {c} : CountsLeft(Sys, pc, e, Q, t)
        BY <1>2, <2>3, <2>4, <2>6 DEF CountsLeft
      <3>2. Sys.spoilt \subseteq e.spoilt /\ OwnCount(e, Q, c)
        BY <1>2, <2>4, <2>6 DEF OwnCount
      <3> HIDE DEF Q
      <3>3. QED
        BY <1>1, <3>1, <3>2, MovesCount
    <2>12. Inv(Sys', pc')
      BY <2>1, <2>9, <2>10, <2>11 DEF Inv
    <2>13. QED
      BY <2>12 DEF TransferInv
  <1>7. QED
    BY <1>5, <1>6

LEMMA SuspendReturnStep ==
    ASSUME TransferInv, NEW c \in Task, SuspendReturn(c)
    PROVE  TransferInv'
  <1> DEFINE Q == [pc EXCEPT ![c] = "run"]
  <1>1. Good(Sys, pc) /\ RxInv(Sys) /\ CountInv(Sys, pc)
    BY DEF TransferInv, Inv
  <1>2. /\ Sys \in SysType /\ pc \in [Task -> PC]
        /\ Sys.k = k /\ Sys.io = io /\ Sys.aio = aio /\ Sys.u = u /\ Sys.spoilt = spoilt
    BY <1>1, SysFields
  <1>3. k.current = c /\ pc[c] = "suspended" /\ c \in k.active
    BY <1>1, RunningThread DEF SuspendReturn, At
  <1>4. Sys' = Sys /\ pc' = Q
    BY DEF SuspendReturn, Goto, Sys
  <1>5. Q[c] = "run" /\ "run" \in PC /\ \A t \in Task \ {c} : Q[t] = pc[t]
    BY <1>2 DEF PC
  <1>6. InCall(c) \notin {Sys.u.rcb, Sys.u.wcb}
    BY <1>1, <1>3 DEF Good, CallsInv
  <1>7. Alike(Sys, Sys)
    BY <1>2 DEF Alike
  <1>8. Good(Sys, Q)
    BY <1>1, <1>2, <1>3, <1>5, <1>6, <1>7, MovesGood
  <1>9. CountInv(Sys, Q)
    <2>1. /\ \A t \in Task \ {c} : CountsLeft(Sys, pc, Sys, Q, t)
          /\ OwnCount(Sys, Q, c)
      BY <1>5 DEF CountsLeft, OwnCount
    <2> HIDE DEF Q
    <2>2. QED
      BY <1>1, <2>1, MovesCount
  <1>10. Inv(Sys', pc')
    BY <1>1, <1>4, <1>8, <1>9 DEF Inv
  <1>11. QED
    BY <1>10 DEF TransferInv

\* What the invariant says of one thread.
OwnInv(s, P, t) ==
    /\ \/ t \in s.k.active /\ s.k.block[t] = NULL
       \/ /\ t \notin s.k.active /\ P[t] = "check"
          /\ \/ s.k.block[t] = DevObj(TRUE) /\ s.u.rcb = InCall(t)
             \/ s.k.block[t] = DevObj(FALSE) /\ s.u.wcb = InCall(t)
       \/ /\ t \notin s.k.active /\ P[t] = "suspended" /\ s.k.block[t] = AioObj(t)
          /\ "refused" \in s.spoilt \/ s.u.rcb = InAio(t) \/ s.u.wcb = InAio(t)
    /\ s.u.rcb = InCall(t) => s.io[t].read
    /\ s.u.wcb = InCall(t) => ~s.io[t].read
    /\ InCall(t) \in {s.u.rcb, s.u.wcb} =>
          \/ P[t] = "check" /\ (t \notin s.k.active \/ s.k.unblock[t] = "SIGNAL")
          \/ P[t] = "cancel"
    /\ s.aio[t].busy /\ ~s.aio[t].failed => InAio(t) \in {s.u.rcb, s.u.wcb}

\* Another thread's step leaves thread t where it was.
LeftAlone(s, P, e, Q, t) ==
    /\ Q[t] = P[t] /\ (t \in e.k.active <=> t \in s.k.active)
    /\ e.k.block[t] = s.k.block[t] /\ e.k.unblock[t] = s.k.unblock[t]
    /\ e.io[t].read = s.io[t].read
    /\ (e.u.rcb = InCall(t) <=> s.u.rcb = InCall(t))
    /\ (e.u.wcb = InCall(t) <=> s.u.wcb = InCall(t))
    /\ (e.u.rcb = InAio(t) <=> s.u.rcb = InAio(t))
    /\ (e.u.wcb = InAio(t) <=> s.u.wcb = InAio(t))
    /\ e.aio[t].busy /\ ~e.aio[t].failed => s.aio[t].busy /\ ~s.aio[t].failed

\* A step of thread c, which may start a transfer and go to sleep.
LEMMA ThreadGood ==
    ASSUME NEW s, NEW P, Good(s, P), NEW c \in Task,
           NEW e \in SysType, Table(e.k), DriverInv(e), s.spoilt \subseteq e.spoilt,
           NEW Q \in [Task -> PC],
           \A t \in Task \ {c} : LeftAlone(s, P, e, Q, t),
           OwnInv(e, Q, c)
    PROVE  Good(e, Q)
  <1>1. \A t \in Task \ {c} : OwnInv(s, P, t)
    BY DEF Good, SleepInv, CallsInv, AioInv, OwnInv
  <1>2. ASSUME NEW t \in Task \ {c}
        PROVE  OwnInv(e, Q, t)
    <2>1. OwnInv(s, P, t) /\ LeftAlone(s, P, e, Q, t)
      BY <1>1
    <2>2. s.aio[t].busy /\ ~s.aio[t].failed => InAio(t) \in {s.u.rcb, s.u.wcb}
      BY <2>1 DEF OwnInv
    <2>3. e.aio[t].busy /\ ~e.aio[t].failed => InAio(t) \in {e.u.rcb, e.u.wcb}
      BY <2>1, <2>2 DEF LeftAlone
    <2>4. QED
      BY <2>1, <2>3 DEF OwnInv, LeftAlone
  <1>3. \A t \in Task : OwnInv(e, Q, t)
    BY <1>2
  <1>4. SleepInv(e, Q) /\ CallsInv(e, Q) /\ AioInv(e)
    BY <1>3 DEF SleepInv, CallsInv, AioInv, OwnInv
  <1>5. QED
    BY <1>4 DEF Good

\* The running thread sleeps until its asynchronous transfer is over.
LEMMA SuspendTable ==
    ASSUME NEW K, Table(K), NEW c \in Task, K.current = c, NEW obj \in Object,
           NEW R \in Return(TimedBlock(K, obj, "never"))
    PROVE  Asleep(K, R, c, obj)
  <1>1. Runs(K) /\ K.used = Task /\ K.inuse = Task /\ K.stopped = {} /\ K.current \in Task
    BY DEF Table
  <1>2. /\ Runs(R) /\ IsTop(R) /\ R.used = K.used /\ R.inuse = K.inuse
        /\ R.active = K.active \ {c} /\ R.unblock = K.unblock
        /\ R.block = [K.block EXCEPT ![c] = obj] /\ R.stopped = K.stopped
    BY <1>1, BlockRuns
  <1>3. R \in Kernel /\ Busy(R)
    BY <1>2, TopBusy DEF Runs
  <1>4. QED
    BY <1>1, <1>2, <1>3 DEF Table, Asleep

LEMMA SuspendStep ==
    ASSUME TransferInv, NEW c \in Task, Suspend(c)
    PROVE  TransferInv'
  <1>1. Good(Sys, pc) /\ RxInv(Sys) /\ CountInv(Sys, pc)
    BY DEF TransferInv, Inv
  <1>2. /\ k \in Kernel /\ Table(k) /\ io \in [Task -> IoType] /\ aio \in [Task -> AioType]
        /\ u \in UType /\ spoilt \in SUBSET Mishaps /\ pc \in [Task -> PC] /\ Sys \in SysType
        /\ Sys.k = k /\ Sys.io = io /\ Sys.aio = aio /\ Sys.u = u /\ Sys.spoilt = spoilt
    BY <1>1, SysFields
  <1>3. /\ k.current = c /\ c \in k.active
        /\ pc[c] = "listio" \/ (pc[c] = "run" /\ aio[c].busy /\ ~aio[c].failed)
    BY <1>1, RunningThread DEF Suspend, At
  <1>4. InCall(c) \notin {u.rcb, u.wcb}
    BY <1>1, <1>2, <1>3 DEF Good, CallsInv
  <1>5. CASE aio[c].busy
    <2> DEFINE m == IF aio[c].failed THEN spoilt \cup {"refused"} ELSE spoilt
               x == [Sys EXCEPT !.k = TimedBlock(k, AioObj(c), "never"),
                                !.spoilt = IF aio[c].failed THEN @ \cup {"refused"} ELSE @]
               e == [k |-> k', io |-> io, aio |-> aio, u |-> u, spoilt |-> m]
               Q == [pc EXCEPT ![c] = "suspended"]
    <2>1. Leave(x) /\ pc' = Q
      BY <1>5 DEF Suspend, Goto
    <2>2. /\ x.k = TimedBlock(k, AioObj(c), "never") /\ x.io = io /\ x.aio = aio
          /\ x.u = u /\ x.spoilt = m
      BY <1>2 DEF Sys
    <2> HIDE DEF x
    <2>3. k' \in Return(TimedBlock(k, AioObj(c), "never")) /\ Sys' = e
      BY <2>1, <2>2 DEF Leave, Sys
    <2>4. /\ Table(k') /\ k' \in Kernel
          /\ k'.active = k.active \ {c} /\ k'.unblock = k.unblock
          /\ k'.block = [k.block EXCEPT ![c] = AioObj(c)]
      BY <1>2, <1>3, <2>3, Objects, SuspendTable DEF Asleep
    <2>5. /\ k'.block[c] = AioObj(c)
          /\ \A t \in Task \ {c} : k'.block[t] = k.block[t]
      BY <1>2, <2>4 DEF Kernel
    <2>6. m \in SUBSET Mishaps /\ spoilt \subseteq m /\ (aio[c].failed => "refused" \in m)
      BY <1>2 DEF Mishaps
    <2> HIDE DEF m
    <2>7. e \in SysType
      BY <1>2, <2>4, <2>6 DEF SysType
    <2>8. e.k = k' /\ e.io = io /\ e.aio = aio /\ e.u = u /\ e.spoilt = m
      OBVIOUS
    <2>9. /\ Q \in [Task -> PC] /\ Q[c] = "suspended"
          /\ \A t \in Task \ {c} : Q[t] = pc[t]
      BY <1>2 DEF PC
    <2> HIDE DEF e, Q
    <2>10. Good(e, Q)
      <3>1. \A t \in Task \ {c} : LeftAlone(Sys, pc, e, Q, t)
        BY <1>2, <2>4, <2>5, <2>8, <2>9 DEF LeftAlone
      <3>2. ~aio[c].failed => InAio(c) \in {u.rcb, u.wcb}
        BY <1>1, <1>2, <1>5 DEF Good, AioInv
      <3>3. OwnInv(e, Q, c)
        BY <1>4, <2>4, <2>5, <2>6, <2>8, <2>9, <3>2 DEF OwnInv
      <3>4. DriverInv(e) /\ Table(e.k) /\ Sys.spoilt \subseteq e.spoilt
        BY <1>1, <1>2, <2>4, <2>6, <2>8 DEF Good, DriverInv
      <3>5. QED
        BY <1>1, <2>7, <2>9, <3>1, <3>3, <3>4, ThreadGood
    <2>11. CountInv(e, Q)
      <3>1. \A t \in Task \ {c} : CountsLeft(Sys, pc, e, Q, t)
        BY <1>2, <2>8, <2>9 DEF CountsLeft
      <3>2. Sys.spoilt \subseteq e.spoilt /\ OwnCount(e, Q, c)
        BY <1>2, <2>6, <2>8, <2>9 DEF OwnCount
      <3>3. QED
        BY <1>1, <3>1, <3>2, MovesCount
    <2>12. RxInv(e)
      BY <1>1, <1>2, <2>8 DEF RxInv
    <2>13. Inv(Sys', pc')
      BY <2>1, <2>3, <2>10, <2>11, <2>12 DEF Inv
    <2>14. QED
      BY <2>13 DEF TransferInv
  <1>6. CASE ~aio[c].busy
    <2> DEFINE Q == [pc EXCEPT ![c] = "run"]
    <2>1. Leave(Sys) /\ pc' = Q
      BY <1>6 DEF Suspend, Goto
    <2>2. Q[c] = "run" /\ "run" \in PC /\ \A t \in Task \ {c} : Q[t] = pc[t]
      BY <1>2 DEF PC
    <2>3. Alike(Sys, Sys)
      BY <1>2 DEF Alike
    <2>4. Good(Sys, Q)
      BY <1>1, <1>2, <1>3, <1>4, <2>2, <2>3, MovesGood
    <2>5. /\ \A t \in Task \ {c} : CountsLeft(Sys, pc, Sys, Q, t)
          /\ OwnCount(Sys, Q, c)
      BY <2>2 DEF CountsLeft, OwnCount
    <2> HIDE DEF Q
    <2>6. CountInv(Sys, Q)
      BY <1>1, <2>5, MovesCount
    <2>7. Inv(Sys, pc')
      BY <1>1, <2>1, <2>4, <2>6 DEF Inv
    <2>8. QED
      BY <2>1, <2>7, LeaveInv
  <1>7. QED
    BY <1>5, <1>6

\* The system e is s, but for the call that thread c is in.
OwnCall(s, e, c) ==
    /\ e \in SysType /\ e.k = s.k /\ e.aio = s.aio /\ e.u = s.u /\ e.spoilt = s.spoilt
    /\ \A t \in Task \ {c} : e.io[t] = s.io[t]

\* A new call of read() or write() is set up ...
NewCall(s, c, read, n) == [s EXCEPT !.io[c] = [NoIo EXCEPT !.read = read, !.nbyte = n]]

LEMMA CallSetUp ==
    ASSUME NEW s \in SysType, NEW c \in Task, NEW read \in BOOLEAN, NEW n \in Sizes
    PROVE  /\ OwnCall(s, NewCall(s, c, read, n), c)
           /\ NewCall(s, c, read, n).io[c] = [read |-> read, ret |-> 0, nbyte |-> n, got |-> 0]
  <1> DEFINE s0 == NewCall(s, c, read, n)
             r == [NoIo EXCEPT !.read = read, !.nbyte = n]
             x == [s.io EXCEPT ![c] = r]
  <1>1. n \in Number /\ 0 \in Number
    BY TransferAssumption DEF Number
  <1>2. r = [read |-> read, ret |-> 0, nbyte |-> n, got |-> 0]
    <2> DEFINE r1 == [NoIo EXCEPT !.read = read]
    <2>1. r1 = [read |-> read, ret |-> 0, nbyte |-> 0, got |-> 0]
      BY DEF NoIo
    <2>2. r = [r1 EXCEPT !.nbyte = n]
      BY Zenon
    <2> HIDE DEF r1, r
    <2>3. QED
      BY <2>1, <2>2
  <1>3. s0 = [s EXCEPT !.io = x]
    BY DEF NewCall
  <1> HIDE DEF r, s0
  <1>4. r \in IoType
    BY <1>1, <1>2 DEF IoType
  <1>5. /\ x \in [Task -> IoType] /\ x[c] = r
        /\ \A t \in Task \ {c} : x[t] = s.io[t]
    BY <1>4 DEF SysType
  <1> HIDE DEF x
  <1>6. /\ s0 \in SysType /\ s0.io = x /\ s0.k = s.k /\ s0.aio = s.aio /\ s0.u = s.u
        /\ s0.spoilt = s.spoilt
    BY <1>3, <1>5 DEF SysType
  <1>7. QED
    BY <1>2, <1>5, <1>6 DEF OwnCall, s0

\* ... and gets the driver's result.
WithResult(s, c, ret) == [s EXCEPT !.io[c].ret = ret]

LEMMA CallResult ==
    ASSUME NEW s \in SysType, NEW c \in Task, NEW ret \in Number
    PROVE  /\ OwnCall(s, WithResult(s, c, ret), c)
           /\ WithResult(s, c, ret).io[c] = [s.io[c] EXCEPT !.ret = ret]
  <1> DEFINE s1 == WithResult(s, c, ret)
             r == [s.io[c] EXCEPT !.ret = ret]
             x == [s.io EXCEPT ![c] = r]
  <1>1. s.io \in [Task -> IoType] /\ s.io[c] \in IoType
    BY DEF SysType
  <1>2. s1 = [s EXCEPT !.io = x]
    BY <1>1 DEF WithResult
  <1>3. r \in IoType
    BY <1>1 DEF IoType
  <1>7. r = [s.io[c] EXCEPT !.ret = ret]
    OBVIOUS
  <1> HIDE DEF r, s1
  <1>4. /\ x \in [Task -> IoType] /\ x[c] = r
        /\ \A t \in Task \ {c} : x[t] = s.io[t]
    BY <1>1, <1>3
  <1> HIDE DEF x
  <1>5. /\ s1 \in SysType /\ s1.io = x /\ s1.k = s.k /\ s1.aio = s.aio /\ s1.u = s.u
        /\ s1.spoilt = s.spoilt
    BY <1>2, <1>4 DEF SysType
  <1>6. QED
    BY <1>7, <1>4, <1>5 DEF OwnCall, s1

\* priv_device_data_transfer(), up to where the thread goes to sleep.
DevCall(s, c, read, n, nonblock) ==
    DevStart(NewCall(s, c, read, n), InCall(c), read, n, nonblock)

\* s1 is s after it, and ret the driver's result.
Begun(s, P, s1, Q, c, read, ret) ==
    /\ s1 \in SysType /\ s1.k = s.k /\ s1.spoilt = s.spoilt
    /\ RxInv(s1) /\ DriverInv(s1) /\ CountInv(s1, Q)
    /\ \A t \in Task \ {c} : LeftAlone(s, P, s1, Q, t)
    /\ ret = 0 =>
          /\ s1.io[c].read = read
          /\ IF read THEN s1.u.rcb = InCall(c) /\ s1.u.wcb # InCall(c)
             ELSE s1.u.wcb = InCall(c) /\ s1.u.rcb # InCall(c)
    /\ ret # 0 => Alike(s, s1)
    /\ s1.aio[c].busy /\ ~s1.aio[c].failed => InAio(c) \in {s1.u.rcb, s1.u.wcb}

LEMMA TransferStarts ==
    ASSUME NEW s, NEW P, Good(s, P), RxInv(s), CountInv(s, P),
           NEW c \in Task, c \in s.k.active, P[c] = "run",
           NEW read \in BOOLEAN, NEW nonblock \in BOOLEAN, NEW n \in Sizes
    PROVE  LET d == DevCall(s, c, read, n, nonblock)
           IN  Begun(s, P, WithResult(d.s, c, d.ret), [P EXCEPT ![c] = "check"], c, read, d.ret)
  <1> DEFINE Q  == [P EXCEPT ![c] = "check"]
             s0 == NewCall(s, c, read, n)
             d  == DevCall(s, c, read, n, nonblock)
             s1 == WithResult(d.s, c, d.ret)
  <1>0. d = DevStart(s0, InCall(c), read, n, nonblock)
    BY DEF DevCall
  <1>1. /\ s \in SysType /\ P \in [Task -> PC] /\ DriverInv(s)
        /\ InCall(c) \notin {s.u.rcb, s.u.wcb}
    BY DEF Good, CallsInv
  <1>2. /\ s0 \in SysType /\ s0.k = s.k /\ s0.aio = s.aio /\ s0.u = s.u
        /\ s0.spoilt = s.spoilt
        /\ \A t \in Task \ {c} : s0.io[t] = s.io[t]
        /\ s0.io[c].read = read /\ s0.io[c].ret = 0 /\ s0.io[c].got = 0
        /\ s0.io[c].nbyte = n
    <2>1. OwnCall(s, s0, c)
          /\ s0.io[c] = [read |-> read, ret |-> 0, nbyte |-> n, got |-> 0]
      BY <1>1, CallSetUp
    <2> HIDE DEF s0
    <2>2. QED
      BY <2>1 DEF OwnCall
  <1> HIDE DEF s0, d
  <1>3. DriverInv(s0)
    BY <1>1, <1>2 DEF DriverInv
  <1>4. Started(s0, d, InCall(c), read, n)
    BY <1>0, <1>2, <1>3, Contexts, DevStarts
  <1>5. d.ret \in Number /\ d.s \in SysType
    BY <1>4 DEF Started
  <1>6. /\ s1 \in SysType /\ s1.k = d.s.k /\ s1.aio = d.s.aio /\ s1.u = d.s.u
        /\ s1.spoilt = d.s.spoilt
        /\ \A t \in Task \ {c} : s1.io[t] = d.s.io[t]
        /\ s1.io[c].read = d.s.io[c].read /\ s1.io[c].ret = d.ret
        /\ s1.io[c].got = d.s.io[c].got /\ s1.io[c].nbyte = d.s.io[c].nbyte
    <2>1. OwnCall(d.s, s1, c) /\ s1.io[c] = [d.s.io[c] EXCEPT !.ret = d.ret]
      BY <1>5, CallResult
    <2> HIDE DEF s1
    <2>2. d.s.io[c] \in IoType
      BY <1>5 DEF SysType
    <2>3. QED
      BY <2>1, <2>2 DEF OwnCall, IoType
  <1> HIDE DEF s1
  <1>7. /\ s1.k = s.k /\ s1.spoilt = s.spoilt /\ s1.io[c].read = read
        /\ \A t \in Task : s1.aio[t].busy = s.aio[t].busy /\ s1.aio[t].failed = s.aio[t].failed
        /\ \A t \in Task \ {c} : s1.io[t] = s.io[t]
    <2>1. \A t \in Task \ {c} : d.s.io[t] = s0.io[t]
      BY <1>4, Contexts DEF Started
    <2>2. \A t \in Task \ {c} : s1.io[t] = s.io[t]
      BY <1>2, <1>6, <2>1
    <2>3. /\ d.s.k = s0.k /\ d.s.spoilt = s0.spoilt
          /\ \A t \in Task : /\ d.s.aio[t].busy = s0.aio[t].busy
                             /\ d.s.aio[t].failed = s0.aio[t].failed
                             /\ d.s.io[t].read = s0.io[t].read
      BY <1>4 DEF Started
    <2>4. QED
      BY <1>2, <1>6, <2>2, <2>3
  <1>8. /\ s1.u.rcb = (IF d.ret = 0 /\ read THEN InCall(c) ELSE s.u.rcb)
        /\ s1.u.rbrie <=> (s.u.rbrie \/ (d.ret = 0 /\ read))
        /\ s1.u.wcb = (IF d.ret = 0 /\ ~read THEN InCall(c) ELSE s.u.wcb)
        /\ s1.u.etbei <=> (s.u.etbei \/ (d.ret = 0 /\ ~read))
        /\ d.ret = 0 /\ read => ~s.u.rbrie /\ s1.u.rxbuf = InCall(c) /\ s1.u.rxlen = n
        /\ d.ret = 0 /\ ~read => ~s.u.etbei
        /\ s.u.rbrie \/ ~read => s1.u.rxbuf = s.u.rxbuf /\ s1.u.rxlen = s.u.rxlen
    BY <1>2, <1>4, <1>6 DEF Started
  <1>9. /\ d.ret = 0 /\ read => s1.io[c].got = 0 /\ s1.io[c].nbyte = n
        /\ d.ret > 0 => s1.io[c].got = d.ret
    <2>1. /\ d.ret = 0 /\ read => d.s.io = s0.io
          /\ d.ret > 0 => d.s.io[c].got = s0.io[c].got + d.ret
      BY <1>4 DEF Started
    <2>2. QED
      BY <1>2, <1>5, <1>6, <2>1 DEF Number
  <1>10. (s.u.rcb # None <=> s.u.rbrie) /\ (s.u.wcb # None <=> s.u.etbei)
    BY <1>1 DEF DriverInv
  <1>11. /\ Q \in [Task -> PC] /\ Q[c] = "check"
         /\ \A t \in Task \ {c} : Q[t] = P[t]
    BY <1>1 DEF PC
  <1> HIDE DEF Q
  <1>12. \A t \in Task \ {c} :
            /\ InCall(c) # InCall(t) /\ InCall(c) # InAio(t)
            /\ None # InCall(t) /\ None # InAio(t)
    BY Contexts
  <1>13. InCall(c) # None
    BY Contexts
  <1>14. DriverInv(s1)
    BY <1>8, <1>10, <1>13 DEF DriverInv
  <1>15. \A t \in Task \ {c} : LeftAlone(s, P, s1, Q, t)
    BY <1>7, <1>8, <1>10, <1>11, <1>12 DEF LeftAlone
  <1>16. RxInv(s1)
    BY <1>8 DEF RxInv
  <1>17. CountInv(s1, Q)
    <2>1. \A t \in Task \ {c} : CountsLeft(s, P, s1, Q, t)
      BY <1>7, <1>8, <1>10, <1>11, <1>12 DEF CountsLeft
    <2>2. OwnCount(s1, Q, c)
      <3>1. s1.io[c].ret = d.ret /\ s1.io[c].read = read /\ d.ret \in Int
        BY <1>5, <1>6, <1>7 DEF Number
      <3>2. CASE d.ret = 0
        <4>1. CASE ~read
          BY <3>1, <4>1 DEF OwnCount
        <4>2. CASE read
          <5>1. s1.u.rcb = InCall(c) /\ s1.u.rxlen = n
            BY <1>8, <3>2, <4>2
          <5>2. s1.io[c].ret = 0 /\ s1.io[c].got = 0 /\ s1.io[c].nbyte = n
            BY <1>9, <3>1, <3>2, <4>2
          <5>3. QED
            BY <5>1, <5>2 DEF OwnCount
        <4>3. QED
          BY <4>1, <4>2
      <3>3. CASE d.ret # 0
        <4>1. s1.u.rcb # InCall(c) /\ Returned(s1.io[c]) = d.ret
          BY <1>1, <1>8, <3>1, <3>3 DEF Returned
        <4>2. d.ret > 0 => d.ret = s1.io[c].got
          BY <1>9
        <4>3. QED
          BY <4>1, <4>2 DEF OwnCount
      <3>4. QED
        BY <3>2, <3>3
    <2>3. QED
      BY <1>7, <2>1, <2>2, MovesCount
  <1>18. d.ret # 0 => Alike(s, s1)
    <2>1. /\ s.u.rbrie \in BOOLEAN /\ s1.u.rbrie \in BOOLEAN
          /\ s.u.etbei \in BOOLEAN /\ s1.u.etbei \in BOOLEAN
      BY <1>1, <1>6 DEF SysType, UType
    <2>2. ASSUME d.ret # 0
          PROVE  /\ s1.u.rcb = s.u.rcb /\ s1.u.wcb = s.u.wcb
                 /\ s1.u.rbrie = s.u.rbrie /\ s1.u.etbei = s.u.etbei
      BY <1>8, <2>1, <2>2
    <2>3. QED
      BY <1>6, <1>7, <2>2 DEF Alike
  <1>19. s1.aio[c].busy /\ ~s1.aio[c].failed => InAio(c) \in {s1.u.rcb, s1.u.wcb}
    <2>1. InAio(c) # None
      BY Contexts
    <2>2. s.aio[c].busy /\ ~s.aio[c].failed => InAio(c) \in {s.u.rcb, s.u.wcb}
      BY DEF Good, AioInv
    <2>3. QED
      BY <1>7, <1>8, <1>10, <2>1, <2>2
  <1>20. d.ret = 0 => /\ s1.io[c].read = read
                      /\ IF read THEN s1.u.rcb = InCall(c) /\ s1.u.wcb # InCall(c)
                         ELSE s1.u.wcb = InCall(c) /\ s1.u.rcb # InCall(c)
    BY <1>1, <1>7, <1>8
  <1>21. Begun(s, P, s1, Q, c, read, d.ret)
    BY <1>6, <1>7, <1>14, <1>15, <1>16, <1>17, <1>18, <1>19, <1>20 DEF Begun
  <1>22. QED
    BY <1>21 DEF s1, d, Q

\* A call of read() or write(): the thread sleeps, or its transfer is over or
\* was refused.
LEMMA TransferStep ==
    ASSUME TransferInv, NEW c \in Task, NEW read \in BOOLEAN, NEW nonblock \in BOOLEAN,
           NEW n \in Sizes, Transfer(c, read, n, nonblock)
    PROVE  TransferInv'
  <1> DEFINE d  == DevCall(Sys, c, read, n, nonblock)
             s1 == WithResult(d.s, c, d.ret)
             Q  == [pc EXCEPT ![c] = "check"]
  <1>1. Good(Sys, pc) /\ RxInv(Sys) /\ CountInv(Sys, pc)
    BY DEF TransferInv, Inv
  <1>2. /\ k \in Kernel /\ Table(k) /\ pc \in [Task -> PC] /\ Sys \in SysType
        /\ Sys.k = k /\ Sys.io = io /\ Sys.aio = aio /\ Sys.u = u /\ Sys.spoilt = spoilt
    BY <1>1, SysFields
  <1>3. k.current = c /\ pc[c] = "run" /\ c \in k.active
    BY <1>1, RunningThread DEF Transfer, At
  <1>4. /\ Leave(IF d.ret = 0 THEN Sleeps(s1, c, read) ELSE s1)
        /\ pc' = Q
    BY Zenon DEF Transfer, Goto, DevCall, NewCall, WithResult, InCall
  <1>5. Begun(Sys, pc, s1, Q, c, read, d.ret)
    <2>1. c \in Sys.k.active
      BY <1>2, <1>3
    <2>2. QED
      BY <1>1, <1>3, <2>1, TransferStarts
  <1>10. Q = [pc EXCEPT ![c] = "check"]
    OBVIOUS
  <1> HIDE DEF d, s1, Q
  <1>11. /\ s1 \in SysType /\ s1.k = Sys.k /\ s1.spoilt = Sys.spoilt
         /\ RxInv(s1) /\ DriverInv(s1) /\ CountInv(s1, Q)
         /\ \A t \in Task \ {c} : LeftAlone(Sys, pc, s1, Q, t)
         /\ d.ret = 0 =>
               /\ s1.io[c].read = read
               /\ IF read THEN s1.u.rcb = InCall(c) /\ s1.u.wcb # InCall(c)
                  ELSE s1.u.wcb = InCall(c) /\ s1.u.rcb # InCall(c)
         /\ d.ret # 0 => Alike(Sys, s1)
         /\ s1.aio[c].busy /\ ~s1.aio[c].failed => InAio(c) \in {s1.u.rcb, s1.u.wcb}
    BY <1>5 DEF Begun
  <1>6. /\ Q \in [Task -> PC] /\ Q[c] = "check" /\ "check" \in PC
        /\ \A t \in Task \ {c} : Q[t] = pc[t]
    BY <1>2, <1>10 DEF PC
  <1>7. CASE d.ret = 0
    <2> DEFINE e == [k |-> k', io |-> s1.io, aio |-> s1.aio, u |-> s1.u, spoilt |-> s1.spoilt]
               obj == DevObj(read)
               x == Sleeps(s1, c, read)
    <2>1. Leave(x)
      BY <1>4, <1>7
    <2>2. /\ x.k = UpdateOnSleep(WithObject(s1.k, c, obj))
          /\ x.io = s1.io /\ x.aio = s1.aio /\ x.u = s1.u /\ x.spoilt = s1.spoilt
      BY <1>11 DEF Sleeps, SysType, WithObject
    <2> HIDE DEF x
    <2>3. k' \in Return(UpdateOnSleep(WithObject(k, c, obj))) /\ Sys' = e
      BY <1>2, <1>11, <2>1, <2>2 DEF Leave, Sys
    <2>4. obj \in Object /\ obj = IF read THEN DevObj(TRUE) ELSE DevObj(FALSE)
      BY Objects
    <2> HIDE DEF obj
    <2>5. /\ Table(k') /\ k' \in Kernel
          /\ k'.active = k.active \ {c} /\ k'.unblock = k.unblock
          /\ k'.block = [k.block EXCEPT ![c] = obj]
      <3>1. k' \in Return(UpdateOnSleep(WithObject(k, c, obj))) /\ Table(k) /\ k.current = c
        BY <1>2, <1>3, <2>3
      <3>2. obj \in Object
        BY <2>4
      <3>3. Asleep(k, k', c, obj)
        BY <3>1, <3>2, SleepTable
      <3>4. QED
        BY <3>3 DEF Asleep
    <2>6. /\ k'.block[c] = obj
          /\ \A t \in Task \ {c} : k'.block[t] = k.block[t]
      BY <1>2, <2>5 DEF Kernel
    <2>7. e \in SysType
      BY <1>11, <2>5 DEF SysType
    <2>8. e.k = k' /\ e.io = s1.io /\ e.aio = s1.aio /\ e.u = s1.u /\ e.spoilt = s1.spoilt
      OBVIOUS
    <2> HIDE DEF e
    <2>9. \A t \in Task \ {c} : LeftAlone(Sys, pc, e, Q, t)
      <3> SUFFICES ASSUME NEW t \in Task \ {c} PROVE LeftAlone(Sys, pc, e, Q, t)
        OBVIOUS
      <3>1. LeftAlone(Sys, pc, s1, Q, t)
        BY <1>11
      <3>2. /\ t \in e.k.active <=> t \in Sys.k.active
            /\ e.k.block[t] = Sys.k.block[t] /\ e.k.unblock[t] = Sys.k.unblock[t]
        BY <1>2, <2>5, <2>6, <2>8
      <3>3. QED
        BY <2>8, <3>1, <3>2 DEF LeftAlone
    <2>10. OwnInv(e, Q, c)
      BY <1>11, <1>6, <1>7, <2>4, <2>5, <2>6, <2>8 DEF OwnInv
    <2>11. DriverInv(e) /\ Table(e.k) /\ Sys.spoilt \subseteq e.spoilt
      BY <1>11, <2>5, <2>8 DEF DriverInv
    <2>12. Good(e, Q)
      BY <1>1, <1>6, <2>7, <2>9, <2>10, <2>11, ThreadGood
    <2>13. RxInv(e) /\ CountInv(e, Q)
      BY <1>11, <2>8 DEF RxInv, CountInv
    <2>14. Inv(Sys', pc')
      BY <1>4, <2>3, <2>12, <2>13 DEF Inv
    <2>15. QED
      BY <2>14 DEF TransferInv
  <1>8. CASE d.ret # 0
    <2>1. InCall(c) \notin {Sys.u.rcb, Sys.u.wcb}
      BY <1>1, <1>3 DEF Good, CallsInv
    <2>2. \A t \in Task \ {c} : s1.io[t].read = Sys.io[t].read
      BY <1>11 DEF LeftAlone
    <2>3. Good(s1, Q)
      <3>1. Alike(Sys, s1) /\ c \in Sys.k.active
        BY <1>2, <1>3, <1>11, <1>8
      <3>2. QED
        BY <1>1, <1>6, <1>10, <2>1, <2>2, <3>1, MovesGood
    <2>4. Inv(s1, pc')
      BY <1>4, <1>11, <2>3 DEF Inv
    <2>5. QED
      BY <1>4, <1>8, <2>4, LeaveInv
  <1>9. QED
    BY <1>7, <1>8

\* The system e is s, but for the asynchronous transfer of thread c.
OwnAio(s, e, c) ==
    /\ e \in SysType /\ e.k = s.k /\ e.io = s.io /\ e.u = s.u /\ e.spoilt = s.spoilt
    /\ \A t \in Task \ {c} : e.aio[t] = s.aio[t]

\* aio_data_transfer() before it calls the driver, for a thread that runs ...
NewAio(s, c, n) == [s EXCEPT !.aio[c] = [NoAio EXCEPT !.busy = TRUE, !.nbyte = n],
                             !.k.block[c] = NULL]

LEMMA AioSetUp ==
    ASSUME NEW s \in SysType, NEW c \in Task, s.k.block[c] = NULL, NEW n \in Sizes
    PROVE  OwnAio(s, NewAio(s, c, n), c)
  <1> DEFINE r == [NoAio EXCEPT !.busy = TRUE, !.nbyte = n]
             x == [s.aio EXCEPT ![c] = r]
             b == [s.k.block EXCEPT ![c] = NULL]
             K == [s.k EXCEPT !.block = b]
             e == NewAio(s, c, n)
  <1>1. n \in Number /\ 0 \in Number
    BY TransferAssumption DEF Number
  <1>2. r \in AioType
    <2> DEFINE r1 == [NoAio EXCEPT !.busy = TRUE]
    <2>1. NoAio \in AioType
      BY <1>1 DEF NoAio, AioType
    <2>2. r1 \in AioType
      BY <2>1 DEF AioType
    <2>3. r = [r1 EXCEPT !.nbyte = n]
      BY Zenon
    <2> HIDE DEF r1, r
    <2>4. QED
      BY <1>1, <2>2, <2>3 DEF AioType
  <1>3. s.k \in Kernel /\ s.aio \in [Task -> AioType]
    BY DEF SysType
  <1>4. b = s.k.block
    BY <1>3 DEF Kernel
  <1>5. K = s.k
    <2> HIDE DEF b
    <2>1. QED
      BY <1>3, <1>4 DEF Kernel
  <1>6. e = [k |-> K, io |-> s.io, aio |-> x, u |-> s.u, spoilt |-> s.spoilt]
    <2> HIDE DEF r
    <2>1. e = [s EXCEPT !.aio[c] = r, !.k.block[c] = NULL]
      BY Zenon DEF NewAio, r
    <2> HIDE DEF e
    <2>2. QED
      BY <2>1 DEF SysType
  <1> HIDE DEF r, K, b, e
  <1>8. x \in [Task -> AioType] /\ \A t \in Task \ {c} : x[t] = s.aio[t]
    BY <1>2, <1>3
  <1> HIDE DEF x
  <1>9. e \in SysType /\ e.k = s.k /\ e.io = s.io /\ e.aio = x /\ e.u = s.u
        /\ e.spoilt = s.spoilt
    BY <1>5, <1>6, <1>8 DEF SysType
  <1>10. QED
    BY <1>8, <1>9 DEF OwnAio, e

\* ... after the driver has answered ...
WithAnswer(s, c, ret) == [s EXCEPT !.aio[c].failed = (ret < 0)]

LEMMA AioAnswer ==
    ASSUME NEW s \in SysType, NEW c \in Task, NEW ret \in Number
    PROVE  /\ OwnAio(s, WithAnswer(s, c, ret), c)
           /\ WithAnswer(s, c, ret).aio[c].failed <=> ret < 0
  <1> DEFINE f == ret < 0
             r == [s.aio[c] EXCEPT !.failed = f]
             x == [s.aio EXCEPT ![c] = r]
             e == WithAnswer(s, c, ret)
  <1>1. s.aio \in [Task -> AioType] /\ s.aio[c] \in AioType /\ f \in BOOLEAN
    BY DEF SysType
  <1>2. e = [s EXCEPT !.aio = x]
    BY <1>1 DEF WithAnswer
  <1> HIDE DEF f, e
  <1>3. r \in AioType /\ r.failed = f
    BY <1>1 DEF AioType
  <1> HIDE DEF r
  <1>4. x \in [Task -> AioType] /\ x[c] = r /\ \A t \in Task \ {c} : x[t] = s.aio[t]
    BY <1>1, <1>3
  <1> HIDE DEF x
  <1>5. e \in SysType /\ e.k = s.k /\ e.io = s.io /\ e.aio = x /\ e.u = s.u
        /\ e.spoilt = s.spoilt
    BY <1>2, <1>4 DEF SysType
  <1>6. OwnAio(s, e, c) /\ e.aio[c].failed = f
    BY <1>3, <1>4, <1>5 DEF OwnAio
  <1>7. QED
    BY <1>6 DEF e, f

\* ... and after its callback, which wakes nobody.
LEMMA AioOver ==
    ASSUME NEW s \in SysType, NEW c \in Task, c \in s.k.active
    PROVE  OwnAio(s, AioCallback(s, c), c) /\ ~AioCallback(s, c).aio[c].busy
  <1> DEFINE r == [s.aio[c] EXCEPT !.busy = FALSE]
             x == [s.aio EXCEPT ![c] = r]
             e == AioCallback(s, c)
  <1>1. s.aio \in [Task -> AioType] /\ s.aio[c] \in AioType
    BY DEF SysType
  <1>2. e = [s EXCEPT !.aio[c].busy = FALSE, !.k = @]
    BY DEF AioCallback
  <1> HIDE DEF e
  <1>3. e = [k |-> s.k, io |-> s.io, aio |-> x, u |-> s.u, spoilt |-> s.spoilt]
    BY <1>1, <1>2 DEF SysType
  <1>4. r \in AioType /\ ~r.busy
    BY <1>1 DEF AioType
  <1> HIDE DEF r
  <1>5. x \in [Task -> AioType] /\ x[c] = r /\ \A t \in Task \ {c} : x[t] = s.aio[t]
    BY <1>1, <1>4
  <1> HIDE DEF x
  <1>6. e \in SysType /\ e.k = s.k /\ e.io = s.io /\ e.aio = x /\ e.u = s.u
        /\ e.spoilt = s.spoilt
    BY <1>3, <1>5 DEF SysType
  <1>7. QED
    BY <1>4, <1>5, <1>6 DEF OwnAio, e

\* What the driver and aio_data_transfer() have done for thread c.
AioBegun(s, x, c) ==
    /\ x \in SysType /\ x.k = s.k /\ x.spoilt = s.spoilt /\ RxInv(x) /\ DriverInv(x)
    /\ \A t \in Task : /\ x.io[t] = s.io[t]
                       /\ x.u.rcb = InCall(t) <=> s.u.rcb = InCall(t)
                       /\ x.u.wcb = InCall(t) <=> s.u.wcb = InCall(t)
                       /\ s.u.rcb = InCall(t) => x.u.rxlen = s.u.rxlen
    /\ \A t \in Task \ {c} : /\ x.aio[t].busy = s.aio[t].busy
                             /\ x.aio[t].failed = s.aio[t].failed
                             /\ x.u.rcb = InAio(t) <=> s.u.rcb = InAio(t)
                             /\ x.u.wcb = InAio(t) <=> s.u.wcb = InAio(t)
    /\ x.aio[c].busy /\ ~x.aio[c].failed => InAio(c) \in {x.u.rcb, x.u.wcb}

LEMMA AioStarts ==
    ASSUME NEW s, NEW P, Good(s, P), RxInv(s), NEW c \in Task, c \in s.k.active,
           NEW read \in BOOLEAN, NEW n \in Sizes
    PROVE  LET d  == DevStart(NewAio(s, c, n), InAio(c), read, n, FALSE)
               s1 == WithAnswer(d.s, c, d.ret)
           IN  AioBegun(s, IF d.ret > 0 THEN AioCallback(s1, c) ELSE s1, c)
  <1> DEFINE s0 == NewAio(s, c, n)
             d  == DevStart(s0, InAio(c), read, n, FALSE)
             s1 == WithAnswer(d.s, c, d.ret)
             x  == IF d.ret > 0 THEN AioCallback(s1, c) ELSE s1
  <1>1. s \in SysType /\ DriverInv(s) /\ s.k.block[c] = NULL
    BY DEF Good, SleepInv
  <1>2. OwnAio(s, s0, c)
    BY <1>1, AioSetUp
  <1> HIDE DEF s0
  <1>3. /\ s0 \in SysType /\ s0.k = s.k /\ s0.io = s.io /\ s0.u = s.u
        /\ s0.spoilt = s.spoilt
        /\ \A t \in Task \ {c} : s0.aio[t] = s.aio[t]
    BY <1>2 DEF OwnAio
  <1>4. Started(s0, d, InAio(c), read, n)
    <2>1. DriverInv(s0) /\ InAio(c) \in Ctx /\ FALSE \in BOOLEAN
      BY <1>1, <1>3, Contexts DEF DriverInv
    <2>2. QED
      BY <1>3, <2>1, DevStarts
  <1> HIDE DEF d
  <1>5. d.ret \in Number /\ d.s \in SysType /\ d.s.k = s.k /\ d.s.spoilt = s.spoilt
    BY <1>3, <1>4 DEF Started
  <1>6. OwnAio(d.s, s1, c) /\ (s1.aio[c].failed <=> d.ret < 0)
    BY <1>5, AioAnswer
  <1> HIDE DEF s1
  <1>7. s1 \in SysType /\ s1.k = s.k
    BY <1>5, <1>6 DEF OwnAio
  <1>8. d.ret > 0 => OwnAio(s1, x, c) /\ ~x.aio[c].busy
    BY <1>7, AioOver
  <1>9. ~(d.ret > 0) => x = s1
    OBVIOUS
  <1> HIDE DEF x
  <1>10. OwnAio(d.s, x, c) /\ (d.ret # 0 => ~x.aio[c].busy \/ x.aio[c].failed)
    <2>1. CASE d.ret > 0
      <3>1. OwnAio(d.s, s1, c) /\ OwnAio(s1, x, c) /\ ~x.aio[c].busy
        BY <1>6, <1>8, <2>1
      <3>2. QED
        BY <3>1 DEF OwnAio
    <2>2. CASE ~(d.ret > 0)
      <3>1. x = s1 /\ (d.ret # 0 => d.ret < 0)
        BY <1>5, <1>9, <2>2 DEF Number
      <3>2. QED
        BY <1>6, <3>1
    <2>3. QED
      BY <2>1, <2>2
  <1>11. /\ x \in SysType /\ x.k = s.k /\ x.spoilt = s.spoilt /\ x.u = d.s.u
         /\ \A t \in Task : x.io[t] = s.io[t]
         /\ \A t \in Task \ {c} : /\ x.aio[t].busy = s.aio[t].busy
                                  /\ x.aio[t].failed = s.aio[t].failed
    <2>1. \A t \in Task : d.s.io[t] = s0.io[t]
      BY <1>4, Contexts DEF Started
    <2>2. \A t \in Task : /\ d.s.aio[t].busy = s0.aio[t].busy
                          /\ d.s.aio[t].failed = s0.aio[t].failed
      BY <1>4 DEF Started
    <2>3. /\ x \in SysType /\ x.k = d.s.k /\ x.io = d.s.io /\ x.u = d.s.u
          /\ x.spoilt = d.s.spoilt
          /\ \A t \in Task \ {c} : x.aio[t] = d.s.aio[t]
      BY <1>10 DEF OwnAio
    <2>4. QED
      BY <1>3, <1>5, <2>1, <2>2, <2>3
  <1>12. /\ x.u.rcb = (IF d.ret = 0 /\ read THEN InAio(c) ELSE s.u.rcb)
         /\ x.u.rbrie <=> (s.u.rbrie \/ (d.ret = 0 /\ read))
         /\ x.u.wcb = (IF d.ret = 0 /\ ~read THEN InAio(c) ELSE s.u.wcb)
         /\ x.u.etbei <=> (s.u.etbei \/ (d.ret = 0 /\ ~read))
         /\ d.ret = 0 /\ read => ~s.u.rbrie /\ x.u.rxbuf = InAio(c)
         /\ d.ret = 0 /\ ~read => ~s.u.etbei
         /\ s.u.rbrie \/ ~read => x.u.rxbuf = s.u.rxbuf /\ x.u.rxlen = s.u.rxlen
    <2>1. x.u = d.s.u /\ s0.u = s.u
      BY <1>3, <1>11
    <2>2. QED
      BY <1>4, <2>1 DEF Started
  <1>13. (s.u.rcb # None <=> s.u.rbrie) /\ (s.u.wcb # None <=> s.u.etbei)
    BY <1>1 DEF DriverInv
  <1>14. /\ InAio(c) # None
         /\ \A t \in Task : InAio(c) # InCall(t) /\ None # InCall(t) /\ None # InAio(t)
         /\ \A t \in Task \ {c} : InAio(c) # InAio(t)
    BY Contexts
  <1>15. DriverInv(x)
    BY <1>12, <1>13, <1>14 DEF DriverInv
  <1>16. RxInv(x)
    BY <1>12 DEF RxInv
  <1>17. \A t \in Task : /\ x.u.rcb = InCall(t) <=> s.u.rcb = InCall(t)
                         /\ x.u.wcb = InCall(t) <=> s.u.wcb = InCall(t)
                         /\ s.u.rcb = InCall(t) => x.u.rxlen = s.u.rxlen
    BY <1>12, <1>13, <1>14
  <1>18. \A t \in Task \ {c} : /\ x.u.rcb = InAio(t) <=> s.u.rcb = InAio(t)
                               /\ x.u.wcb = InAio(t) <=> s.u.wcb = InAio(t)
    BY <1>12, <1>13, <1>14
  <1>19. x.aio[c].busy /\ ~x.aio[c].failed => InAio(c) \in {x.u.rcb, x.u.wcb}
    BY <1>10, <1>12
  <1>20. AioBegun(s, x, c)
    BY <1>11, <1>15, <1>16, <1>17, <1>18, <1>19 DEF AioBegun
  <1>21. QED
    BY <1>20 DEF x, s1, d, s0

LEMMA AioStartStep ==
    ASSUME TransferInv, NEW c \in Task, NEW read \in BOOLEAN, NEW n \in Sizes,
           NEW next \in {"run", "listio"}, AioStart(c, read, n, next)
    PROVE  TransferInv'
  <1> DEFINE d  == DevStart(NewAio(Sys, c, n), InAio(c), read, n, FALSE)
             s1 == WithAnswer(d.s, c, d.ret)
             x  == IF d.ret > 0 THEN AioCallback(s1, c) ELSE s1
             Q  == [pc EXCEPT ![c] = next]
  <1>1. Good(Sys, pc) /\ RxInv(Sys) /\ CountInv(Sys, pc)
    BY DEF TransferInv, Inv
  <1>2. Sys.k = k /\ pc \in [Task -> PC]
    BY <1>1, SysFields
  <1>3. k.current = c /\ pc[c] = "run" /\ c \in k.active
    BY <1>1, RunningThread DEF AioStart, At
  <1>4. Leave(x) /\ pc' = Q
    BY Zenon DEF AioStart, Goto, NewAio, WithAnswer, InAio
  <1>5. AioBegun(Sys, x, c)
    <2>1. c \in Sys.k.active
      BY <1>2, <1>3
    <2>2. QED
      BY <1>1, <2>1, AioStarts
  <1> HIDE DEF d, s1, x
  <1>6. Q \in [Task -> PC] /\ Q[c] = next /\ \A t \in Task \ {c} : Q[t] = pc[t]
    BY <1>2 DEF PC
  <1> HIDE DEF Q
  <1>7. Good(x, Q)
    <2>1. \A t \in Task \ {c} : LeftAlone(Sys, pc, x, Q, t)
      BY <1>5, <1>6 DEF AioBegun, LeftAlone
    <2>2. OwnInv(x, Q, c)
      <3>1. c \in Sys.k.active /\ Sys.k.block[c] = NULL
            /\ InCall(c) \notin {Sys.u.rcb, Sys.u.wcb}
        BY <1>1, <1>2, <1>3 DEF Good, SleepInv, CallsInv
      <3>2. c \in x.k.active /\ x.k.block[c] = NULL
            /\ InCall(c) \notin {x.u.rcb, x.u.wcb}
            /\ (x.aio[c].busy /\ ~x.aio[c].failed => InAio(c) \in {x.u.rcb, x.u.wcb})
        BY <1>5, <3>1 DEF AioBegun
      <3>3. QED
        BY <3>2 DEF OwnInv
    <2>3. x \in SysType /\ Table(x.k) /\ DriverInv(x) /\ Sys.spoilt \subseteq x.spoilt
      BY <1>1, <1>5 DEF AioBegun, Good
    <2>4. QED
      BY <1>1, <1>6, <2>1, <2>2, <2>3, ThreadGood
  <1>8. CountInv(x, Q)
    <2>1. \A t \in Task \ {c} : CountsLeft(Sys, pc, x, Q, t)
      BY <1>5, <1>6 DEF AioBegun, CountsLeft
    <2>2. OwnCount(x, Q, c)
      BY <1>6 DEF OwnCount
    <2>3. Sys.spoilt \subseteq x.spoilt
      BY <1>5 DEF AioBegun
    <2>4. QED
      BY <1>1, <2>1, <2>2, <2>3, MovesCount
  <1>9. RxInv(x)
    BY <1>5 DEF AioBegun
  <1>10. Inv(x, pc')
    BY <1>4, <1>7, <1>8, <1>9 DEF Inv
  <1>11. QED
    BY <1>4, <1>10, LeaveInv

\* hwpl_uart_setaction() without a callback makes both callbacks.
BothCalled(s) ==
    LET s1 == IF s.u.rbrie THEN ReadCallback(s) ELSE s
    IN  IF s1.u.etbei THEN WriteCallback(s1, TRUE) ELSE s1

\* The driver of s2 has no transfer; nothing else is changed by the callbacks
\* but the threads that they wake.
Silent(s, P, s2) ==
    /\ Good(s2, P) /\ s2.u.rcb = None /\ s2.u.wcb = None
    /\ ~s2.u.rbrie /\ ~s2.u.etbei
    /\ s2.spoilt = s.spoilt /\ s2.k.current = s.k.current
    /\ \A t \in Task : s.u.wcb # InCall(t) => s2.io[t] = s.io[t]

LEMMA BothCancelled ==
    ASSUME NEW s, NEW P, Good(s, P)
    PROVE  Silent(s, P, BothCalled(s))
  <1> DEFINE s1 == IF s.u.rbrie THEN ReadCallback(s) ELSE s
             s2 == BothCalled(s)
  <1>0. s2 = IF s1.u.etbei THEN WriteCallback(s1, TRUE) ELSE s1
    BY DEF BothCalled
  <1> HIDE DEF s2
  <1>1. /\ Good(s1, P) /\ s1.u.rcb = None /\ ~s1.u.rbrie
        /\ s1.u.wcb = s.u.wcb /\ s1.spoilt = s.spoilt /\ s1.k.current = s.k.current
        /\ \A t \in Task : s1.io[t] = s.io[t]
    <2>1. CASE s.u.rbrie
      <3>1. s1 = ReadCallback(s)
        BY <2>1
      <3>2. Good(s1, P) /\ Ended(s, s1, TRUE, FALSE)
        BY <3>1, ReadCallbackGood
      <3>3. QED
        BY <3>2 DEF Ended
    <2>2. CASE ~s.u.rbrie
      <3>1. s1 = s /\ s.u.rcb = None
        BY <2>2 DEF Good, DriverInv
      <3>2. QED
        BY <2>2, <3>1
    <2>3. QED
      BY <2>1, <2>2
  <1> HIDE DEF s1
  <1>2. CASE s1.u.etbei
    <2>1. s2 = WriteCallback(s1, TRUE)
      BY <1>0, <1>2
    <2>2. Good(s2, P) /\ Ended(s1, s2, FALSE, TRUE)
      BY <1>1, <2>1, WriteCallbackGood
    <2>3. /\ s2.u.rcb = s1.u.rcb /\ s2.u.wcb = None /\ ~s2.u.etbei
          /\ (s2.u.rbrie <=> s1.u.rbrie)
          /\ s2.spoilt = s1.spoilt /\ s2.k.current = s1.k.current
          /\ \A t \in Task : s1.u.wcb # InCall(t) => s2.io[t] = s1.io[t]
      BY <1>1, <2>2 DEF Ended
    <2>4. QED
      BY <1>1, <2>2, <2>3 DEF Silent, s2
  <1>3. CASE ~s1.u.etbei
    <2>1. s2 = s1 /\ s1.u.wcb = None
      BY <1>0, <1>1, <1>3 DEF Good, DriverInv
    <2>2. QED
      BY <1>1, <1>3, <2>1 DEF Silent, s2
  <1>4. QED
    BY <1>2, <1>3 DEF s2

\* unistd_clr_action() leaves no transfer, whoever has started it.
AllCancelled(s, x, c) ==
    LET others == {s.u.rcb, s.u.wcb} \ {None, InCall(c)}
    IN  /\ Alike(BothCalled(s), x) /\ (\A t \in Task \ {c} : x.io[t] = BothCalled(s).io[t])
        /\ x.spoilt = IF others = {} THEN s.spoilt ELSE s.spoilt \cup {"cancelled"}

LEMMA CancelLeaves ==
    ASSUME NEW s, NEW P, Good(s, P), NEW c \in Task
    PROVE  AllCancelled(s, [CancelAll(s, c) EXCEPT !.io[c] = NoIo], c)
  <1> DEFINE others == {s.u.rcb, s.u.wcb} \ {None, InCall(c)}
             s2 == BothCalled(s)
             z  == CancelAll(s, c)
             x  == [z EXCEPT !.io[c] = NoIo]
             m  == IF others = {} THEN s2.spoilt ELSE s2.spoilt \cup {"cancelled"}
             y  == [s2.u EXCEPT !.rcb = None, !.wcb = None]
             w  == [s2.io EXCEPT ![c] = NoIo]
  <1>1. /\ Good(s2, P) /\ s2.u.rcb = None /\ s2.u.wcb = None
        /\ s2.spoilt = s.spoilt
    BY BothCancelled DEF Silent
  <1>2. z = [s2 EXCEPT !.u.rcb = None, !.u.wcb = None,
                       !.spoilt = IF others = {} THEN @ ELSE @ \cup {"cancelled"}]
    BY Zenon DEF CancelAll, BothCalled, InCall
  <1> HIDE DEF s2, z, others
  <1>3. s2 \in SysType /\ s2.u \in UType /\ s2.io \in [Task -> IoType]
        /\ s2.spoilt \in SUBSET Mishaps
    BY <1>1 DEF Good, SysType
  <1>4. y = s2.u
    BY <1>1, <1>3 DEF UType
  <1>5. z = [k |-> s2.k, io |-> s2.io, aio |-> s2.aio, u |-> y, spoilt |-> m]
    BY <1>2, <1>3 DEF SysType
  <1>6. m \in SUBSET Mishaps /\ s2.spoilt \subseteq m
    BY <1>3 DEF Mishaps
  <1>7. NoIo \in IoType
    BY DEF NoIo, IoType, Number
  <1>8. w \in [Task -> IoType] /\ \A t \in Task \ {c} : w[t] = s2.io[t]
    BY <1>3, <1>7
  <1>9. x = [k |-> s2.k, io |-> w, aio |-> s2.aio, u |-> s2.u, spoilt |-> m]
    <2> HIDE DEF y, m
    <2>1. QED
      BY <1>4, <1>5
  <1>10. m = IF others = {} THEN s.spoilt ELSE s.spoilt \cup {"cancelled"}
    BY <1>1
  <1> HIDE DEF x, w, m, y
  <1>11. /\ x \in SysType /\ x.k = s2.k /\ x.io = w /\ x.aio = s2.aio /\ x.u = s2.u
         /\ x.spoilt = m
    BY <1>3, <1>6, <1>8, <1>9 DEF SysType
  <1>12. Alike(s2, x)
    BY <1>6, <1>11 DEF Alike
  <1>13. /\ \A t \in Task \ {c} : x.io[t] = s2.io[t]
         /\ x.spoilt = IF others = {} THEN s.spoilt ELSE s.spoilt \cup {"cancelled"}
    BY <1>8, <1>10, <1>11
  <1>14. QED
    BY <1>12, <1>13, Zenon DEF AllCancelled, x, z, s2, others

LEMMA CancelStep ==
    ASSUME TransferInv, NEW c \in Task, Cancel(c)
    PROVE  TransferInv'
  <1> DEFINE x  == [CancelAll(Sys, c) EXCEPT !.io[c] = NoIo]
             s2 == BothCalled(Sys)
             others == {Sys.u.rcb, Sys.u.wcb} \ {None, InCall(c)}
             Q  == [pc EXCEPT ![c] = "run"]
  <1>1. Good(Sys, pc) /\ RxInv(Sys) /\ CountInv(Sys, pc)
    BY DEF TransferInv, Inv
  <1>2. Sys.k = k /\ pc \in [Task -> PC]
    BY <1>1, SysFields
  <1>3. k.current = c
    BY DEF Cancel, At
  <1>4. Leave(x) /\ pc' = Q
    BY DEF Cancel, Goto
  <1>5. AllCancelled(Sys, x, c)
    BY <1>1, CancelLeaves
  <1>6. /\ Alike(s2, x) /\ (\A t \in Task \ {c} : x.io[t] = s2.io[t])
        /\ x.spoilt = IF others = {} THEN Sys.spoilt ELSE Sys.spoilt \cup {"cancelled"}
    BY <1>5, Zenon DEF AllCancelled
  <1>7. /\ Good(s2, pc) /\ s2.u.rcb = None /\ s2.u.wcb = None
        /\ ~s2.u.rbrie /\ ~s2.u.etbei
        /\ s2.spoilt = Sys.spoilt /\ s2.k.current = Sys.k.current
        /\ \A t \in Task : Sys.u.wcb # InCall(t) => s2.io[t] = Sys.io[t]
    <2>1. Silent(Sys, pc, s2)
      BY <1>1, BothCancelled
    <2> HIDE DEF s2
    <2>2. QED
      BY <2>1 DEF Silent
  <1> HIDE DEF x, s2
  <1>8. Q[c] = "run" /\ "run" \in PC /\ \A t \in Task \ {c} : Q[t] = pc[t]
    BY <1>2 DEF PC
  <1>9. c \in s2.k.active
    <2>1. Runs(s2.k) /\ s2.k.current = c /\ c # 0
      BY <1>2, <1>3, <1>7, TableAssumption DEF Good, Table, Task
    <2>2. QED
      BY <2>1 DEF Runs
  <1>10. Good(x, Q)
    <2>1. InCall(c) \notin {s2.u.rcb, s2.u.wcb}
      BY <1>7, Contexts
    <2>2. \A t \in Task \ {c} : x.io[t].read = s2.io[t].read
      BY <1>6
    <2>3. Alike(s2, x)
      BY <1>6
    <2>4. QED
      BY <1>7, <1>8, <1>9, <2>1, <2>2, <2>3, MovesGood
  <1> HIDE DEF Q
  <1>11. ~x.u.rbrie /\ x.u.rcb = None
    BY <1>6, <1>7 DEF Alike
  <1>12. CountInv(x, Q)
    <2>1. CASE others = {}
      <3>1. \A t \in Task \ {c} : Sys.u.rcb # InCall(t) /\ Sys.u.wcb # InCall(t)
        BY <2>1, Contexts
      <3>2. \A t \in Task \ {c} : x.u.rcb # InCall(t) /\ x.io[t] = Sys.io[t]
        BY <1>6, <1>7, <1>11, <3>1, Contexts
      <3>3. \A t \in Task \ {c} : CountsLeft(Sys, pc, x, Q, t)
        BY <1>8, <3>1, <3>2 DEF CountsLeft
      <3>4. OwnCount(x, Q, c) /\ Sys.spoilt \subseteq x.spoilt
        BY <1>6, <1>8, <2>1 DEF OwnCount
      <3>5. QED
        BY <1>1, <3>3, <3>4, MovesCount
    <2>2. CASE others # {}
      <3>1. "cancelled" \in x.spoilt
        BY <1>6, <2>2
      <3>2. QED
        BY <3>1 DEF CountInv
    <2>3. QED
      BY <2>1, <2>2
  <1>13. Inv(x, pc')
    BY <1>4, <1>10, <1>11, <1>12 DEF Inv, RxInv
  <1>14. QED
    BY <1>4, <1>13, LeaveInv

\* _hwpl_uart_isr() stores what has come in the buffer whose callback it is about
\* to make - or in that of a transfer that is over, and then the count is off.
Fills(s, e, m) ==
    /\ Alike(s, e) /\ \A t \in Task : e.io[t].read = s.io[t].read /\ e.io[t].ret = s.io[t].ret
    /\ \A t \in Task :
          IF s.u.rxbuf = InCall(t)
          THEN /\ e.io[t].got = s.io[t].got + m
               /\ e.io[t].nbyte = s.io[t].nbyte - (s.u.rxlen - m)
          ELSE e.io[t] = s.io[t]
    /\ s.u.rxbuf # None /\ m > 0 /\ s.u.rcb # s.u.rxbuf => "stray" \in e.spoilt

LEMMA IsrReadFills ==
    ASSUME Good(Sys, pc), NEW m \in Nat, m <= u.rxlen, m <= u.fifo
    PROVE  Fills(Sys, IsrRead(m), m)
  <1> DEFINE l == u.rxlen - m
             f == u.fifo - m
             z == Store(Sys, u.rxbuf, m, l)
             e == IsrRead(m)
             q == IF m > 0 /\ u.rcb # u.rxbuf THEN spoilt \cup {"stray"} ELSE spoilt
             y == [u EXCEPT !.rxbuf = None, !.fifo = f, !.rxlen = l]
  <1>1. /\ Sys \in SysType /\ u \in UType /\ io \in [Task -> IoType]
        /\ spoilt \in SUBSET Mishaps
        /\ Sys.k = k /\ Sys.io = io /\ Sys.aio = aio /\ Sys.u = u /\ Sys.spoilt = spoilt
    BY SysFields
  <1>2. m \in Number /\ l \in Nat /\ f \in Nat /\ l \in Number
    BY <1>1 DEF UType, Number
  <1>3. CASE u.rxbuf = None
    <2>1. e = Sys
      BY <1>3 DEF IsrRead
    <2>2. \A t \in Task : u.rxbuf # InCall(t)
      BY <1>3, Contexts
    <2>3. QED
      BY <1>1, <1>3, <2>1, <2>2 DEF Fills, Alike
  <1>4. CASE u.rxbuf # None
    <2>1. u.rxbuf \in Ctx
      BY <1>1 DEF UType
    <2>2. /\ z \in SysType /\ z.k = k /\ z.u = u /\ z.spoilt = spoilt
          /\ \A t \in Task :
                /\ z.aio[t].busy = aio[t].busy /\ z.aio[t].failed = aio[t].failed
                /\ z.io[t].read = io[t].read /\ z.io[t].ret = io[t].ret
                /\ u.rxbuf # InCall(t) => z.io[t] = io[t]
                /\ u.rxbuf = InCall(t) => /\ z.io[t].got = io[t].got + m
                                          /\ z.io[t].nbyte = io[t].nbyte - l
      <3> HIDE DEF l
      <3>1. QED
        BY <1>1, <1>2, <2>1, StoreType
    <2>3. e = [z EXCEPT !.u.rxbuf = None, !.u.fifo = @ - m, !.u.rxlen = @ - m,
                        !.spoilt = IF m > 0 /\ u.rcb # u.rxbuf THEN @ \cup {"stray"} ELSE @]
      BY <1>4, Zenon DEF IsrRead
    <2> HIDE DEF z, e
    <2>4. e = [k |-> z.k, io |-> z.io, aio |-> z.aio, u |-> y, spoilt |-> q]
      BY <2>2, <2>3 DEF SysType
    <2> HIDE DEF l, f
    <2>5. /\ y \in UType /\ y.rcb = u.rcb /\ y.wcb = u.wcb /\ y.rbrie = u.rbrie
          /\ y.etbei = u.etbei
      BY <1>1, <1>2, Contexts DEF UType
    <2>6. /\ q \in SUBSET Mishaps /\ spoilt \subseteq q
          /\ m > 0 /\ u.rcb # u.rxbuf => "stray" \in q
      BY <1>1 DEF Mishaps
    <2> HIDE DEF y, q
    <2>7. /\ e \in SysType /\ e.k = k /\ e.io = z.io /\ e.aio = z.aio /\ e.u = y
          /\ e.spoilt = q
      BY <2>2, <2>4, <2>5, <2>6 DEF SysType
    <2>8. Alike(Sys, e)
      BY <1>1, <2>2, <2>5, <2>6, <2>7 DEF Alike
    <2>9. Fills(Sys, e, m)
      BY <1>1, <2>2, <2>6, <2>7, <2>8 DEF Fills, l
    <2>10. QED
      BY <2>9 DEF e
  <1>5. QED
    BY <1>3, <1>4

\* The reader is called back with the number of bytes that it has got.
LEMMA ReadInterrupt ==
    ASSUME NEW s, NEW P, Inv(s, P), NEW m \in Nat, s.u.rxlen \in Nat,
           m = s.u.rxlen \/ m > 0, NEW e, Fills(s, e, m)
    PROVE  Inv(ReadCallback(e), P)
  <1> DEFINE x == ReadCallback(e)
  <1>1. Good(s, P) /\ RxInv(s) /\ CountInv(s, P) /\ s \in SysType
    BY DEF Inv, Good
  <1>2. Alike(s, e) /\ \A t \in Task : e.io[t].read = s.io[t].read
    BY DEF Fills
  <1>3. Good(e, P)
    BY <1>1, <1>2, AlikeGood
  <1>4. Good(x, P) /\ Ended(e, x, TRUE, FALSE)
    BY <1>3, ReadCallbackGood
  <1> HIDE DEF x
  <1>5. /\ x.u.rcb = None /\ ~x.u.rbrie /\ x.spoilt = e.spoilt
        /\ \A t \in Task : x.io[t] = e.io[t]
    BY <1>4 DEF Ended
  <1>6. RxInv(x)
    BY <1>5 DEF RxInv
  <1>7. CountInv(x, P)
    <2> SUFFICES ASSUME {"stray", "cancelled"} \cap x.spoilt = {}, NEW t \in Task
                 PROVE  OwnCount(x, P, t)
      BY DEF CountInv, OwnCount
    <2>1. {"stray", "cancelled"} \cap s.spoilt = {} /\ "stray" \notin e.spoilt
      BY <1>2, <1>5 DEF Alike
    <2>2. OwnCount(s, P, t)
      BY <1>1, <2>1 DEF CountInv, OwnCount
    <2>3. /\ s.io[t].got \in Int /\ s.io[t].nbyte \in Int
      BY <1>1 DEF SysType, IoType, Number
    <2>4. x.u.rcb # InCall(t)
      BY <1>5, Contexts
    <2>5. CASE s.u.rcb = InCall(t)
      <3>1. s.u.rxbuf = InCall(t)
        <4>1. s.u.rcb # None
          BY <2>5, Contexts
        <4>2. QED
          BY <1>1, <2>5, <4>1 DEF Good, DriverInv, RxInv
      <3>2. /\ x.io[t].got = s.io[t].got + m
            /\ x.io[t].nbyte = s.io[t].nbyte - (s.u.rxlen - m)
            /\ x.io[t].read = s.io[t].read /\ x.io[t].ret = s.io[t].ret
        BY <1>5, <3>1 DEF Fills
      <3>3. ASSUME P[t] = "check", x.io[t].read
            PROVE  Returned(x.io[t]) = x.io[t].got
        <4>1. s.io[t].ret = 0 /\ s.io[t].got = 0 /\ s.io[t].nbyte = s.u.rxlen
          BY <2>2, <2>5, <3>2, <3>3 DEF OwnCount
        <4>2. x.io[t].got = m /\ x.io[t].nbyte = m /\ x.io[t].ret = 0
          BY <3>2, <4>1
        <4>3. QED
          BY <4>2 DEF Returned
      <3>4. QED
        BY <2>4, <3>3 DEF OwnCount
    <2>6. CASE s.u.rcb # InCall(t)
      <3>1. CASE s.u.rxbuf # InCall(t)
        <4>1. x.io[t] = s.io[t]
          BY <1>5, <3>1 DEF Fills
        <4>2. QED
          BY <2>2, <2>4, <2>6, <4>1 DEF OwnCount
      <3>2. CASE s.u.rxbuf = InCall(t)
        <4>1. s.u.rxbuf # None /\ s.u.rcb # s.u.rxbuf
          BY <2>6, <3>2, Contexts
        <4>2. m = 0 /\ s.u.rxlen = 0
          BY <2>1, <4>1 DEF Fills
        <4>3. /\ x.io[t].got = s.io[t].got + m
              /\ x.io[t].nbyte = s.io[t].nbyte - (s.u.rxlen - m)
              /\ x.io[t].read = s.io[t].read /\ x.io[t].ret = s.io[t].ret
          BY <1>5, <3>2 DEF Fills
        <4>4. x.io[t].got = s.io[t].got /\ x.io[t].nbyte = s.io[t].nbyte
          BY <2>3, <4>2, <4>3
        <4>5. Returned(x.io[t]) = Returned(s.io[t])
          BY <4>3, <4>4 DEF Returned
        <4>6. QED
          BY <2>2, <2>4, <2>6, <4>3, <4>4, <4>5 DEF OwnCount
      <3>3. QED
        BY <3>1, <3>2
    <2>7. QED
      BY <2>5, <2>6
  <1>8. QED
    BY <1>4, <1>6, <1>7 DEF Inv, x

\* The writer is called back when all is sent; or the next bytes are.
LEMMA WriteInterrupt ==
    ASSUME NEW s, NEW P, Inv(s, P)
    PROVE  Inv(IsrWrite(s), P)
  <1>1. Good(s, P) /\ RxInv(s) /\ CountInv(s, P) /\ s \in SysType /\ s.u \in UType
    BY DEF Inv, Good, SysType
  <1>2. CASE TxDone
    <2> DEFINE x == WriteCallback(s, FALSE)
    <2>1. IsrWrite(s) = x
      BY <1>2 DEF IsrWrite
    <2>2. Good(x, P) /\ Ended(s, x, FALSE, FALSE)
      BY <1>1, WriteCallbackGood
    <2> HIDE DEF x
    <2>3. /\ x.u.rcb = s.u.rcb /\ (x.u.rbrie <=> s.u.rbrie) /\ x.u.rxbuf = s.u.rxbuf
          /\ x.u.rxlen = s.u.rxlen /\ x.spoilt = s.spoilt
          /\ \A t \in Task : x.io[t] = s.io[t]
      BY <1>1, <2>2 DEF Ended, UType
    <2>4. RxInv(x) /\ CountInv(x, P)
      BY <1>1, <2>3 DEF RxInv, CountInv
    <2>5. QED
      BY <2>1, <2>2, <2>4 DEF Inv
  <1>3. CASE ~TxDone
    <2> DEFINE l == s.u.txlen - Smaller(s.u.txlen, TxFifo)
               y == [s.u EXCEPT !.txlen = l]
               x == [s EXCEPT !.u = y]
    <2>1. IsrWrite(s) = x
      BY <1>1, <1>3 DEF IsrWrite, SysType
    <2>2. l \in Number
      BY <1>1, TransferAssumption DEF UType, Number, Smaller
    <2> HIDE DEF l
    <2>3. /\ y \in UType /\ y.rcb = s.u.rcb /\ y.wcb = s.u.wcb /\ y.rbrie = s.u.rbrie
          /\ y.etbei = s.u.etbei /\ y.rxbuf = s.u.rxbuf /\ y.rxlen = s.u.rxlen
      BY <1>1, <2>2 DEF UType
    <2> HIDE DEF y
    <2>4. /\ x \in SysType /\ x.k = s.k /\ x.io = s.io /\ x.aio = s.aio /\ x.u = y
          /\ x.spoilt = s.spoilt
      BY <1>1, <2>3 DEF SysType
    <2> HIDE DEF x
    <2>5. Alike(s, x)
      BY <2>3, <2>4 DEF Alike
    <2>6. Good(x, P)
      BY <1>1, <2>4, <2>5, AlikeGood
    <2>7. RxInv(x) /\ CountInv(x, P)
      BY <1>1, <2>3, <2>4 DEF RxInv, CountInv
    <2>8. QED
      BY <2>1, <2>6, <2>7 DEF Inv
  <1>4. QED
    BY <1>2, <1>3

LEMMA IsrStep ==
    ASSUME TransferInv, NEW thre \in BOOLEAN, Isr(thre)
    PROVE  TransferInv'
  <1> DEFINE m  == Smaller(u.rxlen, u.fifo)
             s1 == IsrRead(m)
             s2 == IF u.fifo = 0 THEN Sys ELSE ReadCallback(s1)
             x  == IF thre /\ u.etbei THEN IsrWrite(s2) ELSE s2
  <1>1. Good(Sys, pc) /\ Inv(Sys, pc)
    BY DEF TransferInv, Inv
  <1>2. u \in UType /\ Sys.u = u
    BY <1>1, SysFields
  <1>3. Leave(x) /\ pc' = pc
    BY DEF Isr
  <1>4. /\ m \in Nat /\ m <= u.rxlen /\ m <= u.fifo /\ u.rxlen \in Nat
        /\ u.fifo = 0 \/ m = u.rxlen \/ m > 0
    BY <1>2 DEF UType, Smaller
  <1> HIDE DEF m
  <1>5. Fills(Sys, s1, m)
    BY <1>1, <1>4, IsrReadFills
  <1> HIDE DEF s1
  <1>6. Inv(s2, pc)
    <2>1. CASE u.fifo = 0
      BY <1>1, <2>1
    <2>2. CASE u.fifo # 0
      <3>1. Sys.u.rxlen \in Nat /\ (m = Sys.u.rxlen \/ m > 0)
        BY <1>2, <1>4, <2>2
      <3>2. Inv(ReadCallback(s1), pc)
        BY <1>1, <1>4, <1>5, <3>1, ReadInterrupt
      <3>3. QED
        BY <2>2, <3>2
    <2>3. QED
      BY <2>1, <2>2
  <1> HIDE DEF s2
  <1>7. Inv(IsrWrite(s2), pc)
    BY <1>6, WriteInterrupt
  <1>8. Inv(x, pc')
    BY <1>3, <1>6, <1>7
  <1>9. QED
    BY <1>3, <1>8, LeaveInv

-----------------------------------------------------------------------------
LEMMA TransferStart ==
    ASSUME Init
    PROVE  TransferInv
  <1>1. BasePriority \in [Task -> Priority]
    BY TransferAssumption
  <1>2. Max({BasePriority[t] : t \in Task}) = TopOf(BasePriority)
    BY <1>1, MaxOfBase
  <1>3. k = [used |-> Task, exec |-> {t \in Task : BasePriority[t] = TopOf(BasePriority)},
             fifo |-> {}, inuse |-> Task, active |-> Task, stopped |-> {},
             timed |-> {}, prio |-> BasePriority, base |-> BasePriority,
             block |-> [t \in Task |-> NULL],
             unblock |-> [t \in Task |-> "NONE"],
             cur |-> TopOf(BasePriority), current |-> 0, pend |-> FALSE]
    BY <1>2 DEF Init
  <1>4. Runs(k) /\ IsTop(k)
    BY <1>1, <1>3, StartingTable
  <1>5. k \in Kernel /\ Table(k)
    BY <1>3, <1>4, TopBusy DEF Table, Runs
  <1>6. k.active = Task /\ \A t \in Task : k.block[t] = NULL
    BY <1>3
  <1>7. /\ io = [t \in Task |-> NoIo] /\ aio = [t \in Task |-> NoAio]
        /\ pc = [t \in Task |-> "run"] /\ spoilt = {}
        /\ u = [rbrie |-> FALSE, etbei |-> FALSE, rcb |-> None, wcb |-> None,
                rxbuf |-> None, rxlen |-> 0, txlen |-> 0, fifo |-> 0]
    BY DEF Init
  <1>8. NoIo \in IoType /\ NoAio \in AioType
    BY DEF NoIo, NoAio, IoType, AioType, Number
  <1>9. ~NoAio.busy
    BY DEF NoAio
  <1>10. /\ u \in UType /\ u.rcb = None /\ u.wcb = None
         /\ ~u.rbrie /\ ~u.etbei
    BY <1>7, Contexts DEF UType, Number
  <1>11. /\ io \in [Task -> IoType] /\ aio \in [Task -> AioType]
         /\ spoilt \in SUBSET Mishaps /\ pc \in [Task -> PC]
         /\ \A t \in Task : pc[t] = "run" /\ ~aio[t].busy
    BY <1>7, <1>8, <1>9 DEF PC
  <1>12. Sys \in SysType
    BY <1>5, <1>10, <1>11 DEF Sys, SysType
  <1>13. /\ Sys.k = k /\ Sys.io = io /\ Sys.aio = aio /\ Sys.u = u
         /\ Sys.spoilt = spoilt
    BY DEF Sys
  <1>14. \A t \in Task : None # InCall(t)
    BY Contexts
  <1>15. SleepInv(Sys, pc)
    BY <1>6, <1>13 DEF SleepInv
  <1>16. DriverInv(Sys) /\ CallsInv(Sys, pc) /\ AioInv(Sys)
    BY <1>10, <1>11, <1>13, <1>14 DEF DriverInv, CallsInv, AioInv
  <1>17. RxInv(Sys) /\ CountInv(Sys, pc)
    BY <1>10, <1>11, <1>13 DEF RxInv, CountInv
  <1>18. QED
    BY <1>5, <1>11, <1>12, <1>13, <1>15, <1>16, <1>17 DEF TransferInv, Inv, Good

LEMMA TransferNext ==
    ASSUME TransferInv, [Next]_vars
    PROVE  TransferInv'
  <1>1. CASE Rx
    BY <1>1, RxStep
  <1>2. CASE SysTick
    BY <1>2, SysTickInv
  <1>3. ASSUME NEW thre \in BOOLEAN, Isr(thre) PROVE TransferInv'
    BY <1>3, IsrStep
  <1>4. ASSUME NEW t \in Task, Signal(t) PROVE TransferInv'
    BY <1>4, SignalInv
  <1>5. ASSUME NEW c \in Task, ThreadStep(c) PROVE TransferInv'
    <2>1. ASSUME NEW read \in BOOLEAN, NEW nonblock \in BOOLEAN, NEW n \in Sizes,
                 Transfer(c, read, n, nonblock)
          PROVE  TransferInv'
      BY <2>1, TransferStep
    <2>2. CASE Check(c)
      BY <2>2, CheckStep
    <2>3. CASE Cancel(c)
      BY <2>3, CancelStep
    <2>4. ASSUME NEW read \in BOOLEAN, NEW n \in Sizes, NEW next \in {"run", "listio"},
                 AioStart(c, read, n, next)
          PROVE  TransferInv'
      BY <2>4, AioStartStep
    <2>5. CASE Suspend(c)
      BY <2>5, SuspendStep
    <2>6. CASE SuspendReturn(c)
      BY <2>6, SuspendReturnStep
    <2>7. QED
      BY <1>5, <2>1, <2>2, <2>3, <2>4, <2>5, <2>6 DEF ThreadStep
  <1>6. CASE UNCHANGED vars
    <2>1. Sys' = Sys /\ pc' = pc
      BY <1>6 DEF vars, Sys
    <2>2. QED
      BY <2>1 DEF TransferInv
  <1>7. QED
    BY <1>1, <1>2, <1>3, <1>4, <1>5, <1>6 DEF Next

LEMMA TransferAlways == Spec => []TransferInv
  <1>1. Init => TransferInv
    BY TransferStart
  <1>2. TransferInv /\ [Next]_vars => TransferInv'
    BY TransferNext
  <1>3. QED
    BY <1>1, <1>2, PTL DEF Spec

\* device_data_transfer(), aio_suspend() and lio_listio(): a thread that sleeps
\* has a transfer which the driver will call back, with the interrupt enabled that
\* leads there, for any number of threads, sizes, signals and bytes that come in -
\* unless lio_listio() waits for a transfer that the driver refused.
THEOREM TransfersNotLost == Spec => []SleeperServed
  <1>1. TransferInv => SleeperServed
    <2> SUFFICES ASSUME TransferInv, NEW t \in Task \ k.active
                 PROVE  CASE k.block[t] = DevObj(TRUE)  -> u.rbrie /\ u.rcb = <<"io", t>>
                          [] k.block[t] = DevObj(FALSE) -> u.etbei /\ u.wcb = <<"io", t>>
                          [] OTHER -> \/ "refused" \in spoilt
                                      \/ u.rbrie /\ u.rcb = <<"aio", t>>
                                      \/ u.etbei /\ u.wcb = <<"aio", t>>
      BY DEF SleeperServed
    <2>1. Good(Sys, pc)
      BY DEF TransferInv, Inv
    <2>2. /\ Sys.k = k /\ Sys.u = u /\ Sys.spoilt = spoilt
      BY <2>1, SysFields
    <2>3. /\ InCall(t) # None /\ InAio(t) # None
          /\ InCall(t) = <<"io", t>> /\ InAio(t) = <<"aio", t>>
      BY Contexts DEF InCall, InAio
    <2>4. (u.rcb # None <=> u.rbrie) /\ (u.wcb # None <=> u.etbei)
      BY <2>1, <2>2 DEF Good, DriverInv
    <2>5. \/ k.block[t] = DevObj(TRUE) /\ u.rcb = InCall(t)
          \/ k.block[t] = DevObj(FALSE) /\ u.wcb = InCall(t)
          \/ /\ k.block[t] = AioObj(t)
             /\ "refused" \in spoilt \/ u.rcb = InAio(t) \/ u.wcb = InAio(t)
      BY <2>1, <2>2 DEF Good, SleepInv
    <2>6. DevObj(TRUE) # DevObj(FALSE) /\ AioObj(t) \notin {DevObj(TRUE), DevObj(FALSE)}
      BY Objects
    <2>7. CASE k.block[t] = DevObj(TRUE)
      BY <2>3, <2>4, <2>5, <2>6, <2>7
    <2>8. CASE k.block[t] = DevObj(FALSE)
      BY <2>3, <2>4, <2>5, <2>6, <2>8
    <2>9. CASE k.block[t] \notin {DevObj(TRUE), DevObj(FALSE)}
      BY <2>3, <2>4, <2>5, <2>6, <2>9
    <2>10. QED
      BY <2>7, <2>8, <2>9
  <1>2. QED
    BY <1>1, TransferAlways, PTL

\* device_data_transfer() and _hwpl_uart_isr(): the count that read() returns is
\* the number of bytes in its buffer, whatever comes in before, while and after the
\* thread sleeps - as long as no other thread's signal cancels it.
THEOREM ReadsCountTrue == Spec => []TrueCount
  <1>1. TransferInv => TrueCount
    <2> SUFFICES ASSUME TransferInv, Defined, "cancelled" \notin spoilt, NEW c \in Task,
                        At(c, "check"), k.unblock[c] # "SIGNAL", io[c].read, Result(c) > 0
                 PROVE  Result(c) = io[c].got
      BY DEF TrueCount
    <2>1. Good(Sys, pc) /\ CountInv(Sys, pc)
      BY DEF TransferInv, Inv
    <2>2. Sys.k = k /\ Sys.io = io /\ Sys.u = u /\ Sys.spoilt = spoilt
      BY <2>1, SysFields
    <2>3. k.current = c /\ pc[c] = "check" /\ c \in k.active
      BY <2>1, RunningThread DEF At
    <2>4. u.rcb # InCall(c)
      BY <2>1, <2>2, <2>3 DEF Good, CallsInv
    <2>5. Returned(io[c]) > 0 => Returned(io[c]) = io[c].got
      BY <2>1, <2>2, <2>3, <2>4 DEF CountInv, Defined
    <2>6. Returned(io[c]) = Result(c)
      BY DEF Returned, Result
    <2>7. QED
      BY <2>5, <2>6
  <1>2. QED
    BY <1>1, TransferAlways, PTL

\* sched_priv_update_on_wake() and priv_data_transfer_callback(): whichever
\* priority the callback passes on, some ready task is executed, and only ready
\* ones are.
THEOREM CallbacksKeepRunning == Spec => []WorkConserving
  <1>1. TransferInv => WorkConserving
    <2> SUFFICES ASSUME TransferInv PROVE WorkConserving
      OBVIOUS
    <2>1. Table(k)
      BY SysFields DEF TransferInv, Inv
    <2>2. QED
      BY <2>1 DEF Table, Runs, Busy, WorkConserving
  <1>2. QED
    BY <1>1, TransferAlways, PTL

-----------------------------------------------------------------------------
(***************************************************************************)
(* The files of the flash file system.  A call of the client, or the       *)
(* recovery of one file, is at one of a few places, each of which says     *)
(* what is still to be written and what the versions of the file look like *)
(* when power fails there.                                                 *)
(***************************************************************************)

\* Sequences of sequences, one behind the other.

\* F is made of the first m parts of ss: each element of F is one of a part and
\* follows the one before it there, and all of them are in F.
Joins(ss, m, F) ==
    /\ \A z \in 1 .. Len(F) : \E i \in 1 .. m : \E j \in 1 .. Len(ss[i]) :
          F[z] = ss[i][j] /\ (j > 1 => z > 1 /\ F[z - 1] = ss[i][j - 1])
    /\ \A i \in 1 .. m : \A j \in 1 .. Len(ss[i]) : \E z \in 1 .. Len(F) : F[z] = ss[i][j]

\* No element is in two parts, nor twice in one.
Apart(ss) ==
    \A i1, i2 \in 1 .. Len(ss) : \A j1 \in 1 .. Len(ss[i1]), j2 \in 1 .. Len(ss[i2]) :
        ss[i1][j1] = ss[i2][j2] => i1 = i2 /\ j1 = j2
Unlike(F) == \A z, l \in 1 .. Len(F) : F[z] = F[l] => z = l

Step(ss, g, i) == IF i = 1 THEN ss[i] ELSE g[i - 1] \o ss[i]

\* The recursion of FlattenSeq has a solution.
LEMMA FlattenExists ==
    ASSUME NEW ss, NEW n \in Nat
    PROVE  \E g : g = [i \in 1 .. n |-> Step(ss, g, i)]
  <1> DEFINE Solved(m) == \E g : g = [i \in 1 .. m |-> Step(ss, g, i)]
             Bad == {m \in Nat : ~Solved(m)}
  <1>1. SUFFICES ASSUME Bad # {} PROVE FALSE
    BY <1>1
  <1>2. PICK d \in Bad : \A e \in Bad : d <= e
    <2>1. Bad \in SUBSET Nat
      OBVIOUS
    <2> HIDE DEF Bad
    <2>2. QED
      BY <1>1, <2>1, LeastExists
  <1>3. d \in Nat /\ ~Solved(d)
    BY <1>2
  <1>4. d # 0
    <2>1. [i \in 1 .. 0 |-> Step(ss, <<>>, i)] = <<>>
      OBVIOUS
    <2>2. Solved(0)
      BY <2>1
    <2>3. QED
      BY <1>3, <2>2
  <1>5. d - 1 \in Nat /\ ~(d - 1 \in Bad)
    <2> HIDE DEF Bad
    <2>1. d - 1 \in Nat /\ ~(d <= d - 1)
      BY <1>3, <1>4
    <2>2. QED
      BY <1>2, <2>1
  <1>6. Solved(d - 1)
    BY <1>5
  <1>7. PICK g : g = [i \in 1 .. d - 1 |-> Step(ss, g, i)]
    BY <1>6
  <1> DEFINE h == [i \in 1 .. d |-> IF i = d THEN Step(ss, g, d) ELSE g[i]]
  <1> HIDE DEF Solved, Bad
  <1>8. \A i \in 1 .. d : h[i] = Step(ss, h, i)
    <2>1. ASSUME NEW i \in 1 .. d PROVE h[i] = Step(ss, h, i)
      <3>0. d \in Nat /\ d >= 1
        BY <1>3, <1>4
      <3>1. i # 1 => i - 1 \in 1 .. d /\ i - 1 # d /\ h[i - 1] = g[i - 1]
        BY <3>0, <2>1
      <3>2. Step(ss, h, i) = Step(ss, g, i)
        BY <3>1 DEF Step
      <3>3. CASE i = d
        BY <3>2, <3>3
      <3>4. CASE i # d
        <4>1. i \in 1 .. d - 1
          BY <3>0, <3>4, <2>1
        <4>2. g[i] = Step(ss, g, i)
          BY <1>7, <4>1
        <4>3. h[i] = g[i]
          BY <3>4
        <4>4. QED
          BY <3>2, <4>2, <4>3
      <3>5. QED
        BY <3>3, <3>4
    <2>2. QED
      BY <2>1
  <1>9. h = [i \in 1 .. d |-> Step(ss, h, i)]
    <2>1. h = [i \in 1 .. d |-> h[i]]
      OBVIOUS
    <2> HIDE DEF h
    <2>2. QED
      BY <1>8, <2>1
  <1>10. Solved(d)
    <2> HIDE DEF h
    <2>1. QED
      BY <1>9 DEF Solved
  <1>11. QED
    BY <1>3, <1>10

\* One more part.
LEMMA JoinsMore ==
    ASSUME NEW S, NEW ss \in Seq(Seq(S)), NEW i \in 2 .. Len(ss), NEW F \in Seq(S),
           Joins(ss, i - 1, F)
    PROVE  /\ F \o ss[i] \in Seq(S) /\ Joins(ss, i, F \o ss[i])
           /\ Apart(ss) /\ Unlike(F) => Unlike(F \o ss[i])
  <1> DEFINE p == ss[i]
             G == F \o p
  <1>1. p \in Seq(S) /\ Len(ss) \in Nat /\ i \in Nat /\ i - 1 \in Nat
    OBVIOUS
  <1>2. /\ G \in Seq(S) /\ Len(G) = Len(F) + Len(p) /\ Len(F) \in Nat /\ Len(p) \in Nat
        /\ \A z \in 1 .. Len(F) : G[z] = F[z]
        /\ \A j \in 1 .. Len(p) : G[Len(F) + j] = p[j]
    BY <1>1
  <1> HIDE DEF G
  <1>3. \A z \in 1 .. Len(G) : z \in 1 .. Len(F) \/ \E j \in 1 .. Len(p) : z = Len(F) + j
    <2>1. ASSUME NEW z \in 1 .. Len(G), ~(z \in 1 .. Len(F)) PROVE \E j \in 1 .. Len(p) : z = Len(F) + j
      <3>1. z - Len(F) \in 1 .. Len(p) /\ z = Len(F) + (z - Len(F))
        BY <1>2, <2>1
      <3>2. QED
        BY <3>1
    <2>2. QED
      BY <2>1
  <1> HIDE DEF p
  <1>4. ASSUME NEW z \in 1 .. Len(G)
        PROVE  \E a \in 1 .. i : \E j \in 1 .. Len(ss[a]) :
                  G[z] = ss[a][j] /\ (j > 1 => z > 1 /\ G[z - 1] = ss[a][j - 1])
    <2>1. CASE z \in 1 .. Len(F)
      <3>1. PICK a \in 1 .. i - 1 : \E j \in 1 .. Len(ss[a]) :
                F[z] = ss[a][j] /\ (j > 1 => z > 1 /\ F[z - 1] = ss[a][j - 1])
        BY <2>1 DEF Joins
      <3>2. PICK j \in 1 .. Len(ss[a]) : F[z] = ss[a][j] /\ (j > 1 => z > 1 /\ F[z - 1] = ss[a][j - 1])
        BY <3>1
      <3>3. a \in 1 .. i
        BY <1>1, <3>1
      <3>4. z > 1 => z - 1 \in 1 .. Len(F)
        BY <1>2, <2>1
      <3>5. QED
        BY <1>2, <2>1, <3>2, <3>3, <3>4
    <2>2. CASE \E j \in 1 .. Len(p) : z = Len(F) + j
      <3>1. PICK j \in 1 .. Len(p) : z = Len(F) + j
        BY <2>2
      <3>2. i \in 1 .. i
        BY <1>1
      <3>3. j > 1 => z > 1 /\ j - 1 \in 1 .. Len(p) /\ z - 1 = Len(F) + (j - 1)
        BY <1>2, <3>1
      <3>4. G[z] = p[j] /\ (j > 1 => z > 1 /\ G[z - 1] = p[j - 1])
        BY <1>2, <3>1, <3>3
      <3>5. QED
        BY <3>1, <3>2, <3>4 DEF p
    <2>3. QED
      BY <1>3, <2>1, <2>2
  <1>5. ASSUME NEW a \in 1 .. i, NEW j \in 1 .. Len(ss[a])
        PROVE  \E z \in 1 .. Len(G) : G[z] = ss[a][j]
    <2>1. CASE a = i
      <3>1. j \in 1 .. Len(p) /\ Len(F) + j \in 1 .. Len(G)
        BY <1>2, <2>1 DEF p
      <3>2. G[Len(F) + j] = ss[a][j]
        BY <1>2, <2>1, <3>1 DEF p
      <3>3. QED
        BY <3>1, <3>2
    <2>2. CASE a # i
      <3>1. a \in 1 .. i - 1
        BY <1>1, <2>2
      <3>2. PICK z \in 1 .. Len(F) : F[z] = ss[a][j]
        BY <3>1 DEF Joins
      <3>3. z \in 1 .. Len(G)
        BY <1>2
      <3>4. QED
        BY <1>2, <3>2, <3>3
    <2>3. QED
      BY <2>1, <2>2
  <1>6. ASSUME Apart(ss), Unlike(F) PROVE Unlike(G)
    <2>1. ASSUME NEW z \in 1 .. Len(F), NEW j \in 1 .. Len(p) PROVE F[z] # p[j]
      <3>1. PICK a \in 1 .. i - 1 : \E b \in 1 .. Len(ss[a]) : F[z] = ss[a][b]
        BY DEF Joins
      <3>2. PICK b \in 1 .. Len(ss[a]) : F[z] = ss[a][b]
        BY <3>1
      <3>3. a \in 1 .. Len(ss) /\ i \in 1 .. Len(ss) /\ a # i
        <4>1. \A n \in Nat : \A x \in 2 .. n : \A y \in 1 .. x - 1 : y \in 1 .. n /\ x \in 1 .. n /\ y # x
          OBVIOUS
        <4>2. QED
          BY <1>1, <4>1, Zenon
      <3>4. QED
        BY <1>6, <3>2, <3>3 DEF Apart, p
    <2>2. \A j, l \in 1 .. Len(p) : p[j] = p[l] => j = l
      <3>1. i \in 1 .. Len(ss)
        BY <1>1
      <3>2. QED
        BY <1>6, <3>1 DEF Apart, p
    <2>3. SUFFICES ASSUME NEW z \in 1 .. Len(G), NEW l \in 1 .. Len(G), G[z] = G[l] PROVE z = l
      BY DEF Unlike
    <2>4. CASE z \in 1 .. Len(F) /\ l \in 1 .. Len(F)
      BY <1>2, <1>6, <2>3, <2>4 DEF Unlike
    <2>5. CASE z \in 1 .. Len(F) /\ \E j \in 1 .. Len(p) : l = Len(F) + j
      BY <1>2, <2>1, <2>3, <2>5
    <2>6. CASE l \in 1 .. Len(F) /\ \E j \in 1 .. Len(p) : z = Len(F) + j
      BY <1>2, <2>1, <2>3, <2>6
    <2>7. CASE (\E j \in 1 .. Len(p) : z = Len(F) + j) /\ (\E j \in 1 .. Len(p) : l = Len(F) + j)
      BY <1>2, <2>2, <2>3, <2>7
    <2>8. QED
      BY <1>3, <2>4, <2>5, <2>6, <2>7
  <1>7. G = F \o ss[i]
    BY DEF G, p
  <1>8. QED
    BY <1>2, <1>4, <1>5, <1>6, <1>7 DEF Joins

\* What FlattenSeq returns.
LEMMA FlattenIs ==
    ASSUME NEW S, NEW ss \in Seq(Seq(S))
    PROVE  /\ FlattenSeq(ss) \in Seq(S)
           /\ Joins(ss, Len(ss), FlattenSeq(ss))
           /\ Apart(ss) => Unlike(FlattenSeq(ss))
  <1>1. CASE Len(ss) = 0
    <2>1. ss = <<>> /\ FlattenSeq(ss) = <<>>
      BY <1>1 DEF FlattenSeq
    <2>2. <<>> \in Seq(S) /\ Len(<<>>) = 0 /\ 1 .. 0 = {}
      OBVIOUS
    <2>3. Joins(<<>>, 0, <<>>) /\ Unlike(<<>>)
      BY <2>2 DEF Joins, Unlike
    <2>4. QED
      BY <2>1, <2>2, <2>3
  <1>2. CASE Len(ss) # 0
    <2> DEFINE n == Len(ss)
               f == CHOOSE g : g = [i \in 1 .. n |-> IF i = 1 THEN ss[i] ELSE g[i - 1] \o ss[i]]
               Fine(i) == f[i] \in Seq(S) /\ Joins(ss, i, f[i]) /\ (Apart(ss) => Unlike(f[i]))
               Bad == {i \in 1 .. n : ~Fine(i)}
    <2>1. n \in Nat /\ n >= 1
      BY <1>2
    <2>2. \E g : g = [i \in 1 .. n |-> IF i = 1 THEN ss[i] ELSE g[i - 1] \o ss[i]]
      <3>1. \E g : g = [i \in 1 .. n |-> Step(ss, g, i)]
        BY <2>1, FlattenExists
      <3>2. QED
        BY <3>1, Zenon DEF Step
    <2>3. f = [i \in 1 .. n |-> IF i = 1 THEN ss[i] ELSE f[i - 1] \o ss[i]]
      BY <2>2, Zenon
    <2>4. FlattenSeq(ss) = f[n]
      BY <1>2, Zenon DEF FlattenSeq
    <2> HIDE DEF f
    <2>5. SUFFICES Fine(n)
      BY <2>4
    <2>6. SUFFICES ASSUME Bad # {} PROVE FALSE
      BY <2>1
    <2>7. PICK d \in Bad : \A e \in Bad : d <= e
      <3>1. Bad \in SUBSET Nat
        BY <2>1
      <3> HIDE DEF Bad
      <3>2. QED
        BY <2>6, <3>1, LeastExists
    <2>8. d \in 1 .. n /\ ~Fine(d)
      BY <2>7
    <2>9. d # 1
      <3>1. 1 \in 1 .. n /\ f[1] = ss[1] /\ ss[1] \in Seq(S)
        BY <2>1, <2>3
      <3>2. Joins(ss, 1, ss[1])
        BY <3>1 DEF Joins
      <3>3. ASSUME Apart(ss) PROVE Unlike(ss[1])
        <4>1. 1 \in 1 .. Len(ss)
          BY <2>1
        <4>2. QED
          BY <3>3, <4>1 DEF Apart, Unlike
      <3>4. Fine(1)
        BY <3>1, <3>2, <3>3, Zenon
      <3>5. QED
        BY <2>8, <3>4
    <2>10. d - 1 \in 1 .. n /\ ~(d - 1 \in Bad)
      <3> HIDE DEF Bad, Fine
      <3>1. d - 1 \in 1 .. n /\ ~(d <= d - 1)
        BY <2>1, <2>8, <2>9
      <3>2. QED
        BY <2>7, <3>1
    <2>11. Fine(d - 1)
      BY <2>10
    <2>12. f[d] = f[d - 1] \o ss[d]
      <3> HIDE DEF Bad, Fine, n
      <3>1. QED
        BY <2>3, <2>8, <2>9
    <2>13. d \in 2 .. Len(ss)
      BY <2>1, <2>8, <2>9
    <2>14. Fine(d)
      BY <2>11, <2>12, <2>13, JoinsMore
    <2>15. QED
      BY <2>8, <2>14
  <1>3. QED
    BY <1>1, <1>2
IsSeq(R) == \E S : R \in Seq(S)

\* A sequence with an element put before it.
LEMMA ConsIs ==
  ASSUME NEW w, NEW R, IsSeq(R)
  PROVE /\ IsSeq(Cons(w, R)) /\ Head(Cons(w, R)) = w /\ Tail(Cons(w, R)) = R /\ Cons(w, R) # <<>>
  <1>1. PICK S : R \in Seq(S)
    BY DEF IsSeq
  <1> DEFINE T == S \cup {w}
  <1>2. R \in Seq(T) /\ <<w>> \in Seq(T)
    BY <1>1
  <1>3. Cons(w, R) = <<w>> \o R
    BY DEF Cons
  <1> HIDE DEF T
  <1>4. <<w>> \o R \in Seq(T)
    BY <1>2
  <1>5. Head(<<w>> \o R) = w /\ Tail(<<w>> \o R) = R /\ <<w>> \o R # <<>>
    BY <1>2
  <1>6. QED
    BY <1>3, <1>4, <1>5 DEF IsSeq

\* The head and the tail of two sequences, one behind the other.
LEMMA JoinIs ==
  ASSUME NEW a, NEW b, IsSeq(a), IsSeq(b)
  PROVE /\ IsSeq(a \o b)
        /\ <<>> \o b = b
        /\ a # <<>> => Head(a \o b) = Head(a) /\ Tail(a \o b) = Tail(a) \o b /\ a \o b # <<>> /\ IsSeq(Tail(a))
  <1>1. PICK S1 : a \in Seq(S1)
    BY DEF IsSeq
  <1>2. PICK S2 : b \in Seq(S2)
    BY DEF IsSeq
  <1> DEFINE T == S1 \cup S2
  <1>3. a \in Seq(T) /\ b \in Seq(T)
    BY <1>1, <1>2
  <1> HIDE DEF T
  <1>4. a \o b \in Seq(T) /\ <<>> \o b = b
    BY <1>3
  <1>5. a # <<>> => Head(a \o b) = Head(a) /\ a \o b # <<>> /\ Tail(a) \in Seq(T)
    BY <1>3
  <1>6. a # <<>> => Tail(a \o b) = Tail(a) \o b
    BY <1>3
  <1>7. QED
    BY <1>4, <1>5, <1>6 DEF IsSeq

\* Sequences are joined in any grouping.
LEMMA AssocIs ==
  ASSUME NEW a, NEW b, NEW c, IsSeq(a), IsSeq(b), IsSeq(c)
  PROVE  (a \o b) \o c = a \o (b \o c)
  <1>1. PICK S1 : a \in Seq(S1)
    BY DEF IsSeq
  <1>2. PICK S2 : b \in Seq(S2)
    BY DEF IsSeq
  <1>3. PICK S3 : c \in Seq(S3)
    BY DEF IsSeq
  <1> DEFINE T == S1 \cup S2 \cup S3
  <1>4. a \in Seq(T) /\ b \in Seq(T) /\ c \in Seq(T)
    BY <1>1, <1>2, <1>3
  <1> HIDE DEF T
  <1>5. QED
    BY <1>4, ConcatAssociative

-----------------------------------------------------------------------------
\* The entries of a list of segments: those in force, and those not yet struck.
Current(l) == {i \in DOMAIN l : l[i].st = "CURRENT"}
InUse(l)   == {i \in DOMAIN l : l[i].st # "DIRTY"}
HasBlock(l, b) == \E i \in InUse(l) : l[i].blk = b

Segments(l, x) == \A i, j \in Current(l) : i # x /\ j # x /\ l[i].seg = l[j].seg => i = j
OwnBlocks(l)   == \A i \in Current(l), j \in InUse(l) : l[i].blk = l[j].blk => i = j
Distinct(l)    == OwnBlocks(l) /\ Segments(l, 0)

\* A list whose blocks can all be closed, one whose blocks all are, and the contents
\* it stands for.
Half(l, d) == Distinct(l) /\ \A i \in Current(l) : d[l[i].blk].st \in {"OPEN", "CLOSED"}
Whole(l, d) ==
    /\ Distinct(l) /\ InUse(l) = Current(l)
    /\ \A i \in Current(l) : d[l[i].blk].st = "CLOSED"
Reads(l, d, c) ==
    /\ c \in [Segs -> -1 .. MaxItems]
    /\ \A s \in Segs :
          \/ \E i \in Current(l) : l[i].seg = s /\ c[s] = d[l[i].blk].val
          \/ c[s] = 0 /\ \A i \in Current(l) : l[i].seg # s

\* The versions of the file: none, one that stands, one that is being created or
\* removed, or one that takes the place of another.
Only(it, S)   == \A i \in DOMAIN it : i \in S \/ it[i].st \in {"OPEN", "DIRTY"}
Is(it, v, st) == v \in DOMAIN it /\ it[v].st = st

Present(it, d, v) == Only(it, {v}) /\ Is(it, v, "CLOSED") /\ Whole(it[v].list, d)
Born(it, d, v)    == /\ Only(it, {v}) /\ Is(it, v, "CLOSING") /\ Half(it[v].list, d)
                     /\ it[v].hst = "CLOSED" => Whole(it[v].list, d)
Leaving(it, v)    == Only(it, {v}) /\ Is(it, v, "DISCARDING")
Replaced(it, d, o, n, st) ==
    /\ Only(it, {o, n}) /\ Is(it, o, "DISCARDING_HDR_LIST") /\ Is(it, n, st)
    /\ it[o].sn = it[n].sn /\ it[n].hst = "CLOSED" /\ Whole(it[n].list, d)
Replacing(it, d, o, n) ==
    /\ Only(it, {o, n}) /\ Is(it, o, "CLOSED") /\ Is(it, n, "CLOSING")
    /\ it[o].sn = it[n].sn /\ Half(it[n].list, d)

Promised(it, d, w, v, c) == c \in w /\ Reads(it[v].list, d, c)
Settled(it, d, w) ==
    \/ Only(it, {}) /\ Gone \in w
    \/ \E v, c : Promised(it, d, w, v, c) /\ Present(it, d, v)
Recoverable(it, d, w) ==
    \/ Settled(it, d, w)
    \/ \E v, c : Promised(it, d, w, v, c) /\ Born(it, d, v)
    \/ \E v : Leaving(it, v) /\ Gone \in w
    \/ \E o, n, c : \E st \in {"CLOSING", "CLOSED"} :
          Promised(it, d, w, n, c) /\ Replaced(it, d, o, n, st)

\* A version that is being written, beside the one it will replace.
Draft(it, d, h) ==
    /\ Is(it, h, "OPEN") /\ it[h].hst = "OPEN" /\ OwnBlocks(it[h].list)
    /\ \A i \in InUse(it[h].list) : d[it[h].list[i].blk].st \in {"OPEN", "CLOSED"}
    /\ \A o \in DOMAIN it : it[o].st = "CLOSED" =>
          /\ it[o].sn = it[h].sn
          /\ \A i \in Current(it[o].list) : HasBlock(it[h].list, it[o].list[i].blk)

\* The types.
EntryRec == [seg : Segs, blk : Blocks, st : {"CURRENT", "OBSOLETE", "DIRTY"}]
ItemRec  == [sn : Nat, st : Statuses, hst : {"OPEN", "CLOSED", "DIRTY"},
             lst : {"OPEN", "CLOSED", "DIRTY"}, list : Seq(EntryRec)]
BlockRec == [st : {"FREE", "OPEN", "CLOSED", "DIRTY"}, val : 0 .. MaxItems]
HandRec  == [v : Nat, seg : Segs \cup {-1}, val : 0 .. MaxItems, dirty : BOOLEAN]
FTypes ==
    /\ item \in Seq(ItemRec) /\ data \in [Blocks -> BlockRec]
    /\ mode \in {"up", "boot", "failed"} /\ hand \in HandRec
    /\ count \in 0 .. MaxItems /\ bad \in Nat /\ clean \in BOOLEAN

-----------------------------------------------------------------------------
\* What the calls still have to write: the ends of a closing, of a first closing
\* and of a removal, up to E.
R1(o, E)    == Cons(<<"item", o, "DIRTY">>, E)
R2(o, E)    == Cons(<<"hdr", o, "DIRTY">>, R1(o, E))
R3(o, E)    == Cons(<<"list", o, "DIRTY">>, R2(o, E))
R4(o, n, E) == Cons(<<"item", n, "CLOSED">>, R3(o, E))
R5(o, n, E) == Cons(<<"item", o, "DISCARDING_HDR_LIST">>, R4(o, n, E))
B1(n, E)    == Cons(<<"item", n, "CLOSED">>, E)
H(n, R)     == Cons(<<"hdr", n, "CLOSED">>, R)
L(n, R)     == Cons(<<"list", n, "CLOSED">>, H(n, R))

\* An entry is struck right after its block was given up.
Struck(l, d, v, es, z, i) ==
    /\ es[z] = <<"entry", v, i, "DIRTY">>
    /\ z = 1 => d[l[i].blk].st = "DIRTY"
    /\ z > 1 => es[z - 1] = <<"block", l[i].blk, "DIRTY">>

\* es closes the blocks of list l and gives up those it has replaced.
Marks(l, d, v, es) ==
    /\ IsSeq(es)
    /\ \A z \in 1 .. Len(es) :
          \/ \E i \in Current(l) : es[z] = <<"block", l[i].blk, "CLOSED">>
          \/ \E i \in DOMAIN l : /\ es[z] = <<"block", l[i].blk, "DIRTY">>
                                 /\ \A j \in Current(l) : l[j].blk # l[i].blk
          \/ \E i \in DOMAIN l : l[i].st # "CURRENT" /\ Struck(l, d, v, es, z, i)
    /\ \A i \in Current(l) :
          \/ d[l[i].blk].st = "CLOSED"
          \/ \E z \in 1 .. Len(es) : es[z] = <<"block", l[i].blk, "CLOSED">>
    /\ \A i \in InUse(l) : l[i].st = "OBSOLETE" =>
          \E z \in 1 .. Len(es) : es[z] = <<"entry", v, i, "DIRTY">>

\* es gives up all blocks of list l.
Discards(l, d, v, es) ==
    /\ IsSeq(es)
    /\ \A z \in 1 .. Len(es) : \E i \in DOMAIN l :
          es[z] = <<"block", l[i].blk, "DIRTY">> \/ Struck(l, d, v, es, z, i)
    /\ \A i \in InUse(l) : \E z \in 1 .. Len(es) : es[z] = <<"entry", v, i, "DIRTY">>

\* A call of the client ends by telling what the file contains now.
EndOf(c) == IF mode = "boot" THEN <<>> ELSE <<<<"settle", c>>>>
Works    == mode \in {"up", "boot"} /\ hand = NoHand

\* The places of the calls.
Handle == Draft(item, data, hand.v) /\ (hand.dirty => hand.seg \in Segs)
Whither == {<<<<"load", s>>>> : s \in Segs} \cup {<<<<"finish", hand.v>>>>}
AtRest ==
    /\ mode = "up" /\ todo = <<>> /\ Settled(item, data, want)
    /\ hand # NoHand => Handle /\ Segments(item[hand.v].list, 0)
AtGo == mode = "up" /\ Settled(item, data, want) /\ Handle /\ todo \in Whither
        /\ Segments(item[hand.v].list, 0)
AtAlloc ==
    /\ mode = "up" /\ Settled(item, data, want) /\ Handle /\ hand.dirty
    /\ \E t \in Whither : todo = Cons(<<"alloc">>, Cons(<<"append">>, Cons(<<"strike">>, t)))
    /\ Segments(item[hand.v].list, 0)
AtAppend ==
    /\ mode = "up" /\ Settled(item, data, want) /\ Handle /\ hand.dirty
    /\ \E b \in Blocks :
          /\ \E t \in Whither : todo = Cons(<<"append", b>>, Cons(<<"strike">>, t))
          /\ data[b].st = "OPEN" /\ ~HasBlock(item[hand.v].list, b)
    /\ Segments(item[hand.v].list, 0)
AtStrike ==
    /\ mode = "up" /\ Settled(item, data, want) /\ Handle /\ hand.dirty
    /\ \E i \in {0} \cup Current(item[hand.v].list) :
          /\ \E t \in Whither : todo = Cons(<<"strike", i>>, t)
          /\ Segments(item[hand.v].list, i)
AtSettle ==
    /\ mode = "up" /\ hand = NoHand
    /\ \/ todo = <<<<"settle", Gone>>>> /\ Only(item, {}) /\ Gone \in want
       \/ \E v, c : /\ todo = <<<<"settle", c>>>> /\ Present(item, data, v)
                    /\ Promised(item, data, want, v, c)
AtRemove ==
    Works /\ \E o, n, c :
        /\ Promised(item, data, want, n, c) /\ Replaced(item, data, o, n, "CLOSED")
        /\ todo \in {R1(o, EndOf(c)), R2(o, EndOf(c)), R3(o, EndOf(c))}
AtSwitch ==
    Works /\ \E o, n, c :
        /\ Promised(item, data, want, n, c) /\ Replaced(item, data, o, n, "CLOSING")
        /\ todo = R4(o, n, EndOf(c))
AtRepeat ==
    Works /\ mode = "boot" /\ \E o, n, c :
        /\ Promised(item, data, want, n, c) /\ Replaced(item, data, o, n, "CLOSING")
        /\ todo \in {R5(o, n, <<>>), Cons(<<"item", n, "CLOSING">>, R5(o, n, <<>>)), B1(n, <<>>)}
AtMark ==
    Works /\ mode = "up" /\ \E o, n, c :
        /\ Promised(item, data, want, n, c) /\ Replacing(item, data, o, n)
        /\ \/ \E es : todo = es \o L(n, R5(o, n, EndOf(c))) /\ Marks(item[n].list, data, n, es)
           \/ todo = H(n, R5(o, n, EndOf(c))) /\ Whole(item[n].list, data)
           \/ todo = R5(o, n, EndOf(c)) /\ Whole(item[n].list, data) /\ item[n].hst = "CLOSED"
AtBirth ==
    Works /\ \E n, c :
        /\ Promised(item, data, want, n, c) /\ Born(item, data, n)
        /\ \/ \E es : todo = es \o L(n, B1(n, EndOf(c))) /\ Marks(item[n].list, data, n, es)
           \/ todo = H(n, B1(n, EndOf(c))) /\ Whole(item[n].list, data)
           \/ todo = B1(n, EndOf(c)) /\ Whole(item[n].list, data)
AtClosing ==
    Works /\ mode = "up" /\ \E n, c, es :
        /\ Draft(item, data, n) /\ Segments(item[n].list, 0)
        /\ Reads(item[n].list, data, c) /\ Marks(item[n].list, data, n, es)
        /\ \/ /\ Only(item, {}) /\ Gone \in want
              /\ todo = Cons(<<"item", n, "CLOSING">>, es \o L(n, B1(n, EndOf(c))))
           \/ \E o, p : /\ Promised(item, data, want, o, p) /\ Present(item, data, o)
                        /\ todo = Cons(<<"item", n, "CLOSING">>, es \o L(n, R5(o, n, EndOf(c))))
AtUnlink ==
    Works /\ mode = "up" /\ Gone \in want /\ \E v, p, es :
        /\ Promised(item, data, want, v, p) /\ Present(item, data, v)
        /\ Discards(item[v].list, data, v, es)
        /\ todo = Cons(<<"item", v, "DISCARDING">>, es \o R3(v, EndOf(Gone)))
AtDiscard ==
    Works /\ Gone \in want /\ \E v :
        /\ Leaving(item, v)
        /\ \/ \E es : todo = es \o R3(v, EndOf(Gone)) /\ Discards(item[v].list, data, v, es)
           \/ InUse(item[v].list) = {} /\ todo \in {R1(v, EndOf(Gone)), R2(v, EndOf(Gone))}
AtForget ==
    Works /\ mode = "boot" /\ clean /\ Recoverable(item, data, want)
          /\ \E v : Is(item, v, "OPEN") /\ todo = R1(v, <<>>)
AtBoot == mode \in {"boot", "failed"} /\ hand = NoHand /\ todo = <<>> /\ Recoverable(item, data, want)

Place ==
    \/ AtRest \/ AtGo \/ AtAlloc \/ AtAppend \/ AtStrike \/ AtSettle
    \/ AtRemove \/ AtSwitch \/ AtRepeat \/ AtMark \/ AtBirth \/ AtClosing
    \/ AtUnlink \/ AtDiscard \/ AtForget \/ AtBoot

\* No block is lost: a closed one belongs to the version that stands or takes
\* its place, an open one to a version that is being written or will be discarded.
KeepsClosed == \A b \in Blocks : data[b].st = "CLOSED" =>
    \E v \in DOMAIN item :
        /\ HasBlock(item[v].list, b)
        /\ \/ item[v].st \in {"CLOSING", "DISCARDING"}
           \/ item[v].st = "CLOSED" /\ \A x1 \in DOMAIN item : item[x1].st # "CLOSING"
KeepsOpen == \A b \in Blocks : data[b].st = "OPEN" =>
    \/ \E v \in DOMAIN item : item[v].st \in {"OPEN", "CLOSING"} /\ HasBlock(item[v].list, b)
    \/ mode = "up" /\ todo # <<>> /\ Head(todo) = <<"append", b>>
    \/ mode # "up" /\ (clean \/ \E v \in DOMAIN item : item[v].st = "OPEN")
LeakInv == mishaps = {} => KeepsClosed /\ KeepsOpen

\* cafs_lite_init() does not find too much to clean.
BadInv ==
    mode # "up" /\ mishaps \cap {"closing", "crowd"} = {} =>
        /\ mode = "boot"
        /\ bad + Cardinality(BadItems) <= IF todo = <<>> THEN MaxBad ELSE MaxBad + 1

CafsInv == "closing" \notin mishaps => FTypes /\ Place /\ BadInv /\ LeakInv

-----------------------------------------------------------------------------
\* The effect of one write.
Unmoved == /\ hand' = hand /\ mode' = mode /\ clean' = clean /\ bad' = bad
           /\ mishaps' = mishaps /\ count' = count
SameFiles == /\ item' \in Seq(ItemRec) /\ DOMAIN item' = DOMAIN item
             /\ \A x1 \in DOMAIN item : item'[x1].sn = item[x1].sn

\* Only the status of version v changes, to s.
StatusSet(v, s) ==
    /\ Unmoved /\ SameFiles /\ data' = data
    /\ \A x1 \in DOMAIN item :
          /\ item'[x1].list = item[x1].list /\ item'[x1].hst = item[x1].hst
          /\ item'[x1].st = IF x1 = v THEN s ELSE item[x1].st

\* Only that of the header or the list of version v changes.
HeaderSet(v, s) ==
    /\ Unmoved /\ SameFiles /\ data' = data /\ want' = want
    /\ \A x1 \in DOMAIN item :
          /\ item'[x1].list = item[x1].list /\ item'[x1].st = item[x1].st
          /\ item'[x1].hst = IF x1 = v THEN s ELSE item[x1].hst
ListSet == HeaderSet(0, "OPEN")

\* Entry i of version v is struck, or block b has status s.
EntryStruck(v, i) ==
    /\ Unmoved /\ SameFiles /\ data' = data /\ want' = want
    /\ \A x1 \in DOMAIN item :
          /\ item'[x1].st = item[x1].st /\ item'[x1].hst = item[x1].hst
          /\ item'[x1].list = IF x1 = v THEN [item[v].list EXCEPT ![i].st = "DIRTY"] ELSE item[x1].list
BlockSet(b, s) ==
    /\ Unmoved /\ SameFiles /\ item' = item /\ want' = want
    /\ data' \in [Blocks -> BlockRec]
    /\ \A x \in Blocks : /\ data'[x].val = data[x].val
                         /\ data'[x].st = IF x = b THEN s ELSE data[x].st

\* What the types say of each item, entry and block.
LEMMA ItemsAre ==
    ASSUME FTypes
    PROVE  /\ DOMAIN item = 1 .. Len(item) /\ Len(item) \in Nat /\ DOMAIN item \subseteq Nat \ {0}
           /\ \A x1 \in DOMAIN item :
                 /\ item[x1] \in ItemRec /\ DOMAIN item[x1].list = 1 .. Len(item[x1].list)
                 /\ Len(item[x1].list) \in Nat
                 /\ \A i \in DOMAIN item[x1].list : item[x1].list[i] \in EntryRec
           /\ \A b \in Blocks : data[b] \in BlockRec
  <1>1. item \in Seq(ItemRec) /\ data \in [Blocks -> BlockRec]
    BY DEF FTypes
  <1>2. DOMAIN item = 1 .. Len(item) /\ Len(item) \in Nat /\ \A x1 \in DOMAIN item : item[x1] \in ItemRec
    BY <1>1
  <1>3. ASSUME NEW x1 \in DOMAIN item
        PROVE  /\ DOMAIN item[x1].list = 1 .. Len(item[x1].list) /\ Len(item[x1].list) \in Nat
               /\ \A i \in DOMAIN item[x1].list : item[x1].list[i] \in EntryRec
    <2>1. item[x1].list \in Seq(EntryRec)
      BY <1>2 DEF ItemRec
    <2>2. QED
      BY <2>1
  <1>4. QED
    BY <1>1, <1>2, <1>3

\* The first write of what there is to do.
LEMMA FirstWrite ==
    ASSUME Write, NEW w, NEW R, IsSeq(R), todo = Cons(w, R), ~Fails(w)
    PROVE  /\ todo' = R /\ Unmoved /\ want' = Promise(w)
           /\ item' = CASE w[1] = "item"  -> [item EXCEPT ![w[2]].st = w[3]]
                        [] w[1] = "hdr"   -> [item EXCEPT ![w[2]].hst = w[3]]
                        [] w[1] = "list"  -> [item EXCEPT ![w[2]].lst = w[3]]
                        [] w[1] = "entry" -> [item EXCEPT ![w[2]].list[w[3]].st = w[4]]
                        [] OTHER -> item
           /\ data' = IF w[1] = "block" THEN [data EXCEPT ![w[2]].st = w[3]] ELSE data
  <1>1. Head(todo) = w /\ Tail(todo) = R
    BY ConsIs
  <1>2. QED
    BY <1>1 DEF Write, Unmoved

\* cl_serialno_setstatus(): one item gets a status; that of CLOSING promises contents.
LEMMA WriteItem ==
    ASSUME FTypes, Write, NEW v \in DOMAIN item, NEW s \in Statuses, NEW R, IsSeq(R),
           todo = Cons(<<"item", v, s>>, R)
    PROVE  /\ todo' = R /\ FTypes' /\ StatusSet(v, s)
           /\ want' = IF s = "CLOSING" /\ mode = "up" THEN want \cup {Content(v)} ELSE want
  <1> DEFINE w == <<"item", v, s>>
  <1>1. w[1] = "item" /\ w[2] = v /\ w[3] = s
    OBVIOUS
  <1>2. ~Fails(w)
    BY <1>1 DEF Fails
  <1> HIDE DEF w
  <1>3. /\ todo' = R /\ Unmoved /\ want' = Promise(w) /\ data' = data
        /\ item' = [item EXCEPT ![v].st = s]
    BY <1>1, <1>2, FirstWrite DEF w
  <1>4. /\ item' \in Seq(ItemRec) /\ DOMAIN item' = DOMAIN item
        /\ \A x1 \in DOMAIN item :
              /\ item'[x1].list = item[x1].list /\ item'[x1].hst = item[x1].hst /\ item'[x1].sn = item[x1].sn
              /\ item'[x1].st = IF x1 = v THEN s ELSE item[x1].st
    <2>1. [item[v] EXCEPT !.st = s] \in ItemRec
      BY ItemsAre DEF ItemRec
    <2>2. item' = [item EXCEPT ![v] = [item[v] EXCEPT !.st = s]] /\ item \in Seq(ItemRec)
      BY <1>3 DEF FTypes
    <2>3. item' \in Seq(ItemRec) /\ DOMAIN item' = DOMAIN item
      BY <2>1, <2>2
    <2>4. QED
      BY <1>3, <2>1, <2>2, <2>3, ItemsAre DEF ItemRec
  <1>5. want' = IF s = "CLOSING" /\ mode = "up" THEN want \cup {Content(v)} ELSE want
    BY <1>1, <1>3 DEF Promise
  <1>6. QED
    BY <1>3, <1>4, <1>5 DEF StatusSet, SameFiles, FTypes, Unmoved

\* cl_hdr_setstatus(): one header gets a status.
LEMMA WriteHeader ==
    ASSUME FTypes, Write, NEW v \in DOMAIN item, NEW s \in {"OPEN", "CLOSED", "DIRTY"}, NEW R, IsSeq(R),
           todo = Cons(<<"hdr", v, s>>, R)
    PROVE  todo' = R /\ FTypes' /\ HeaderSet(v, s)
  <1> DEFINE w == <<"hdr", v, s>>
  <1>1. w[1] = "hdr" /\ w[2] = v /\ w[3] = s
    OBVIOUS
  <1>2. ~Fails(w)
    BY <1>1 DEF Fails
  <1> HIDE DEF w
  <1>3. /\ todo' = R /\ Unmoved /\ want' = want /\ data' = data
        /\ item' = [item EXCEPT ![v].hst = s]
    BY <1>1, <1>2, FirstWrite DEF w, Promise
  <1>4. /\ item' \in Seq(ItemRec) /\ DOMAIN item' = DOMAIN item
        /\ \A x1 \in DOMAIN item :
              /\ item'[x1].list = item[x1].list /\ item'[x1].st = item[x1].st /\ item'[x1].sn = item[x1].sn
              /\ item'[x1].hst = IF x1 = v THEN s ELSE item[x1].hst
    <2>1. [item[v] EXCEPT !.hst = s] \in ItemRec
      BY ItemsAre DEF ItemRec
    <2>2. item' = [item EXCEPT ![v] = [item[v] EXCEPT !.hst = s]] /\ item \in Seq(ItemRec)
      BY <1>3 DEF FTypes
    <2>3. item' \in Seq(ItemRec) /\ DOMAIN item' = DOMAIN item
      BY <2>1, <2>2
    <2>4. QED
      BY <1>3, <2>1, <2>2, <2>3, ItemsAre DEF ItemRec
  <1>5. QED
    BY <1>3, <1>4 DEF HeaderSet, SameFiles, FTypes, Unmoved

\* The status of a list changes nothing that is read again.
LEMMA WriteList ==
    ASSUME FTypes, Write, NEW v \in DOMAIN item, NEW s \in {"OPEN", "CLOSED", "DIRTY"}, NEW R, IsSeq(R),
           todo = Cons(<<"list", v, s>>, R)
    PROVE  todo' = R /\ FTypes' /\ ListSet
  <1> DEFINE w == <<"list", v, s>>
  <1>1. w[1] = "list" /\ w[2] = v /\ w[3] = s
    OBVIOUS
  <1>2. ~Fails(w)
    BY <1>1 DEF Fails
  <1> HIDE DEF w
  <1>3. /\ todo' = R /\ Unmoved /\ want' = want /\ data' = data
        /\ item' = [item EXCEPT ![v].lst = s]
    BY <1>1, <1>2, FirstWrite DEF w, Promise
  <1>4. /\ item' \in Seq(ItemRec) /\ DOMAIN item' = DOMAIN item
        /\ \A x1 \in DOMAIN item :
              /\ item'[x1].list = item[x1].list /\ item'[x1].st = item[x1].st /\ item'[x1].sn = item[x1].sn
              /\ item'[x1].hst = item[x1].hst
    <2>1. [item[v] EXCEPT !.lst = s] \in ItemRec
      BY ItemsAre DEF ItemRec
    <2>2. item' = [item EXCEPT ![v] = [item[v] EXCEPT !.lst = s]] /\ item \in Seq(ItemRec)
      BY <1>3 DEF FTypes
    <2>3. item' \in Seq(ItemRec) /\ DOMAIN item' = DOMAIN item
      BY <2>1, <2>2
    <2>4. QED
      BY <1>3, <2>1, <2>2, <2>3, ItemsAre DEF ItemRec
  <1>5. \A x1 \in DOMAIN item : x1 # 0
    BY ItemsAre
  <1>6. QED
    BY <1>3, <1>4, <1>5 DEF ListSet, HeaderSet, SameFiles, FTypes, Unmoved

\* cl_filelist_setstatus() of an entry that is given up.
LEMMA WriteEntry ==
    ASSUME FTypes, Write, NEW v \in DOMAIN item, NEW i \in DOMAIN item[v].list, NEW R, IsSeq(R),
           todo = Cons(<<"entry", v, i, "DIRTY">>, R)
    PROVE  todo' = R /\ FTypes' /\ EntryStruck(v, i)
  <1> DEFINE w == <<"entry", v, i, "DIRTY">>
             l == item[v].list
             m == [l EXCEPT ![i].st = "DIRTY"]
  <1>1. w[1] = "entry" /\ w[2] = v /\ w[3] = i /\ w[4] = "DIRTY"
    OBVIOUS
  <1>2. ~Fails(w)
    BY <1>1 DEF Fails
  <1> HIDE DEF w
  <1>3. /\ todo' = R /\ Unmoved /\ want' = want /\ data' = data
        /\ item' = [item EXCEPT ![v].list[i].st = "DIRTY"]
    BY <1>1, <1>2, FirstWrite DEF w, Promise
  <1>4. m \in Seq(EntryRec)
    <2>1. l \in Seq(EntryRec) /\ l[i] \in EntryRec /\ i \in DOMAIN l
      BY ItemsAre DEF ItemRec
    <2>2. [l[i] EXCEPT !.st = "DIRTY"] \in EntryRec
      BY <2>1 DEF EntryRec
    <2>3. m = [l EXCEPT ![i] = [l[i] EXCEPT !.st = "DIRTY"]]
      OBVIOUS
    <2> HIDE DEF m, l
    <2>4. QED
      BY <2>1, <2>2, <2>3
  <1>5. item' = [item EXCEPT ![v] = [item[v] EXCEPT !.list = m]]
    BY <1>3
  <1> HIDE DEF m
  <1>6. [item[v] EXCEPT !.list = m] \in ItemRec
    BY <1>4, ItemsAre DEF ItemRec
  <1>7. item' \in Seq(ItemRec) /\ DOMAIN item' = DOMAIN item
    BY <1>5, <1>6 DEF FTypes
  <1>8. \A x1 \in DOMAIN item :
              /\ item'[x1].st = item[x1].st /\ item'[x1].hst = item[x1].hst /\ item'[x1].sn = item[x1].sn
              /\ item'[x1].list = IF x1 = v THEN m ELSE item[x1].list
    BY <1>5, <1>6, <1>7, ItemsAre DEF ItemRec
  <1>9. QED
    BY <1>3, <1>7, <1>8 DEF EntryStruck, SameFiles, FTypes, Unmoved, m

\* cl_block_setstatus(): a block is closed, while it is in use, or given up.
LEMMA WriteBlock ==
    ASSUME FTypes, Write, NEW b \in Blocks, NEW s \in {"CLOSED", "DIRTY"}, NEW R, IsSeq(R),
           todo = Cons(<<"block", b, s>>, R),
           s = "CLOSED" => data[b].st \in {"OPEN", "CLOSED"}
    PROVE  todo' = R /\ FTypes' /\ BlockSet(b, s)
  <1> DEFINE w == <<"block", b, s>>
  <1>1. w[1] = "block" /\ w[2] = b /\ w[3] = s
    OBVIOUS
  <1>2. ~Fails(w)
    <2>1. /\ BlockRank["FREE"] = 1 /\ BlockRank["OPEN"] = 2 /\ BlockRank["CLOSED"] = 3
          /\ BlockRank["DIRTY"] = 4
      BY DEF BlockRank
    <2>2. data[b].st \in {"FREE", "OPEN", "CLOSED", "DIRTY"}
      BY ItemsAre DEF BlockRec
    <2>3. ~(BlockRank[data[b].st] > BlockRank[s])
      BY <2>1, <2>2
    <2>4. QED
      BY <1>1, <2>3 DEF Fails
  <1> HIDE DEF w
  <1>3. /\ todo' = R /\ Unmoved /\ want' = want /\ item' = item
        /\ data' = [data EXCEPT ![b].st = s]
    BY <1>1, <1>2, FirstWrite DEF w, Promise
  <1>4. /\ data' \in [Blocks -> BlockRec]
        /\ \A x \in Blocks : /\ data'[x].val = data[x].val
                             /\ data'[x].st = IF x = b THEN s ELSE data[x].st
    <2>1. [data[b] EXCEPT !.st = s] \in BlockRec
      BY ItemsAre DEF BlockRec
    <2>2. data' = [data EXCEPT ![b] = [data[b] EXCEPT !.st = s]] /\ data \in [Blocks -> BlockRec]
      BY <1>3 DEF FTypes
    <2>3. QED
      BY <2>1, <2>2, ItemsAre DEF BlockRec
  <1>5. QED
    BY <1>3, <1>4 DEF BlockSet, SameFiles, FTypes, Unmoved

-----------------------------------------------------------------------------
\* What a step has to show.
LeakKept == (KeepsClosed => KeepsClosed') /\ (KeepsOpen => KeepsOpen')
BadKept  == /\ mode' = mode
            /\ mode = "boot" => /\ BadItems' \subseteq BadItems
                                /\ todo' = <<>> => \E v \in BadItems : v \notin BadItems'
Onward   == FTypes' /\ Place' /\ LeakKept /\ BadKept

\* The ends of the calls are sequences.
LEMMA EndIs == ASSUME NEW c PROVE IsSeq(EndOf(c))
  <1>1. <<>> \in Seq({}) /\ <<<<"settle", c>>>> \in Seq({<<"settle", c>>})
    OBVIOUS
  <1>2. IsSeq(<<>>) /\ IsSeq(<<<<"settle", c>>>>)
    BY <1>1 DEF IsSeq
  <1>3. QED
    BY <1>2 DEF EndOf

\* What the calls still have to write are sequences, none of them empty.
LEMMA ShapesAre ==
    ASSUME NEW E, IsSeq(E), NEW o, NEW n
    PROVE  /\ IsSeq(R1(o, E)) /\ IsSeq(R2(o, E)) /\ IsSeq(R3(o, E)) /\ IsSeq(R4(o, n, E))
           /\ IsSeq(R5(o, n, E)) /\ IsSeq(B1(n, E)) /\ IsSeq(H(n, E)) /\ IsSeq(L(n, E))
           /\ R1(o, E) # <<>> /\ R2(o, E) # <<>> /\ R3(o, E) # <<>> /\ R4(o, n, E) # <<>>
           /\ R5(o, n, E) # <<>> /\ B1(n, E) # <<>> /\ H(n, E) # <<>> /\ L(n, E) # <<>>
  <1>1. IsSeq(R1(o, E)) /\ R1(o, E) # <<>>
    BY ConsIs DEF R1
  <1>2. IsSeq(R2(o, E)) /\ R2(o, E) # <<>>
    BY <1>1, ConsIs DEF R2
  <1>3. IsSeq(R3(o, E)) /\ R3(o, E) # <<>>
    BY <1>2, ConsIs DEF R3
  <1>4. IsSeq(R4(o, n, E)) /\ R4(o, n, E) # <<>>
    BY <1>3, ConsIs DEF R4
  <1>5. IsSeq(R5(o, n, E)) /\ R5(o, n, E) # <<>>
    BY <1>4, ConsIs DEF R5
  <1>6. IsSeq(B1(n, E)) /\ B1(n, E) # <<>> /\ IsSeq(H(n, E)) /\ H(n, E) # <<>>
    BY ConsIs DEF B1, H
  <1>7. IsSeq(L(n, E)) /\ L(n, E) # <<>>
    BY <1>6, ConsIs DEF L
  <1>8. QED
    BY <1>1, <1>2, <1>3, <1>4, <1>5, <1>6, <1>7

\* At a write nobody is about to enter a new block.
LEMMA NoAppend ==
    ASSUME NEW w, NEW R, IsSeq(R), todo = Cons(w, R), w[1] # "append"
    PROVE  todo # <<>> /\ \A b : Head(todo) # <<"append", b>>
  <1>1. todo # <<>> /\ Head(todo) = w
    BY ConsIs
  <1>2. \A b : <<"append", b>>[1] = "append"
    OBVIOUS
  <1>3. QED
    BY <1>1, <1>2

\* The status of a header or a list says nothing about blocks.
LEMMA HeaderLeak ==
    ASSUME FTypes, NEW v, NEW s, HeaderSet(v, s), todo' # <<>>, \A b : Head(todo) # <<"append", b>>
    PROVE  LeakKept /\ BadKept
  <1>1. /\ DOMAIN item' = DOMAIN item /\ data' = data /\ mode' = mode /\ clean' = clean
        /\ \A x1 \in DOMAIN item : item'[x1].list = item[x1].list /\ item'[x1].st = item[x1].st
    BY DEF HeaderSet, SameFiles, Unmoved
  <1>2. BadItems' = BadItems
    BY <1>1 DEF BadItems
  <1>3. KeepsClosed => KeepsClosed'
    BY <1>1 DEF KeepsClosed, HasBlock
  <1>4. KeepsOpen => KeepsOpen'
    BY <1>1 DEF KeepsOpen, HasBlock
  <1>5. QED
    BY <1>1, <1>2, <1>3, <1>4 DEF LeakKept, BadKept

\* An item that is struck is done, if what it held is given up.
LEMMA StrikeLeak ==
    ASSUME FTypes, NEW v \in DOMAIN item, StatusSet(v, "DIRTY"), \A b : Head(todo) # <<"append", b>>,
           \/ item[v].st = "DISCARDING_HDR_LIST"
           \/ item[v].st = "DISCARDING" /\ InUse(item[v].list) = {}
           \/ item[v].st = "OPEN" /\ mode = "boot" /\ clean
    PROVE  LeakKept /\ BadKept
  <1>1. /\ DOMAIN item' = DOMAIN item /\ data' = data /\ mode' = mode /\ clean' = clean
        /\ \A x1 \in DOMAIN item :
              item'[x1].list = item[x1].list /\ item'[x1].st = IF x1 = v THEN "DIRTY" ELSE item[x1].st
    BY DEF StatusSet, SameFiles, Unmoved
  <1>2. BadItems' \subseteq BadItems /\ v \in BadItems /\ v \notin BadItems'
    BY <1>1 DEF BadItems
  <1>3. KeepsClosed => KeepsClosed'
    BY <1>1 DEF KeepsClosed, HasBlock
  <1>4. KeepsOpen => KeepsOpen'
    BY <1>1 DEF KeepsOpen, HasBlock
  <1>5. QED
    BY <1>1, <1>2, <1>3, <1>4 DEF LeakKept, BadKept

\* An item that is closed holds what it held.
LEMMA CloseLeak ==
    ASSUME FTypes, NEW v \in DOMAIN item, StatusSet(v, "CLOSED"), \A b : Head(todo) # <<"append", b>>,
           item[v].st = "CLOSING", Whole(item[v].list, data), \A x1 \in DOMAIN item : item[x1].st = "CLOSING" => x1 = v
    PROVE  LeakKept /\ BadKept
  <1>1. /\ DOMAIN item' = DOMAIN item /\ data' = data /\ mode' = mode /\ clean' = clean
        /\ \A x1 \in DOMAIN item :
              item'[x1].list = item[x1].list /\ item'[x1].st = IF x1 = v THEN "CLOSED" ELSE item[x1].st
    BY DEF StatusSet, SameFiles, Unmoved
  <1>2. BadItems' \subseteq BadItems /\ v \in BadItems /\ v \notin BadItems'
    BY <1>1 DEF BadItems
  <1>3. KeepsClosed => KeepsClosed'
    <2>1. \A x1 \in DOMAIN item : item'[x1].st # "CLOSING"
      BY <1>1
    <2>2. QED
      BY <1>1, <2>1 DEF KeepsClosed, HasBlock
  <1>4. KeepsOpen => KeepsOpen'
    <2>1. \A b \in Blocks : HasBlock(item[v].list, b) => data[b].st = "CLOSED"
      BY DEF HasBlock, Whole
    <2>2. \A b \in Blocks : data[b].st = "OPEN" => ~HasBlock(item[v].list, b)
      BY <2>1
    <2>3. QED
      BY <1>1, <2>2 DEF KeepsOpen
  <1>5. QED
    BY <1>1, <1>2, <1>3, <1>4 DEF LeakKept, BadKept

\* The end of a call or of the cleaning of one file.
LEMMA EndStep ==
    ASSUME FTypes', Works, Unmoved, NEW c, todo' = EndOf(c),
           \/ \E v : Promised(item', data', want', v, c) /\ Present(item', data', v)
           \/ Only(item', {}) /\ Gone \in want' /\ c = Gone
    PROVE  Place'
  <1>1. Settled(item', data', want')
    BY DEF Settled
  <1>2. CASE mode = "boot"
    BY <1>1, <1>2 DEF Place, AtBoot, EndOf, Works, Unmoved, Recoverable
  <1>3. CASE mode = "up"
    BY <1>3 DEF Place, AtSettle, EndOf, Works, Unmoved
  <1>4. QED
    BY <1>2, <1>3 DEF Works

\* cleanup_file() of a version that was replaced goes on to the next write.
LEMMA RemoveStep ==
    ASSUME FTypes, AtRemove, Write
    PROVE  Onward
  <1>1. PICK o, n, c :
            /\ Promised(item, data, want, n, c) /\ Replaced(item, data, o, n, "CLOSED")
            /\ todo \in {R1(o, EndOf(c)), R2(o, EndOf(c)), R3(o, EndOf(c))}
    BY DEF AtRemove
  <1> DEFINE E == EndOf(c)
  <1>2. IsSeq(E) /\ IsSeq(R1(o, E)) /\ IsSeq(R2(o, E))
    BY EndIs, ShapesAre
  <1>3. o \in DOMAIN item /\ n \in DOMAIN item /\ item[o].st = "DISCARDING_HDR_LIST" /\ item[n].st = "CLOSED"
    BY <1>1 DEF Replaced, Is
  <1>4. mode' = mode /\ hand' = hand => EndOf(c)' = E /\ Works'
    BY DEF EndOf, AtRemove, Works
  <1>5. ASSUME HeaderSet(0, "OPEN") \/ HeaderSet(o, "DIRTY"), FTypes'
        PROVE  Promised(item', data', want', n, c) /\ Replaced(item', data', o, n, "CLOSED")
    BY <1>1, <1>3, <1>5, ItemsAre DEF HeaderSet, SameFiles, Promised, Replaced, Only, Is
  <1> HIDE DEF E
  <1>6. CASE todo = R3(o, E)
    <2>1. todo' = R2(o, E) /\ FTypes' /\ ListSet
      BY <1>2, <1>3, <1>6, WriteList DEF R3
    <2>2. todo' # <<>> /\ \A b : Head(todo) # <<"append", b>>
      BY <1>2, <1>6, <2>1, ShapesAre, NoAppend DEF R3
    <2>3. Works' /\ EndOf(c)' = E
      BY <1>4, <2>1 DEF ListSet, HeaderSet, Unmoved
    <2>4. AtRemove'
      BY <1>5, <2>1, <2>3 DEF AtRemove, ListSet
    <2>5. QED
      BY <2>1, <2>2, <2>4, HeaderLeak DEF Onward, Place, ListSet
  <1>7. CASE todo = R2(o, E)
    <2>1. todo' = R1(o, E) /\ FTypes' /\ HeaderSet(o, "DIRTY")
      BY <1>2, <1>3, <1>7, WriteHeader DEF R2
    <2>2. todo' # <<>> /\ \A b : Head(todo) # <<"append", b>>
      BY <1>2, <1>7, <2>1, ShapesAre, NoAppend DEF R2
    <2>3. Works' /\ EndOf(c)' = E
      BY <1>4, <2>1 DEF HeaderSet, Unmoved
    <2>4. AtRemove'
      BY <1>5, <2>1, <2>3 DEF AtRemove
    <2>5. QED
      BY <2>1, <2>2, <2>4, HeaderLeak DEF Onward, Place
  <1>8. CASE todo = R1(o, E)
    <2>1. todo' = E /\ FTypes' /\ StatusSet(o, "DIRTY") /\ want' = want
      BY <1>2, <1>3, <1>8, WriteItem DEF R1, Statuses
    <2>2. \A b : Head(todo) # <<"append", b>>
      BY <1>2, <1>8, NoAppend DEF R1
    <2>3. Promised(item', data', want', n, c) /\ Present(item', data', n)
      BY <1>1, <1>3, <2>1, ItemsAre DEF StatusSet, SameFiles, Promised, Replaced, Present, Only, Is
    <2>4. Place'
      BY <2>1, <2>3, EndStep DEF StatusSet, AtRemove, E
    <2>5. QED
      BY <1>3, <2>1, <2>2, <2>4, StrikeLeak DEF Onward
  <1>9. QED
    BY <1>1, <1>6, <1>7, <1>8 DEF E

\* The new version is valid as soon as its item says so.
LEMMA SwitchStep ==
    ASSUME FTypes, AtSwitch, Write
    PROVE  Onward
  <1>1. PICK o, n, c :
            /\ Promised(item, data, want, n, c) /\ Replaced(item, data, o, n, "CLOSING")
            /\ todo = R4(o, n, EndOf(c))
    BY DEF AtSwitch
  <1> DEFINE E == EndOf(c)
  <1>2. IsSeq(E) /\ IsSeq(R3(o, E)) /\ R3(o, E) # <<>>
    BY EndIs, ShapesAre
  <1>3. o \in DOMAIN item /\ n \in DOMAIN item /\ item[o].st = "DISCARDING_HDR_LIST" /\ item[n].st = "CLOSING"
    BY <1>1 DEF Replaced, Is
  <1>4. mode' = mode /\ hand' = hand => EndOf(c)' = E /\ Works'
    BY DEF EndOf, AtSwitch, Works
  <1> HIDE DEF E
  <1>5. todo' = R3(o, E) /\ FTypes' /\ StatusSet(n, "CLOSED") /\ want' = want
    BY <1>1, <1>2, <1>3, WriteItem DEF R4, Statuses, E
  <1>6. \A b : Head(todo) # <<"append", b>>
    BY <1>1, <1>2, NoAppend DEF R4, E
  <1>7. Promised(item', data', want', n, c) /\ Replaced(item', data', o, n, "CLOSED")
    BY <1>1, <1>3, <1>5, ItemsAre DEF StatusSet, SameFiles, Promised, Replaced, Only, Is
  <1>8. Works' /\ EndOf(c)' = E
    BY <1>4, <1>5 DEF StatusSet, Unmoved
  <1>9. AtRemove'
    BY <1>5, <1>7, <1>8 DEF AtRemove
  <1>10. Whole(item[n].list, data) /\ \A x1 \in DOMAIN item : item[x1].st = "CLOSING" => x1 = n
    BY <1>1, <1>3 DEF Replaced, Only
  <1>11. QED
    BY <1>3, <1>5, <1>6, <1>9, <1>10, CloseLeak DEF Onward, Place

\* To set a status again changes nothing.
LEMMA SameLeak ==
    ASSUME FTypes, NEW v \in DOMAIN item, NEW s, StatusSet(v, s), \A b : Head(todo) # <<"append", b>>,
           item[v].st = s, todo' # <<>>
    PROVE  LeakKept /\ BadKept
  <1>1. /\ DOMAIN item' = DOMAIN item /\ data' = data /\ mode' = mode /\ clean' = clean
        /\ \A x1 \in DOMAIN item :
              item'[x1].list = item[x1].list /\ item'[x1].st = item[x1].st
    BY DEF StatusSet, SameFiles, Unmoved
  <1>2. BadItems' = BadItems
    BY <1>1 DEF BadItems
  <1>3. KeepsClosed => KeepsClosed'
    BY <1>1 DEF KeepsClosed, HasBlock
  <1>4. KeepsOpen => KeepsOpen'
    BY <1>1 DEF KeepsOpen, HasBlock
  <1>5. QED
    BY <1>1, <1>2, <1>3, <1>4 DEF LeakKept, BadKept

\* After a power failure finish_close() sets both statuses again.
LEMMA RepeatStep ==
    ASSUME FTypes, AtRepeat, Write
    PROVE  Onward
  <1>1. PICK o, n, c :
            /\ Promised(item, data, want, n, c) /\ Replaced(item, data, o, n, "CLOSING")
            /\ todo \in {R5(o, n, <<>>), Cons(<<"item", n, "CLOSING">>, R5(o, n, <<>>)), B1(n, <<>>)}
    BY DEF AtRepeat
  <1>2. mode = "boot" /\ Works /\ EndOf(c) = <<>>
    BY DEF AtRepeat, EndOf
  <1> DEFINE E == EndOf(c)
  <1>3. IsSeq(E) /\ IsSeq(R4(o, n, E)) /\ R4(o, n, E) # <<>> /\ IsSeq(R5(o, n, E)) /\ R5(o, n, E) # <<>>
    BY EndIs, ShapesAre
  <1>4. o \in DOMAIN item /\ n \in DOMAIN item /\ item[o].st = "DISCARDING_HDR_LIST" /\ item[n].st = "CLOSING"
    BY <1>1 DEF Replaced, Is
  <1>5. mode' = mode /\ hand' = hand => EndOf(c)' = E /\ Works'
    BY <1>2 DEF EndOf, Works
  <1> HIDE DEF E
  <1>6. ASSUME StatusSet(o, "DISCARDING_HDR_LIST") \/ StatusSet(n, "CLOSING"), want' = want
        PROVE  Promised(item', data', want', n, c) /\ Replaced(item', data', o, n, "CLOSING")
    BY <1>1, <1>4, <1>6, ItemsAre DEF StatusSet, SameFiles, Promised, Replaced, Only, Is
  <1>7. CASE todo = R5(o, n, E)
    <2>1. todo' = R4(o, n, E) /\ FTypes' /\ StatusSet(o, "DISCARDING_HDR_LIST") /\ want' = want
      BY <1>3, <1>4, <1>7, WriteItem DEF R5, Statuses
    <2>2. \A b : Head(todo) # <<"append", b>>
      BY <1>3, <1>7, NoAppend DEF R5
    <2>3. AtSwitch'
      BY <1>5, <1>6, <2>1 DEF AtSwitch, StatusSet, Unmoved
    <2>4. QED
      BY <1>3, <1>4, <2>1, <2>2, <2>3, SameLeak DEF Onward, Place
  <1>8. CASE todo = Cons(<<"item", n, "CLOSING">>, R5(o, n, E))
    <2>1. todo' = R5(o, n, E) /\ FTypes' /\ StatusSet(n, "CLOSING") /\ want' = want
      BY <1>2, <1>3, <1>4, <1>8, WriteItem DEF Statuses
    <2>2. \A b : Head(todo) # <<"append", b>>
      BY <1>3, <1>8, NoAppend
    <2>3. AtRepeat'
      BY <1>2, <1>5, <1>6, <2>1 DEF AtRepeat, StatusSet, Unmoved, E
    <2>4. QED
      BY <1>3, <1>4, <2>1, <2>2, <2>3, SameLeak DEF Onward, Place
  <1>9. CASE todo = B1(n, E)
    <2>1. todo' = E /\ FTypes' /\ StatusSet(n, "CLOSED") /\ want' = want
      BY <1>2, <1>3, <1>4, <1>9, WriteItem DEF B1, Statuses
    <2>2. \A b : Head(todo) # <<"append", b>>
      BY <1>3, <1>9, NoAppend DEF B1
    <2>3. Promised(item', data', want', n, c) /\ Replaced(item', data', o, n, "CLOSED")
      BY <1>1, <1>4, <2>1, ItemsAre DEF StatusSet, SameFiles, Promised, Replaced, Only, Is
    <2>4. AtBoot'
      BY <1>2, <2>1, <2>3 DEF AtBoot, Recoverable, StatusSet, Unmoved, Works, E
    <2>5. Whole(item[n].list, data) /\ \A x1 \in DOMAIN item : item[x1].st = "CLOSING" => x1 = n
      BY <1>1, <1>4 DEF Replaced, Only
    <2>6. QED
      BY <1>4, <2>1, <2>2, <2>4, <2>5, CloseLeak DEF Onward, Place
  <1>10. QED
    BY <1>1, <1>2, <1>7, <1>8, <1>9 DEF E

\* What is recovered does not depend on files that were being written.
LEMMA ForgetStep ==
    ASSUME FTypes, AtForget, Write
    PROVE  Onward
  <1>1. PICK v : Is(item, v, "OPEN") /\ todo = R1(v, <<>>)
    BY DEF AtForget
  <1>2. IsSeq(<<>>) /\ v \in DOMAIN item /\ item[v].st = "OPEN"
    BY <1>1, EndIs DEF IsSeq, Is, EndOf, AtForget
  <1>3. todo' = <<>> /\ FTypes' /\ StatusSet(v, "DIRTY") /\ want' = want
    BY <1>1, <1>2, WriteItem DEF R1, Statuses
  <1>4. \A b : Head(todo) # <<"append", b>>
    BY <1>1, <1>2, NoAppend DEF R1
  <1>5. /\ \A S : Only(item, S) => Only(item', S)
        /\ \A w, c : Promised(item, data, want, w, c) /\ w \in DOMAIN item
                          => Promised(item', data', want', w, c)
    BY <1>2, <1>3 DEF StatusSet, SameFiles, Only, Promised
  <1>6. \A w \in DOMAIN item : item[w].st # "OPEN" =>
            item'[w].st = item[w].st /\ item'[w].list = item[w].list /\ item'[w].sn = item[w].sn
            /\ item'[w].hst = item[w].hst
    BY <1>2, <1>3 DEF StatusSet, SameFiles
  <1>7. \A w : Present(item, data, w) => Present(item', data', w)
    BY <1>3, <1>5, <1>6 DEF Present, Is, StatusSet, SameFiles
  <1>8. \A w : Born(item, data, w) => Born(item', data', w)
    BY <1>3, <1>5, <1>6 DEF Born, Is, StatusSet, SameFiles
  <1>9. \A w : Leaving(item, w) => Leaving(item', w)
    BY <1>3, <1>5, <1>6 DEF Leaving, Is, StatusSet, SameFiles
  <1>10. \A o, n : \A st \in {"CLOSING", "CLOSED"} :
            Replaced(item, data, o, n, st) => Replaced(item', data', o, n, st)
    BY <1>3, <1>5, <1>6 DEF Replaced, Is, StatusSet, SameFiles
  <1>11. Settled(item, data, want) => Settled(item', data', want')
    BY <1>3, <1>5, <1>7 DEF Settled, Present, Is
  <1>12. Recoverable(item, data, want)
    BY DEF AtForget
  <1>13. Recoverable(item', data', want')
    <2>1. CASE Settled(item, data, want)
      BY <1>11, <2>1 DEF Recoverable
    <2>2. CASE \E w, c : Promised(item, data, want, w, c) /\ Born(item, data, w)
      BY <1>5, <1>8, <2>2 DEF Recoverable, Born, Is
    <2>3. CASE \E w : Leaving(item, w) /\ Gone \in want
      BY <1>3, <1>9, <2>3 DEF Recoverable
    <2>4. CASE \E o, n, c : \E st \in {"CLOSING", "CLOSED"} :
                  Promised(item, data, want, n, c) /\ Replaced(item, data, o, n, st)
      <3>1. PICK o, n, c : \E st \in {"CLOSING", "CLOSED"} :
                  Promised(item, data, want, n, c) /\ Replaced(item, data, o, n, st)
        BY <2>4
      <3>2. PICK st \in {"CLOSING", "CLOSED"} :
                  Promised(item, data, want, n, c) /\ Replaced(item, data, o, n, st)
        BY <3>1
      <3>3. n \in DOMAIN item
        BY <3>2 DEF Replaced, Is
      <3>4. Promised(item', data', want', n, c) /\ Replaced(item', data', o, n, st)
        BY <1>5, <1>10, <3>2, <3>3
      <3>5. QED
        BY <3>4 DEF Recoverable
    <2>5. QED
      BY <1>12, <2>1, <2>2, <2>3, <2>4 DEF Recoverable
  <1>14. mode = "boot" /\ hand = NoHand /\ clean
    BY DEF AtForget, Works
  <1>15. AtBoot'
    BY <1>3, <1>13, <1>14 DEF AtBoot, StatusSet, Unmoved
  <1>16. QED
    BY <1>2, <1>3, <1>4, <1>14, <1>15, StrikeLeak DEF Onward, Place

-----------------------------------------------------------------------------
\* Closing and giving up the blocks of a list.
LEMMA TailIs ==
    ASSUME NEW es, IsSeq(es), es # <<>>
    PROVE  /\ IsSeq(Tail(es)) /\ Len(es) \in Nat /\ Len(es) >= 1 /\ Len(Tail(es)) = Len(es) - 1
           /\ \A z \in 1 .. Len(Tail(es)) : Tail(es)[z] = es[z + 1] /\ z + 1 \in 1 .. Len(es)
           /\ \A z \in 1 .. Len(es) : z # 1 => z - 1 \in 1 .. Len(Tail(es)) /\ Tail(es)[z - 1] = es[z]
           /\ Head(es) = es[1] /\ es = Cons(es[1], Tail(es))
  <1>1. PICK S : es \in Seq(S)
    BY DEF IsSeq
  <1>2. /\ Tail(es) \in Seq(S) /\ Len(es) \in Nat /\ Len(es) >= 1 /\ Len(Tail(es)) = Len(es) - 1
        /\ \A z \in 1 .. Len(Tail(es)) : Tail(es)[z] = es[z + 1]
    BY <1>1
  <1>3. Head(es) = es[1] /\ es = <<es[1]>> \o Tail(es)
    BY <1>1
  <1>4. \A z \in 1 .. Len(es) : z # 1 => z - 1 \in 1 .. Len(Tail(es)) /\ (z - 1) + 1 = z
    BY <1>2
  <1>5. \A z \in 1 .. Len(es) : z # 1 => z - 1 \in 1 .. Len(Tail(es)) /\ Tail(es)[z - 1] = es[z]
    BY <1>2, <1>4
  <1>6. \A z \in 1 .. Len(Tail(es)) : z + 1 \in 1 .. Len(es)
    BY <1>2
  <1>7. QED
    BY <1>2, <1>3, <1>5, <1>6 DEF IsSeq, Cons

\* An element of a sequence that is not its first one is one of the tail.
LEMMA LaterIs ==
    ASSUME NEW es, IsSeq(es), NEW z \in 1 .. Len(es), z # 1, es # <<>>
    PROVE  \E j \in 1 .. Len(Tail(es)) : Tail(es)[j] = es[z]
  <1>1. z - 1 \in 1 .. Len(Tail(es)) /\ Tail(es)[z - 1] = es[z]
    BY TailIs
  <1>2. QED
    BY <1>1, Zenon

\* The block of an entry that is struck next has been given up; after the write
\* of a block only its own entry follows at once.
LEMMA StruckTail ==
    ASSUME NEW l, NEW d, NEW v, NEW es, IsSeq(es), es # <<>>, NEW i,
           NEW z \in 1 .. Len(Tail(es)), Struck(l, d, v, es, z + 1, i),
           NEW d2, z = 1 /\ es[1] = <<"block", l[i].blk, "DIRTY">> => d2[l[i].blk].st = "DIRTY"
    PROVE  Struck(l, d2, v, Tail(es), z, i)
  <1>1. es[z + 1] = <<"entry", v, i, "DIRTY">> /\ Tail(es)[z] = es[z + 1] /\ z \in Nat /\ z + 1 > 1
    BY TailIs DEF Struck
  <1>2. es[(z + 1) - 1] = <<"block", l[i].blk, "DIRTY">>
    BY <1>1 DEF Struck
  <1>3. es[z] = <<"block", l[i].blk, "DIRTY">>
    BY <1>1, <1>2
  <1>4. z > 1 => Tail(es)[z - 1] = es[z]
    <2>1. z \in 1 .. Len(es)
      BY <1>1, TailIs
    <2>2. QED
      BY <1>1, <2>1, TailIs
  <1>5. QED
    BY <1>1, <1>3, <1>4 DEF Struck

\* The first status change of mark_file_closed() is that of a block.
LEMMA MarksBlock ==
    ASSUME NEW l, NEW d, NEW v, NEW es, Marks(l, d, v, es), es # <<>>,
           NEW b, NEW s, es[1] = <<"block", b, s>>, NEW d2,
           \A i \in DOMAIN l : d2[l[i].blk].st = IF l[i].blk = b THEN s ELSE d[l[i].blk].st,
           s = "CLOSED" \/ \A j \in Current(l) : l[j].blk # b
    PROVE  Marks(l, d2, v, Tail(es))
  <1>1. IsSeq(es) /\ IsSeq(Tail(es))
    BY TailIs DEF Marks
  <1>2. Current(l) \subseteq DOMAIN l
    BY DEF Current
  <1>3. ASSUME NEW z \in 1 .. Len(Tail(es))
        PROVE  \/ \E i \in Current(l) : Tail(es)[z] = <<"block", l[i].blk, "CLOSED">>
               \/ \E i \in DOMAIN l : /\ Tail(es)[z] = <<"block", l[i].blk, "DIRTY">>
                                      /\ \A j \in Current(l) : l[j].blk # l[i].blk
               \/ \E i \in DOMAIN l : l[i].st # "CURRENT" /\ Struck(l, d2, v, Tail(es), z, i)
    <2>1. Tail(es)[z] = es[z + 1] /\ z + 1 \in 1 .. Len(es)
      BY <1>1, TailIs
    <2>2. ASSUME NEW i \in DOMAIN l, Struck(l, d, v, es, z + 1, i) PROVE Struck(l, d2, v, Tail(es), z, i)
      <3>1. es[1] = <<"block", l[i].blk, "DIRTY">> => d2[l[i].blk].st = "DIRTY"
        OBVIOUS
      <3>2. QED
        BY <1>1, <2>2, <3>1, StruckTail
    <2>3. QED
      BY <2>1, <2>2 DEF Marks
  <1>4. ASSUME NEW i \in Current(l)
        PROVE  \/ d2[l[i].blk].st = "CLOSED"
               \/ \E z \in 1 .. Len(Tail(es)) : Tail(es)[z] = <<"block", l[i].blk, "CLOSED">>
    <2>1. CASE d[l[i].blk].st = "CLOSED"
      BY <1>2, <2>1
    <2>2. CASE \E z \in 1 .. Len(es) : es[z] = <<"block", l[i].blk, "CLOSED">>
      <3>1. PICK z \in 1 .. Len(es) : es[z] = <<"block", l[i].blk, "CLOSED">>
        BY <2>2
      <3>2. CASE z = 1
        <4>1. l[i].blk = b /\ s = "CLOSED"
          BY <3>1, <3>2
        <4>2. QED
          BY <1>2, <4>1
      <3>3. CASE z # 1
        <4>1. \E j \in 1 .. Len(Tail(es)) : Tail(es)[j] = es[z]
          BY <1>1, <3>3, LaterIs
        <4>2. QED
          BY <3>1, <4>1, Zenon
      <3>4. QED
        BY <3>2, <3>3
    <2>3. QED
      BY <2>1, <2>2 DEF Marks
  <1>5. ASSUME NEW i \in InUse(l), l[i].st = "OBSOLETE"
        PROVE  \E z \in 1 .. Len(Tail(es)) : Tail(es)[z] = <<"entry", v, i, "DIRTY">>
    <2>1. PICK z \in 1 .. Len(es) : es[z] = <<"entry", v, i, "DIRTY">>
      BY <1>5 DEF Marks
    <2>2. z # 1
      BY <2>1
    <2>3. QED
      BY <1>1, <2>1, <2>2, LaterIs
  <1>6. QED
    BY <1>1, <1>3, <1>4, <1>5 DEF Marks

\* A list with an entry struck.
LEMMA StrikeIs ==
    ASSUME NEW l \in Seq(EntryRec), NEW i \in DOMAIN l, NEW m, m = [l EXCEPT ![i].st = "DIRTY"]
    PROVE  /\ DOMAIN m = DOMAIN l /\ InUse(m) = InUse(l) \ {i} /\ Current(m) = Current(l) \ {i}
           /\ \A j \in DOMAIN l : /\ m[j].blk = l[j].blk /\ m[j].seg = l[j].seg
                                  /\ m[j].st = IF j = i THEN "DIRTY" ELSE l[j].st
  <1>1. DOMAIN m = DOMAIN l
    OBVIOUS
  <1>2. \A j \in DOMAIN l : /\ m[j].blk = l[j].blk /\ m[j].seg = l[j].seg
                            /\ m[j].st = IF j = i THEN "DIRTY" ELSE l[j].st
    <2>1. \A j \in DOMAIN l : l[j] \in EntryRec
      OBVIOUS
    <2>2. \A j \in DOMAIN l : m[j] = IF j = i THEN [l[i] EXCEPT !.st = "DIRTY"] ELSE l[j]
      OBVIOUS
    <2>3. QED
      BY <2>1, <2>2 DEF EntryRec
  <1>3. QED
    BY <1>1, <1>2 DEF InUse, Current

\* The first status change of mark_file_closed() is that of an entry.
LEMMA MarksEntry ==
    ASSUME NEW l \in Seq(EntryRec), NEW d, NEW v, NEW es, Marks(l, d, v, es), es # <<>>,
           NEW i \in DOMAIN l, l[i].st # "CURRENT", es[1] = <<"entry", v, i, "DIRTY">>,
           NEW m, m = [l EXCEPT ![i].st = "DIRTY"]
    PROVE  Marks(m, d, v, Tail(es))
  <1>1. IsSeq(es) /\ IsSeq(Tail(es))
    BY TailIs DEF Marks
  <1>2. /\ DOMAIN m = DOMAIN l /\ InUse(m) = InUse(l) \ {i} /\ Current(m) = Current(l)
        /\ Current(l) \subseteq DOMAIN l /\ InUse(l) \subseteq DOMAIN l
        /\ \A j \in DOMAIN l : /\ m[j].blk = l[j].blk
                               /\ m[j].st = IF j = i THEN "DIRTY" ELSE l[j].st
    BY StrikeIs DEF Current, InUse
  <1>3. ASSUME NEW z \in 1 .. Len(Tail(es))
        PROVE  \/ \E j \in Current(m) : Tail(es)[z] = <<"block", m[j].blk, "CLOSED">>
               \/ \E j \in DOMAIN m : /\ Tail(es)[z] = <<"block", m[j].blk, "DIRTY">>
                                      /\ \A x \in Current(m) : m[x].blk # m[j].blk
               \/ \E j \in DOMAIN m : m[j].st # "CURRENT" /\ Struck(m, d, v, Tail(es), z, j)
    <2>1. Tail(es)[z] = es[z + 1] /\ z + 1 \in 1 .. Len(es)
      BY <1>1, TailIs
    <2>2. ASSUME NEW j \in DOMAIN l, Struck(l, d, v, es, z + 1, j) PROVE Struck(m, d, v, Tail(es), z, j)
      <3>1. es[1] = <<"block", l[j].blk, "DIRTY">> => d[l[j].blk].st = "DIRTY"
        OBVIOUS
      <3>2. Struck(l, d, v, Tail(es), z, j)
        BY <1>1, <2>2, <3>1, StruckTail
      <3>3. QED
        BY <1>2, <3>2 DEF Struck
    <2>3. CASE \E j \in Current(l) : es[z + 1] = <<"block", l[j].blk, "CLOSED">>
      BY <1>2, <2>1, <2>3
    <2>4. CASE \E j \in DOMAIN l : /\ es[z + 1] = <<"block", l[j].blk, "DIRTY">>
                                   /\ \A x \in Current(l) : l[x].blk # l[j].blk
      <3>1. PICK j \in DOMAIN l : /\ es[z + 1] = <<"block", l[j].blk, "DIRTY">>
                                  /\ \A x \in Current(l) : l[x].blk # l[j].blk
        BY <2>4
      <3>2. \A x \in Current(m) : m[x].blk # m[j].blk
        BY <1>2, <3>1
      <3>3. j \in DOMAIN m /\ Tail(es)[z] = <<"block", m[j].blk, "DIRTY">>
        BY <1>2, <2>1, <3>1
      <3>4. QED
        BY <3>2, <3>3, Zenon
    <2>5. CASE \E j \in DOMAIN l : l[j].st # "CURRENT" /\ Struck(l, d, v, es, z + 1, j)
      <3>1. PICK j \in DOMAIN l : l[j].st # "CURRENT" /\ Struck(l, d, v, es, z + 1, j)
        BY <2>5
      <3>2. j \in DOMAIN m /\ m[j].st # "CURRENT"
        BY <1>2, <3>1
      <3>3. Struck(m, d, v, Tail(es), z, j)
        BY <2>2, <3>1
      <3>4. QED
        BY <3>2, <3>3, Zenon
    <2>6. QED
      BY <2>1, <2>3, <2>4, <2>5 DEF Marks
  <1>4. ASSUME NEW j \in Current(m)
        PROVE  \/ d[m[j].blk].st = "CLOSED"
               \/ \E z \in 1 .. Len(Tail(es)) : Tail(es)[z] = <<"block", m[j].blk, "CLOSED">>
    <2>1. CASE d[l[j].blk].st = "CLOSED"
      BY <1>2, <2>1
    <2>2. CASE \E z \in 1 .. Len(es) : es[z] = <<"block", l[j].blk, "CLOSED">>
      <3>1. PICK z \in 1 .. Len(es) : es[z] = <<"block", l[j].blk, "CLOSED">>
        BY <2>2
      <3>2. z # 1
        BY <3>1
      <3>3. \E x \in 1 .. Len(Tail(es)) : Tail(es)[x] = es[z]
        BY <1>1, <3>1, <3>2, LaterIs
      <3>4. QED
        BY <1>2, <3>1, <3>3
    <2>3. QED
      BY <1>2, <2>1, <2>2 DEF Marks
  <1>5. ASSUME NEW j \in InUse(m), m[j].st = "OBSOLETE"
        PROVE  \E z \in 1 .. Len(Tail(es)) : Tail(es)[z] = <<"entry", v, j, "DIRTY">>
    <2>1. j # i /\ j \in InUse(l) /\ l[j].st = "OBSOLETE"
      BY <1>2, <1>5
    <2>2. PICK z \in 1 .. Len(es) : es[z] = <<"entry", v, j, "DIRTY">>
      BY <2>1 DEF Marks
    <2>3. z # 1
      BY <2>1, <2>2
    <2>4. QED
      BY <1>1, <2>2, <2>3, LaterIs
  <1>6. QED
    BY <1>1, <1>3, <1>4, <1>5 DEF Marks

\* When mark_file_closed() has no status change left, all blocks of the version are closed.
LEMMA MarksDone ==
    ASSUME NEW l \in Seq(EntryRec), NEW d, NEW v, Marks(l, d, v, <<>>), Half(l, d)
    PROVE  Whole(l, d)
  <1>1. Len(<<>>) = 0 /\ 1 .. 0 = {}
    OBVIOUS
  <1>2. \A i \in Current(l) : d[l[i].blk].st = "CLOSED"
    BY <1>1 DEF Marks
  <1>3. \A i \in InUse(l) : l[i].st # "OBSOLETE"
    BY <1>1 DEF Marks
  <1>4. \A i \in DOMAIN l : l[i].st \in {"CURRENT", "OBSOLETE", "DIRTY"}
    <2>1. \A i \in DOMAIN l : l[i] \in EntryRec
      OBVIOUS
    <2>2. QED
      BY <2>1 DEF EntryRec
  <1>5. InUse(l) = Current(l)
    BY <1>3, <1>4 DEF InUse, Current
  <1>6. QED
    BY <1>2, <1>5 DEF Whole, Half

\* Block b is dirty now, and no other block of list l has another status.
Dirties(l, d, d2, b) ==
    \A i \in DOMAIN l : d2[l[i].blk].st = IF l[i].blk = b THEN "DIRTY" ELSE d[l[i].blk].st

\* The first status change of cleanup_file() is that of a block.
LEMMA DiscardsBlock ==
    ASSUME NEW l, NEW d, NEW v, NEW es, Discards(l, d, v, es), es # <<>>,
           NEW b, es[1] = <<"block", b, "DIRTY">>, NEW d2, Dirties(l, d, d2, b)
    PROVE  Discards(l, d2, v, Tail(es))
  <1>1. IsSeq(es) /\ IsSeq(Tail(es))
    BY TailIs DEF Discards
  <1>2. ASSUME NEW z \in 1 .. Len(Tail(es))
        PROVE  \E i \in DOMAIN l :
                  Tail(es)[z] = <<"block", l[i].blk, "DIRTY">> \/ Struck(l, d2, v, Tail(es), z, i)
    <2>1. Tail(es)[z] = es[z + 1] /\ z + 1 \in 1 .. Len(es)
      BY <1>1, TailIs
    <2>2. ASSUME NEW i \in DOMAIN l, Struck(l, d, v, es, z + 1, i) PROVE Struck(l, d2, v, Tail(es), z, i)
      <3>1. es[1] = <<"block", l[i].blk, "DIRTY">> => d2[l[i].blk].st = "DIRTY"
        <4>1. es[1] = <<"block", l[i].blk, "DIRTY">> => l[i].blk = b
          OBVIOUS
        <4>2. QED
          BY <4>1, Zenon DEF Dirties
      <3>2. QED
        BY <1>1, <2>2, <3>1, StruckTail
    <2>3. QED
      BY <2>1, <2>2 DEF Discards
  <1>3. ASSUME NEW i \in InUse(l)
        PROVE  \E z \in 1 .. Len(Tail(es)) : Tail(es)[z] = <<"entry", v, i, "DIRTY">>
    <2>1. PICK z \in 1 .. Len(es) : es[z] = <<"entry", v, i, "DIRTY">>
      BY DEF Discards
    <2>2. z # 1
      BY <2>1
    <2>3. QED
      BY <1>1, <2>1, <2>2, LaterIs
  <1>4. QED
    BY <1>1, <1>2, <1>3 DEF Discards

\* The first status change of cleanup_file() is that of an entry.
LEMMA DiscardsEntry ==
    ASSUME NEW l \in Seq(EntryRec), NEW d, NEW v, NEW es, Discards(l, d, v, es), es # <<>>,
           NEW i \in DOMAIN l, es[1] = <<"entry", v, i, "DIRTY">>,
           NEW m, m = [l EXCEPT ![i].st = "DIRTY"]
    PROVE  Discards(m, d, v, Tail(es))
  <1>1. IsSeq(es) /\ IsSeq(Tail(es))
    BY TailIs DEF Discards
  <1>2. /\ DOMAIN m = DOMAIN l /\ InUse(m) = InUse(l) \ {i}
        /\ \A j \in DOMAIN l : m[j].blk = l[j].blk
    BY StrikeIs DEF InUse
  <1>3. ASSUME NEW z \in 1 .. Len(Tail(es))
        PROVE  \E j \in DOMAIN m :
                  Tail(es)[z] = <<"block", m[j].blk, "DIRTY">> \/ Struck(m, d, v, Tail(es), z, j)
    <2>1. Tail(es)[z] = es[z + 1] /\ z + 1 \in 1 .. Len(es)
      BY <1>1, TailIs
    <2>2. ASSUME NEW j \in DOMAIN l, Struck(l, d, v, es, z + 1, j) PROVE Struck(m, d, v, Tail(es), z, j)
      <3>1. es[1] = <<"block", l[j].blk, "DIRTY">> => d[l[j].blk].st = "DIRTY"
        OBVIOUS
      <3>2. Struck(l, d, v, Tail(es), z, j)
        BY <1>1, <2>2, <3>1, StruckTail
      <3>3. QED
        BY <1>2, <3>2 DEF Struck
    <2>3. PICK j \in DOMAIN l : es[z + 1] = <<"block", l[j].blk, "DIRTY">> \/ Struck(l, d, v, es, z + 1, j)
      BY <2>1 DEF Discards
    <2>4. QED
      BY <1>2, <2>1, <2>2, <2>3
  <1>4. ASSUME NEW j \in InUse(m)
        PROVE  \E z \in 1 .. Len(Tail(es)) : Tail(es)[z] = <<"entry", v, j, "DIRTY">>
    <2>1. j # i /\ j \in InUse(l)
      BY <1>2
    <2>2. PICK z \in 1 .. Len(es) : es[z] = <<"entry", v, j, "DIRTY">>
      BY <2>1 DEF Discards
    <2>3. z # 1
      BY <2>1, <2>2
    <2>4. QED
      BY <1>1, <2>2, <2>3, LaterIs
  <1>5. QED
    BY <1>1, <1>3, <1>4 DEF Discards

\* When cleanup_file() has no status change left, the version has no entry in use.
LEMMA DiscardsDone ==
    ASSUME NEW l, NEW d, NEW v, Discards(l, d, v, <<>>)
    PROVE  InUse(l) = {}
  <1>1. Len(<<>>) = 0 /\ 1 .. 0 = {}
    OBVIOUS
  <1>2. QED
    BY <1>1 DEF Discards

\* The first write of those of a list that are followed by others.
LEMMA SplitIs ==
    ASSUME NEW es, NEW T, IsSeq(es), IsSeq(T), es # <<>>
    PROVE  es \o T = Cons(es[1], Tail(es) \o T) /\ IsSeq(Tail(es) \o T)
  <1>1. IsSeq(Tail(es)) /\ es = <<es[1]>> \o Tail(es)
    BY TailIs DEF Cons
  <1>2. <<es[1]>> \in Seq({es[1]})
    OBVIOUS
  <1>3. IsSeq(<<es[1]>>)
    BY <1>2 DEF IsSeq
  <1>4. (<<es[1]>> \o Tail(es)) \o T = <<es[1]>> \o (Tail(es) \o T)
    BY <1>1, <1>3, AssocIs
  <1>5. IsSeq(Tail(es) \o T)
    BY <1>1, JoinIs
  <1>6. QED
    BY <1>1, <1>4, <1>5 DEF Cons

\* What is followed by something is not empty.
LEMMA JoinNotEmpty ==
    ASSUME NEW es, NEW T, IsSeq(es), IsSeq(T), T # <<>>
    PROVE  es \o T # <<>>
  BY JoinIs

\* A block is closed for a version that takes its place, or given up.
LEMMA BlockLeak ==
    ASSUME FTypes, NEW b \in Blocks, NEW s \in {"CLOSED", "DIRTY"}, BlockSet(b, s),
           todo' # <<>>, \A x : Head(todo) # <<"append", x>>,
           s = "CLOSED" => \E v \in DOMAIN item : item[v].st = "CLOSING" /\ HasBlock(item[v].list, b)
    PROVE  LeakKept /\ BadKept
  <1>1. item' = item /\ mode' = mode /\ clean' = clean
        /\ \A x \in Blocks : data'[x].st = IF x = b THEN s ELSE data[x].st
    BY DEF BlockSet, Unmoved
  <1>2. BadItems' = BadItems
    BY <1>1 DEF BadItems
  <1>3. KeepsClosed => KeepsClosed'
    BY <1>1 DEF KeepsClosed
  <1>4. KeepsOpen => KeepsOpen'
    BY <1>1 DEF KeepsOpen
  <1>5. QED
    BY <1>1, <1>2, <1>3, <1>4 DEF LeakKept, BadKept

\* An entry is struck whose block has been given up.
LEMMA EntryLeak ==
    ASSUME FTypes, NEW v \in DOMAIN item, NEW i \in DOMAIN item[v].list, EntryStruck(v, i),
           todo' # <<>>, \A x : Head(todo) # <<"append", x>>,
           data[item[v].list[i].blk].st = "DIRTY"
    PROVE  LeakKept /\ BadKept
  <1> DEFINE l == item[v].list
             m == [l EXCEPT ![i].st = "DIRTY"]
  <1>1. /\ DOMAIN item' = DOMAIN item /\ data' = data /\ mode' = mode /\ clean' = clean
        /\ \A x1 \in DOMAIN item : item'[x1].st = item[x1].st
                                  /\ item'[x1].list = IF x1 = v THEN m ELSE item[x1].list
    BY DEF EntryStruck, SameFiles, Unmoved
  <1>2. l \in Seq(EntryRec)
    BY ItemsAre DEF ItemRec
  <1>3. m = [l EXCEPT ![i].st = "DIRTY"] /\ i \in DOMAIN l
    OBVIOUS
  <1>4. data[l[i].blk].st = "DIRTY"
    OBVIOUS
  <1> HIDE DEF m, l
  <1>5. InUse(m) = InUse(l) \ {i} /\ InUse(l) \subseteq DOMAIN l /\ \A j \in DOMAIN l : m[j].blk = l[j].blk
    BY <1>2, <1>3, StrikeIs DEF InUse
  <1>6. \A b \in Blocks : data[b].st # "DIRTY" /\ HasBlock(l, b) => HasBlock(m, b)
    BY <1>4, <1>5 DEF HasBlock
  <1>7. \A b \in Blocks : \A x1 \in DOMAIN item :
            data[b].st # "DIRTY" /\ HasBlock(item[x1].list, b) => HasBlock(item'[x1].list, b)
    BY <1>1, <1>6 DEF l
  <1>8. BadItems' = BadItems
    BY <1>1 DEF BadItems
  <1>9. KeepsClosed => KeepsClosed'
    BY <1>1, <1>7 DEF KeepsClosed
  <1>10. KeepsOpen => KeepsOpen'
    BY <1>1, <1>7 DEF KeepsOpen
  <1>11. QED
    BY <1>1, <1>8, <1>9, <1>10 DEF LeakKept, BadKept

\* One write of mark_file_closed().
SameButList(n) ==
    /\ Unmoved /\ SameFiles /\ want' = want
    /\ \A x1 \in DOMAIN item : item'[x1].st = item[x1].st /\ item'[x1].hst = item[x1].hst
    /\ \A c : Reads(item[n].list, data, c) => Reads(item'[n].list, data', c)

\* Contents depend on the current entries and the values in their blocks alone.
LEMMA ReadsSame ==
    ASSUME NEW l, NEW d, NEW m, NEW d2, Current(m) = Current(l),
           \A i \in Current(l) : m[i].seg = l[i].seg /\ d2[m[i].blk].val = d[l[i].blk].val,
           NEW c, Reads(l, d, c)
    PROVE  Reads(m, d2, c)
  <1>1. c \in [Segs -> -1 .. MaxItems]
    BY DEF Reads
  <1>2. ASSUME NEW s \in Segs
        PROVE  \/ \E i \in Current(m) : m[i].seg = s /\ c[s] = d2[m[i].blk].val
               \/ c[s] = 0 /\ \A i \in Current(m) : m[i].seg # s
    <2>1. CASE \E i \in Current(l) : l[i].seg = s /\ c[s] = d[l[i].blk].val
      <3>1. PICK i \in Current(l) : l[i].seg = s /\ c[s] = d[l[i].blk].val
        BY <2>1
      <3>2. i \in Current(m) /\ m[i].seg = s /\ c[s] = d2[m[i].blk].val
        BY <3>1
      <3>3. QED
        BY <3>2, Zenon
    <2>2. CASE c[s] = 0 /\ \A i \in Current(l) : l[i].seg # s
      BY <2>2
    <2>3. QED
      BY <2>1, <2>2 DEF Reads
  <1>3. QED
    BY <1>1, <1>2 DEF Reads

\* One status change of mark_file_closed() for a version that is closing.
LEMMA MarkOne ==
    ASSUME FTypes, Write, NEW n \in DOMAIN item, item[n].st = "CLOSING",
           NEW es, NEW T, IsSeq(T), T # <<>>, es # <<>>, todo = es \o T,
           Marks(item[n].list, data, n, es), Half(item[n].list, data)
    PROVE  /\ FTypes' /\ LeakKept /\ BadKept /\ SameButList(n)
           /\ todo' = Tail(es) \o T
           /\ Marks(item'[n].list, data', n, Tail(es)) /\ Half(item'[n].list, data')
           /\ Whole(item[n].list, data) => Whole(item'[n].list, data')
  <1> DEFINE l == item[n].list
             R == Tail(es) \o T
  <1>1. IsSeq(es) /\ IsSeq(Tail(es)) /\ 1 \in 1 .. Len(es)
    <2>1. IsSeq(es)
      BY DEF Marks
    <2>2. QED
      BY <2>1, TailIs
  <1>2. IsSeq(R) /\ todo = Cons(es[1], R) /\ R # <<>>
    BY <1>1, SplitIs, JoinNotEmpty
  <1>3. l \in Seq(EntryRec) /\ l = item[n].list /\ \A i \in DOMAIN l : l[i] \in EntryRec
    BY ItemsAre DEF ItemRec
  <1>4. Current(l) \subseteq DOMAIN l /\ Current(l) \subseteq InUse(l)
    BY DEF Current, InUse
  <1> HIDE DEF R, l
  <1>5. \A i \in DOMAIN l : l[i].blk \in Blocks
    BY <1>3 DEF EntryRec
  <1>6. CASE \E i \in Current(l) : es[1] = <<"block", l[i].blk, "CLOSED">>
    <2>1. PICK i \in Current(l) : es[1] = <<"block", l[i].blk, "CLOSED">>
      BY <1>6
    <2> DEFINE b == l[i].blk
    <2>2. b \in Blocks /\ data[b].st \in {"OPEN", "CLOSED"} /\ HasBlock(l, b)
      BY <1>3, <1>4, <1>5 DEF Half, HasBlock
    <2> HIDE DEF b
    <2>3. todo' = R /\ FTypes' /\ BlockSet(b, "CLOSED")
      BY <1>2, <2>1, <2>2, WriteBlock DEF b
    <2>4. \A x : Head(todo) # <<"append", x>>
      BY <1>2, <2>1, NoAppend
    <2>5. LeakKept /\ BadKept
      BY <1>2, <1>3, <2>2, <2>3, <2>4, BlockLeak
    <2>6. /\ item' = item
          /\ \A j \in DOMAIN l : /\ data'[l[j].blk].val = data[l[j].blk].val
                                 /\ data'[l[j].blk].st = IF l[j].blk = b THEN "CLOSED" ELSE data[l[j].blk].st
      BY <1>5, <2>3 DEF BlockSet
    <2>7. Marks(l, data', n, Tail(es))
      BY <1>3, <2>1, <2>6, MarksBlock DEF b
    <2>8. Half(l, data') /\ (Whole(l, data) => Whole(l, data'))
      <3>1. Half(l, data)
        BY <1>3
      <3>2. \A j \in Current(l) : data'[l[j].blk].st \in {"CLOSED", data[l[j].blk].st}
        BY <1>4, <2>6
      <3>3. Half(l, data')
        BY <3>1, <3>2 DEF Half
      <3>4. Whole(l, data) => Whole(l, data')
        BY <3>2 DEF Whole
      <3>5. QED
        BY <3>3, <3>4
    <2>9. \A c : Reads(l, data, c) => Reads(l, data', c)
      BY <1>4, <2>6, ReadsSame
    <2>10. QED
      BY <1>3, <2>3, <2>5, <2>6, <2>7, <2>8, <2>9 DEF SameButList, BlockSet, R
  <1>7. CASE \E i \in DOMAIN l : /\ es[1] = <<"block", l[i].blk, "DIRTY">>
                                 /\ \A j \in Current(l) : l[j].blk # l[i].blk
    <2>1. PICK i \in DOMAIN l : /\ es[1] = <<"block", l[i].blk, "DIRTY">>
                                /\ \A j \in Current(l) : l[j].blk # l[i].blk
      BY <1>7
    <2> DEFINE b == l[i].blk
    <2>2. b \in Blocks
      BY <1>5
    <2> HIDE DEF b
    <2>3. todo' = R /\ FTypes' /\ BlockSet(b, "DIRTY")
      BY <1>2, <2>1, <2>2, WriteBlock DEF b
    <2>4. \A x : Head(todo) # <<"append", x>>
      BY <1>2, <2>1, NoAppend
    <2>5. LeakKept /\ BadKept
      BY <1>2, <2>2, <2>3, <2>4, BlockLeak
    <2>6. /\ item' = item
          /\ \A j \in DOMAIN l : /\ data'[l[j].blk].val = data[l[j].blk].val
                                 /\ data'[l[j].blk].st = IF l[j].blk = b THEN "DIRTY" ELSE data[l[j].blk].st
      BY <1>5, <2>3 DEF BlockSet
    <2>7. Marks(l, data', n, Tail(es))
      <3>1. es[1] = <<"block", b, "DIRTY">> /\ \A j \in Current(l) : l[j].blk # b
        BY <2>1 DEF b
      <3>2. Marks(l, data, n, es)
        BY <1>3
      <3>3. \A j \in DOMAIN l : data'[l[j].blk].st = IF l[j].blk = b THEN "DIRTY" ELSE data[l[j].blk].st
        BY <2>6
      <3>4. "DIRTY" = "CLOSED" \/ \A j \in Current(l) : l[j].blk # b
        BY <3>1
      <3>5. es # <<>> /\ es[1] = <<"block", b, "DIRTY">>
        BY <3>1
      <3>6. QED
        BY <3>2, <3>3, <3>4, <3>5, MarksBlock
    <2>8. Half(l, data') /\ (Whole(l, data) => Whole(l, data'))
      <3>1. Half(l, data)
        BY <1>3
      <3>2. \A j \in Current(l) : data'[l[j].blk].st = data[l[j].blk].st
        BY <1>4, <2>1, <2>6 DEF b
      <3>3. Half(l, data')
        BY <3>1, <3>2 DEF Half
      <3>4. Whole(l, data) => Whole(l, data')
        BY <3>2 DEF Whole
      <3>5. QED
        BY <3>3, <3>4
    <2>9. \A c : Reads(l, data, c) => Reads(l, data', c)
      BY <1>4, <2>6, ReadsSame
    <2>10. QED
      BY <1>3, <2>3, <2>5, <2>6, <2>7, <2>8, <2>9 DEF SameButList, BlockSet, R
  <1>8. CASE \E i \in DOMAIN l : l[i].st # "CURRENT" /\ Struck(l, data, n, es, 1, i)
    <2>1. PICK i \in DOMAIN l : l[i].st # "CURRENT" /\ Struck(l, data, n, es, 1, i)
      BY <1>8
    <2>2. es[1] = <<"entry", n, i, "DIRTY">> /\ data[l[i].blk].st = "DIRTY"
      BY <2>1 DEF Struck
    <2>3. todo' = R /\ FTypes' /\ EntryStruck(n, i)
      BY <1>2, <2>1, <2>2, WriteEntry DEF l
    <2>4. \A x : Head(todo) # <<"append", x>>
      BY <1>2, <2>2, NoAppend
    <2>5. LeakKept /\ BadKept
      BY <1>2, <2>1, <2>2, <2>3, <2>4, EntryLeak DEF l
    <2> DEFINE m == [l EXCEPT ![i].st = "DIRTY"]
    <2>6. item'[n].list = m /\ data' = data /\ m = [l EXCEPT ![i].st = "DIRTY"]
      BY <2>3 DEF EntryStruck, l
    <2> HIDE DEF m
    <2>7. Marks(m, data, n, Tail(es))
      BY <1>3, <2>1, <2>2, <2>6, MarksEntry
    <2>8. /\ InUse(m) = InUse(l) \ {i} /\ Current(m) = Current(l) /\ i \notin Current(l)
          /\ \A j \in DOMAIN l : m[j].blk = l[j].blk /\ m[j].seg = l[j].seg
          /\ \A j \in Current(l) : m[j].blk = l[j].blk /\ m[j].seg = l[j].seg
      <3>1. i \notin Current(l)
        BY <2>1 DEF Current
      <3>2. /\ InUse(m) = InUse(l) \ {i} /\ Current(m) = Current(l) \ {i}
            /\ \A j \in DOMAIN l : m[j].blk = l[j].blk /\ m[j].seg = l[j].seg
        <4>1. l \in Seq(EntryRec) /\ i \in DOMAIN l /\ m = [l EXCEPT ![i].st = "DIRTY"]
          BY <1>3, <2>6
        <4>2. QED
          BY <4>1, StrikeIs DEF InUse, Current
      <3>3. QED
        BY <1>4, <3>1, <3>2
    <2>9. InUse(l) \subseteq DOMAIN l
      BY DEF InUse
    <2>10. Half(m, data) /\ (Whole(l, data) => Whole(m, data))
      BY <1>3, <1>4, <2>8, <2>9 DEF Half, Whole, Distinct, OwnBlocks, Segments
    <2>11. \A c : Reads(l, data, c) => Reads(m, data, c)
      BY <2>8, ReadsSame
    <2>12. SameButList(n)
      BY <1>3, <2>3, <2>6, <2>11 DEF SameButList, EntryStruck
    <2>13. QED
      BY <1>3, <2>3, <2>5, <2>6, <2>7, <2>10, <2>12 DEF R
  <1>9. QED
    BY <1>1, <1>3, <1>6, <1>7, <1>8 DEF Marks

\* One write of cleanup_file().
LEMMA DiscardOne ==
    ASSUME FTypes, Write, NEW n \in DOMAIN item, NEW es, NEW T, IsSeq(T), T # <<>>, es # <<>>,
           todo = es \o T, Discards(item[n].list, data, n, es)
    PROVE  /\ FTypes' /\ LeakKept /\ BadKept /\ Unmoved /\ SameFiles /\ want' = want
           /\ \A x1 \in DOMAIN item : item'[x1].st = item[x1].st
           /\ todo' = Tail(es) \o T
           /\ Discards(item'[n].list, data', n, Tail(es))
  <1> DEFINE l == item[n].list
             R == Tail(es) \o T
  <1>1. IsSeq(es) /\ IsSeq(Tail(es)) /\ 1 \in 1 .. Len(es)
    <2>1. IsSeq(es)
      BY DEF Discards
    <2>2. QED
      BY <2>1, TailIs
  <1>2. IsSeq(R) /\ todo = Cons(es[1], R) /\ R # <<>>
    BY <1>1, SplitIs, JoinNotEmpty
  <1>3. l \in Seq(EntryRec) /\ l = item[n].list /\ \A i \in DOMAIN l : l[i] \in EntryRec
    BY ItemsAre DEF ItemRec
  <1> HIDE DEF R, l
  <1>4. \A i \in DOMAIN l : l[i].blk \in Blocks
    BY <1>3 DEF EntryRec
  <1>5. PICK i \in DOMAIN l : es[1] = <<"block", l[i].blk, "DIRTY">> \/ Struck(l, data, n, es, 1, i)
    BY <1>1, <1>3 DEF Discards
  <1>6. CASE es[1] = <<"block", l[i].blk, "DIRTY">>
    <2> DEFINE b == l[i].blk
    <2>1. b \in Blocks
      BY <1>4
    <2> HIDE DEF b
    <2>2. todo' = R /\ FTypes' /\ BlockSet(b, "DIRTY")
      BY <1>2, <1>6, <2>1, WriteBlock DEF b
    <2>3. \A x : Head(todo) # <<"append", x>>
      BY <1>2, <1>6, NoAppend
    <2>4. LeakKept /\ BadKept
      BY <1>2, <2>1, <2>2, <2>3, BlockLeak
    <2>5. /\ item' = item
          /\ \A j \in DOMAIN l : data'[l[j].blk].st = IF l[j].blk = b THEN "DIRTY" ELSE data[l[j].blk].st
      BY <1>4, <2>2 DEF BlockSet
    <2>6. Discards(l, data', n, Tail(es))
      <3>1. es[1] = <<"block", b, "DIRTY">> /\ Discards(l, data, n, es)
        BY <1>3, <1>6 DEF b
      <3>2. QED
        <4>1. Dirties(l, data, data', b)
          BY <2>5, Zenon DEF Dirties
        <4>2. es # <<>>
          OBVIOUS
        <4>3. QED
          BY <3>1, <4>1, <4>2, DiscardsBlock, Zenon
    <2>7. QED
      BY <1>3, <2>2, <2>4, <2>5, <2>6 DEF BlockSet, R
  <1>7. CASE Struck(l, data, n, es, 1, i)
    <2>1. es[1] = <<"entry", n, i, "DIRTY">> /\ data[l[i].blk].st = "DIRTY"
      BY <1>7 DEF Struck
    <2>2. todo' = R /\ FTypes' /\ EntryStruck(n, i)
      BY <1>2, <2>1, WriteEntry DEF l
    <2>3. \A x : Head(todo) # <<"append", x>>
      BY <1>2, <2>1, NoAppend
    <2>4. LeakKept /\ BadKept
      BY <1>2, <2>1, <2>2, <2>3, EntryLeak DEF l
    <2> DEFINE m == [l EXCEPT ![i].st = "DIRTY"]
    <2>5. item'[n].list = m /\ data' = data /\ m = [l EXCEPT ![i].st = "DIRTY"]
      BY <2>2 DEF EntryStruck, l
    <2> HIDE DEF m
    <2>6. Discards(m, data, n, Tail(es))
      BY <1>3, <2>1, <2>5, DiscardsEntry
    <2>7. QED
      BY <2>2, <2>4, <2>5, <2>6 DEF EntryStruck, R
  <1>8. QED
    BY <1>5, <1>6, <1>7

\* The old version is given up as the new one takes its place.
LEMMA GiveUpLeak ==
    ASSUME FTypes, NEW o \in DOMAIN item, NEW n \in DOMAIN item, item[o].st = "CLOSED",
           item[n].st = "CLOSING", StatusSet(o, "DISCARDING_HDR_LIST"), todo' # <<>>, mode = "up",
           \A b : Head(todo) # <<"append", b>>
    PROVE  LeakKept /\ BadKept
  <1>1. /\ DOMAIN item' = DOMAIN item /\ data' = data /\ mode' = mode /\ clean' = clean
        /\ \A x1 \in DOMAIN item : /\ item'[x1].list = item[x1].list
                                  /\ item'[x1].st = IF x1 = o THEN "DISCARDING_HDR_LIST" ELSE item[x1].st
    BY DEF StatusSet, SameFiles, Unmoved
  <1>2. KeepsClosed => KeepsClosed'
    BY <1>1 DEF KeepsClosed, HasBlock
  <1>3. KeepsOpen => KeepsOpen'
    BY <1>1 DEF KeepsOpen, HasBlock
  <1>4. QED
    BY <1>1, <1>2, <1>3 DEF LeakKept, BadKept

\* finish_close() goes on to its next write while the old version is still closed.
LEMMA MarkStep ==
    ASSUME FTypes, AtMark, Write
    PROVE  Onward
  <1>1. PICK o, n, c :
            /\ Promised(item, data, want, n, c) /\ Replacing(item, data, o, n)
            /\ \/ \E es : todo = es \o L(n, R5(o, n, EndOf(c))) /\ Marks(item[n].list, data, n, es)
               \/ todo = H(n, R5(o, n, EndOf(c))) /\ Whole(item[n].list, data)
               \/ todo = R5(o, n, EndOf(c)) /\ Whole(item[n].list, data) /\ item[n].hst = "CLOSED"
    BY DEF AtMark
  <1> DEFINE E == EndOf(c)
             Q == R5(o, n, E)
  <1>2. IsSeq(E) /\ IsSeq(R4(o, n, E)) /\ R4(o, n, E) # <<>> /\ IsSeq(Q) /\ Q # <<>>
    BY EndIs, ShapesAre
  <1>3. o \in DOMAIN item /\ n \in DOMAIN item /\ item[o].st = "CLOSED" /\ item[n].st = "CLOSING" /\ o # n
        /\ Half(item[n].list, data) /\ item[o].sn = item[n].sn
    BY <1>1 DEF Replacing, Is
  <1>4. mode' = mode /\ hand' = hand => EndOf(c)' = E /\ Works' /\ mode' = "up"
    BY DEF EndOf, AtMark, Works
  <1> HIDE DEF E, Q
  <1>5. IsSeq(H(n, Q)) /\ IsSeq(L(n, Q)) /\ H(n, Q) # <<>> /\ L(n, Q) # <<>>
    BY <1>2, ShapesAre
  <1>6. Q = R5(o, n, E)
    BY DEF Q
  <1>7. ASSUME NEW es, todo = es \o L(n, Q), Marks(item[n].list, data, n, es) PROVE Onward
    <2>1. CASE es = <<>>
      <3>1. todo = L(n, Q)
        BY <1>5, <1>7, <2>1, JoinIs DEF Marks
      <3>2. todo' = H(n, Q) /\ FTypes' /\ ListSet
        BY <1>3, <1>5, <3>1, WriteList DEF L
      <3>3. \A b : Head(todo) # <<"append", b>>
        BY <1>5, <3>1, NoAppend DEF L
      <3>4. Promised(item', data', want', n, c) /\ Replacing(item', data', o, n)
        BY <1>1, <1>3, <3>2, ItemsAre DEF ListSet, HeaderSet, SameFiles, Promised, Replacing, Only, Is
      <3>5. Whole(item[n].list, data) /\ item'[n].list = item[n].list /\ data' = data
        <4>1. item[n].list \in Seq(EntryRec)
          BY <1>3, ItemsAre DEF ItemRec
        <4>2. QED
          BY <1>3, <1>7, <2>1, <3>2, <4>1, MarksDone DEF ListSet, HeaderSet
      <3>6. EndOf(c)' = E /\ Works' /\ mode' = "up"
        BY <1>4, <3>2 DEF ListSet, HeaderSet, Unmoved
      <3>7. todo' = H(n, R5(o, n, EndOf(c)'))
        BY <1>6, <3>2, <3>6
      <3>8. AtMark'
        BY <3>4, <3>5, <3>6, <3>7 DEF AtMark
      <3>9. QED
        BY <1>5, <3>2, <3>3, <3>8, HeaderLeak DEF Onward, Place, ListSet
    <2>2. CASE es # <<>>
      <3>1. /\ FTypes' /\ LeakKept /\ BadKept /\ SameButList(n)
            /\ todo' = Tail(es) \o L(n, Q)
            /\ Marks(item'[n].list, data', n, Tail(es)) /\ Half(item'[n].list, data')
        BY <1>3, <1>5, <1>7, <2>2, MarkOne
      <3>2. Promised(item', data', want', n, c) /\ Replacing(item', data', o, n)
        BY <1>1, <1>3, <3>1 DEF SameButList, SameFiles, Promised, Replacing, Only, Is
      <3>3. EndOf(c)' = E /\ Works' /\ mode' = "up"
        BY <1>4, <3>1 DEF SameButList, Unmoved
      <3>4. todo' = Tail(es) \o L(n, R5(o, n, EndOf(c)'))
        BY <1>6, <3>1, <3>3
      <3>5. AtMark'
        BY <3>1, <3>2, <3>3, <3>4 DEF AtMark
      <3>6. QED
        BY <3>1, <3>5 DEF Onward, Place
    <2>3. QED
      BY <2>1, <2>2
  <1>8. CASE todo = H(n, Q) /\ Whole(item[n].list, data)
    <2>1. todo' = Q /\ FTypes' /\ HeaderSet(n, "CLOSED")
      BY <1>2, <1>3, <1>8, WriteHeader DEF H
    <2>2. \A b : Head(todo) # <<"append", b>>
      BY <1>2, <1>8, NoAppend DEF H
    <2>3. Promised(item', data', want', n, c) /\ Replacing(item', data', o, n)
      BY <1>1, <1>3, <2>1 DEF HeaderSet, SameFiles, Promised, Replacing, Only, Is
    <2>4. item'[n].list = item[n].list /\ item'[n].hst = "CLOSED" /\ data' = data
      BY <1>3, <2>1 DEF HeaderSet
    <2>5. EndOf(c)' = E /\ Works' /\ mode' = "up"
      BY <1>4, <2>1 DEF HeaderSet, Unmoved
    <2>6. todo' = R5(o, n, EndOf(c)')
      BY <1>6, <2>1, <2>5
    <2>7. AtMark'
      BY <1>8, <2>3, <2>4, <2>5, <2>6 DEF AtMark
    <2>8. QED
      BY <1>2, <2>1, <2>2, <2>7, HeaderLeak DEF Onward, Place
  <1>9. CASE todo = Q /\ Whole(item[n].list, data) /\ item[n].hst = "CLOSED"
    <2>1. todo' = R4(o, n, E) /\ FTypes' /\ StatusSet(o, "DISCARDING_HDR_LIST") /\ want' = want
      BY <1>2, <1>3, <1>6, <1>9, WriteItem DEF R5, Statuses
    <2>2. \A b : Head(todo) # <<"append", b>>
      BY <1>2, <1>6, <1>9, NoAppend DEF R5
    <2>3. Promised(item', data', want', n, c) /\ Replaced(item', data', o, n, "CLOSING")
      BY <1>1, <1>3, <1>9, <2>1 DEF StatusSet, SameFiles, Promised, Replaced, Replacing, Only, Is
    <2>4. EndOf(c)' = E /\ Works' /\ mode = "up"
      BY <1>4, <2>1 DEF StatusSet, Unmoved, AtMark
    <2>5. AtSwitch'
      BY <2>1, <2>3, <2>4 DEF AtSwitch
    <2>6. QED
      BY <1>2, <1>3, <2>1, <2>2, <2>4, <2>5, GiveUpLeak DEF Onward, Place
  <1>10. QED
    BY <1>1, <1>7, <1>8, <1>9 DEF E, Q

\* Closing a file that did not exist before goes on to the next write.
LEMMA BirthStep ==
    ASSUME FTypes, AtBirth, Write
    PROVE  Onward
  <1>1. PICK n, c :
            /\ Promised(item, data, want, n, c) /\ Born(item, data, n)
            /\ \/ \E es : todo = es \o L(n, B1(n, EndOf(c))) /\ Marks(item[n].list, data, n, es)
               \/ todo = H(n, B1(n, EndOf(c))) /\ Whole(item[n].list, data)
               \/ todo = B1(n, EndOf(c)) /\ Whole(item[n].list, data)
    BY DEF AtBirth
  <1> DEFINE E == EndOf(c)
             Q == B1(n, E)
  <1>2. IsSeq(E) /\ IsSeq(Q) /\ Q # <<>>
    BY EndIs, ShapesAre
  <1>3. n \in DOMAIN item /\ item[n].st = "CLOSING" /\ Half(item[n].list, data)
        /\ (item[n].hst = "CLOSED" => Whole(item[n].list, data))
        /\ \A x1 \in DOMAIN item : item[x1].st = "CLOSING" => x1 = n
    BY <1>1 DEF Born, Is, Only
  <1>4. mode' = mode /\ hand' = hand => EndOf(c)' = E /\ Works'
    BY DEF EndOf, AtBirth, Works
  <1> HIDE DEF E, Q
  <1>5. IsSeq(H(n, Q)) /\ IsSeq(L(n, Q)) /\ H(n, Q) # <<>> /\ L(n, Q) # <<>>
    BY <1>2, ShapesAre
  <1>6. Q = B1(n, E)
    BY DEF Q
  <1>7. ASSUME NEW es, todo = es \o L(n, Q), Marks(item[n].list, data, n, es) PROVE Onward
    <2>1. CASE es = <<>>
      <3>1. todo = L(n, Q)
        BY <1>5, <1>7, <2>1, JoinIs DEF Marks
      <3>2. todo' = H(n, Q) /\ FTypes' /\ ListSet
        BY <1>3, <1>5, <3>1, WriteList DEF L
      <3>3. \A b : Head(todo) # <<"append", b>>
        BY <1>5, <3>1, NoAppend DEF L
      <3>4. Promised(item', data', want', n, c) /\ Born(item', data', n)
        BY <1>1, <1>3, <3>2, ItemsAre DEF ListSet, HeaderSet, SameFiles, Promised, Born, Only, Is
      <3>5. Whole(item[n].list, data) /\ item'[n].list = item[n].list /\ data' = data
        <4>1. item[n].list \in Seq(EntryRec)
          BY <1>3, ItemsAre DEF ItemRec
        <4>2. QED
          BY <1>3, <1>7, <2>1, <3>2, <4>1, MarksDone DEF ListSet, HeaderSet
      <3>6. EndOf(c)' = E /\ Works'
        BY <1>4, <3>2 DEF ListSet, HeaderSet, Unmoved
      <3>7. todo' = H(n, B1(n, EndOf(c)'))
        BY <1>6, <3>2, <3>6
      <3>8. AtBirth'
        BY <3>4, <3>5, <3>6, <3>7 DEF AtBirth
      <3>9. QED
        BY <1>5, <3>2, <3>3, <3>8, HeaderLeak DEF Onward, Place, ListSet
    <2>2. CASE es # <<>>
      <3>1. /\ FTypes' /\ LeakKept /\ BadKept /\ SameButList(n)
            /\ todo' = Tail(es) \o L(n, Q)
            /\ Marks(item'[n].list, data', n, Tail(es)) /\ Half(item'[n].list, data')
            /\ Whole(item[n].list, data) => Whole(item'[n].list, data')
        BY <1>3, <1>5, <1>7, <2>2, MarkOne
      <3>2. Promised(item', data', want', n, c) /\ Born(item', data', n)
        BY <1>1, <1>3, <3>1 DEF SameButList, SameFiles, Promised, Born, Only, Is
      <3>3. EndOf(c)' = E /\ Works'
        BY <1>4, <3>1 DEF SameButList, Unmoved
      <3>4. todo' = Tail(es) \o L(n, B1(n, EndOf(c)'))
        BY <1>6, <3>1, <3>3
      <3>5. AtBirth'
        BY <3>1, <3>2, <3>3, <3>4 DEF AtBirth
      <3>6. QED
        BY <3>1, <3>5 DEF Onward, Place
    <2>3. QED
      BY <2>1, <2>2
  <1>8. CASE todo = H(n, Q) /\ Whole(item[n].list, data)
    <2>1. todo' = Q /\ FTypes' /\ HeaderSet(n, "CLOSED")
      BY <1>2, <1>3, <1>8, WriteHeader DEF H
    <2>2. \A b : Head(todo) # <<"append", b>>
      BY <1>2, <1>8, NoAppend DEF H
    <2>3. Promised(item', data', want', n, c) /\ Born(item', data', n)
      BY <1>1, <1>3, <1>8, <2>1 DEF HeaderSet, SameFiles, Promised, Born, Only, Is
    <2>4. item'[n].list = item[n].list /\ data' = data
      BY <1>3, <2>1 DEF HeaderSet
    <2>5. EndOf(c)' = E /\ Works'
      BY <1>4, <2>1 DEF HeaderSet, Unmoved
    <2>6. todo' = B1(n, EndOf(c)')
      BY <1>6, <2>1, <2>5
    <2>7. AtBirth'
      BY <1>8, <2>3, <2>4, <2>5, <2>6 DEF AtBirth
    <2>8. QED
      BY <1>2, <2>1, <2>2, <2>7, HeaderLeak DEF Onward, Place
  <1>9. CASE todo = Q /\ Whole(item[n].list, data)
    <2>1. todo' = E /\ FTypes' /\ StatusSet(n, "CLOSED") /\ want' = want
      BY <1>2, <1>3, <1>6, <1>9, WriteItem DEF B1, Statuses
    <2>2. \A b : Head(todo) # <<"append", b>>
      BY <1>2, <1>6, <1>9, NoAppend DEF B1
    <2>3. Promised(item', data', want', n, c) /\ Present(item', data', n)
      BY <1>1, <1>3, <1>9, <2>1 DEF StatusSet, SameFiles, Promised, Born, Present, Only, Is
    <2>4. Place'
      BY <2>1, <2>3, EndStep DEF StatusSet, AtBirth, E
    <2>5. QED
      BY <1>3, <1>9, <2>1, <2>2, <2>4, CloseLeak DEF Onward
  <1>10. QED
    BY <1>1, <1>7, <1>8, <1>9 DEF E, Q

\* The least element of a set of numbers is one of them.
LEMMA MinIs ==
    ASSUME NEW S \in SUBSET Nat, S # {}
    PROVE  Min(S) \in S /\ \A y \in S : Min(S) <= y
  <1>1. \E d \in S : \A e \in S : d <= e
    BY LeastExists
  <1>2. QED
    BY <1>1, Zenon DEF Min

\* The entry of a segment.
LEMMA EntryIs ==
    ASSUME FTypes, NEW v \in DOMAIN item, NEW s
    PROVE  \/ Entry(v, s) = 0 /\ \A i \in Current(item[v].list) : item[v].list[i].seg # s
           \/ /\ Entry(v, s) \in Current(item[v].list) /\ Entry(v, s) # 0
              /\ item[v].list[Entry(v, s)].seg = s
  <1> DEFINE l == item[v].list
             S == {i \in DOMAIN l : l[i].seg = s /\ l[i].st = "CURRENT"}
  <1>1. DOMAIN l = 1 .. Len(l) /\ Len(l) \in Nat
    BY ItemsAre
  <1>2. Entry(v, s) = IF S = {} THEN 0 ELSE Min(S)
    BY DEF Entry
  <1>3. CASE S = {}
    BY <1>2, <1>3 DEF Current
  <1>4. CASE S # {}
    <2>1. S \in SUBSET Nat /\ 0 \notin S
      BY <1>1
    <2>2. \A i \in S : i \in Current(l) /\ l[i].seg = s
      BY DEF Current
    <2> HIDE DEF S
    <2>3. Min(S) \in S
      BY <1>4, <2>1, MinIs
    <2> HIDE DEF l
    <2>4. Entry(v, s) \in S
      BY <1>2, <1>4, <2>3
    <2>5. QED
      BY <2>1, <2>2, <2>4 DEF l
  <1>5. QED
    BY <1>3, <1>4

\* What finish_close() promises is what the list of the version reads as.
LEMMA ContentIs ==
    ASSUME FTypes, NEW v \in DOMAIN item, NEW c, Reads(item[v].list, data, c),
           Segments(item[v].list, 0), \A i \in Current(item[v].list) : data[item[v].list[i].blk].st # "DIRTY"
    PROVE  Content(v) = c
  <1> DEFINE l == item[v].list
  <1>1. c \in [Segs -> -1 .. MaxItems]
    BY DEF Reads
  <1>2. ASSUME NEW s \in Segs
        PROVE  c[s] = IF Entry(v, s) = 0 THEN 0
                      ELSE LET d == data[l[Entry(v, s)].blk] IN IF d.st = "DIRTY" THEN -1 ELSE d.val
    <2>1. CASE Entry(v, s) = 0 /\ \A i \in Current(l) : l[i].seg # s
      BY <2>1 DEF Reads
    <2>2. CASE Entry(v, s) \in Current(l) /\ Entry(v, s) # 0 /\ l[Entry(v, s)].seg = s
      <3>1. PICK i \in Current(l) : l[i].seg = s /\ c[s] = data[l[i].blk].val
        BY <2>2 DEF Reads
      <3>2. 0 \notin Current(l)
        BY ItemsAre DEF Current
      <3>3. i = Entry(v, s)
        BY <2>2, <3>1, <3>2 DEF Segments
      <3>4. QED
        BY <2>2, <3>1, <3>3
    <2>3. QED
      BY <2>1, <2>2, EntryIs
  <1>3. Content(v) = [s \in Segs |-> IF Entry(v, s) = 0 THEN 0
                      ELSE LET d == data[l[Entry(v, s)].blk] IN IF d.st = "DIRTY" THEN -1 ELSE d.val]
    BY DEF Content
  <1>4. QED
    BY <1>1, <1>2, <1>3

\* The new version begins to take its place: from here on its contents may be found.
LEMMA ClosingStep ==
    ASSUME FTypes, AtClosing, Write
    PROVE  Onward
  <1>1. PICK n, c, es :
        /\ Draft(item, data, n) /\ Segments(item[n].list, 0)
        /\ Reads(item[n].list, data, c) /\ Marks(item[n].list, data, n, es)
        /\ \/ /\ Only(item, {}) /\ Gone \in want
              /\ todo = Cons(<<"item", n, "CLOSING">>, es \o L(n, B1(n, EndOf(c))))
           \/ \E o, p : /\ Promised(item, data, want, o, p) /\ Present(item, data, o)
                        /\ todo = Cons(<<"item", n, "CLOSING">>, es \o L(n, R5(o, n, EndOf(c))))
    BY DEF AtClosing
  <1> DEFINE E == EndOf(c)
             l == item[n].list
  <1>2. n \in DOMAIN item /\ item[n].st = "OPEN" /\ item[n].hst = "OPEN" /\ mode = "up"
    BY <1>1 DEF Draft, Is, AtClosing
  <1>3. Half(l, data) /\ \A i \in Current(l) : data[l[i].blk].st # "DIRTY"
    <2>1. Current(l) \subseteq InUse(l)
      BY DEF Current, InUse
    <2>2. QED
      BY <1>1, <2>1 DEF Draft, Half, Distinct
  <1>4. Content(n) = c
    BY <1>1, <1>2, <1>3, ContentIs
  <1>5. IsSeq(E) /\ IsSeq(es)
    BY <1>1, EndIs DEF Marks
  <1> HIDE DEF E
  <1>6. PICK R : IsSeq(R) /\ todo = Cons(<<"item", n, "CLOSING">>, R)
                 /\ \/ Only(item, {}) /\ Gone \in want /\ R = es \o L(n, B1(n, E))
                    \/ \E o, p : /\ Promised(item, data, want, o, p) /\ Present(item, data, o)
                                 /\ R = es \o L(n, R5(o, n, E))
    <2>1. IsSeq(L(n, B1(n, E))) /\ \A o : IsSeq(L(n, R5(o, n, E)))
      BY <1>5, ShapesAre
    <2>2. IsSeq(es \o L(n, B1(n, E))) /\ \A o : IsSeq(es \o L(n, R5(o, n, E)))
      BY <1>5, <2>1, JoinIs
    <2>3. QED
      BY <1>1, <2>2 DEF E
  <1>7. todo' = R /\ FTypes' /\ StatusSet(n, "CLOSING") /\ want' = want \cup {Content(n)}
    BY <1>2, <1>6, WriteItem DEF Statuses
  <1>8. \A b : Head(todo) # <<"append", b>>
    BY <1>6, NoAppend
  <1>9. EndOf(c)' = E /\ Works'
    BY <1>2, <1>7 DEF E, EndOf, StatusSet, Unmoved, Works, AtClosing
  <1>10. /\ DOMAIN item' = DOMAIN item /\ data' = data /\ mode' = mode /\ clean' = clean
         /\ \A x1 \in DOMAIN item : /\ item'[x1].list = item[x1].list /\ item'[x1].sn = item[x1].sn
                                   /\ item'[x1].hst = item[x1].hst
                                   /\ item'[x1].st = IF x1 = n THEN "CLOSING" ELSE item[x1].st
    BY <1>7 DEF StatusSet, SameFiles, Unmoved
  <1>11. item'[n].list = l /\ Promised(item', data', want', n, c)
    BY <1>1, <1>2, <1>4, <1>7, <1>10 DEF Promised
  <1>12. Place'
    <2>1. CASE Only(item, {}) /\ Gone \in want /\ R = es \o L(n, B1(n, E))
      <3>1. Born(item', data', n)
        BY <1>2, <1>3, <1>10, <2>1 DEF Born, Only, Is
      <3>2. todo' = es \o L(n, B1(n, EndOf(c)')) /\ Marks(item'[n].list, data', n, es)
        BY <1>1, <1>7, <1>9, <1>10, <1>11, <2>1
      <3>3. AtBirth'
        BY <1>9, <1>11, <3>1, <3>2 DEF AtBirth
      <3>4. QED
        BY <3>3 DEF Place
    <2>2. CASE \E o, p : /\ Promised(item, data, want, o, p) /\ Present(item, data, o)
                         /\ R = es \o L(n, R5(o, n, E))
      <3>1. PICK o, p : /\ Promised(item, data, want, o, p) /\ Present(item, data, o)
                        /\ R = es \o L(n, R5(o, n, E))
        BY <2>2
      <3>2. o \in DOMAIN item /\ item[o].st = "CLOSED" /\ item[o].sn = item[n].sn
        BY <1>1, <3>1 DEF Present, Is, Draft
      <3>3. Replacing(item', data', o, n)
        BY <1>2, <1>3, <1>10, <3>1, <3>2 DEF Replacing, Present, Only, Is
      <3>4. todo' = es \o L(n, R5(o, n, EndOf(c)')) /\ Marks(item'[n].list, data', n, es)
        BY <1>1, <1>7, <1>9, <1>10, <1>11, <3>1
      <3>5. mode' = "up"
        BY <1>2, <1>10
      <3>6. AtMark'
        BY <1>9, <1>11, <3>3, <3>4, <3>5 DEF AtMark
      <3>7. QED
        BY <3>6 DEF Place
    <2>3. QED
      BY <1>6, <2>1, <2>2
  <1>13. KeepsClosed => KeepsClosed'
    <2>1. SUFFICES ASSUME KeepsClosed, NEW b \in Blocks, data[b].st = "CLOSED"
                   PROVE  \E v \in DOMAIN item : HasBlock(item[v].list, b) /\ item'[v].st \in {"CLOSING", "DISCARDING"}
      BY <1>10 DEF KeepsClosed
    <2>2. PICK v \in DOMAIN item : HasBlock(item[v].list, b) /\ item[v].st \in {"CLOSING", "DISCARDING", "CLOSED"}
      BY <2>1 DEF KeepsClosed
    <2>3. CASE item[v].st # "CLOSED"
      BY <1>10, <2>2, <2>3
    <2>4. CASE item[v].st = "CLOSED"
      <3>1. PICK o : Present(item, data, o)
        BY <1>6, <2>4 DEF Only
      <3>2. v = o /\ InUse(item[v].list) = Current(item[v].list)
        BY <2>4, <3>1 DEF Present, Only, Whole
      <3>3. PICK i \in Current(item[v].list) : item[v].list[i].blk = b
        BY <2>2, <3>2 DEF HasBlock
      <3>4. HasBlock(item[n].list, b)
        BY <1>1, <2>4, <3>3 DEF Draft
      <3>5. QED
        BY <1>2, <1>10, <3>4
    <2>5. QED
      BY <2>3, <2>4
  <1>14. KeepsOpen => KeepsOpen'
    BY <1>2, <1>8, <1>10 DEF KeepsOpen
  <1>15. QED
    BY <1>10, <1>2, <1>7, <1>12, <1>13, <1>14 DEF Onward, LeakKept, BadKept

\* cafs_lite_unlink() marks the item as one to be discarded.
LEMMA UnlinkStep ==
    ASSUME FTypes, AtUnlink, Write
    PROVE  Onward
  <1>1. PICK v, p, es :
        /\ Promised(item, data, want, v, p) /\ Present(item, data, v)
        /\ Discards(item[v].list, data, v, es)
        /\ todo = Cons(<<"item", v, "DISCARDING">>, es \o R3(v, EndOf(Gone)))
    BY DEF AtUnlink
  <1> DEFINE E == EndOf(Gone)
             R == es \o R3(v, E)
  <1>2. v \in DOMAIN item /\ item[v].st = "CLOSED" /\ Only(item, {v}) /\ mode = "up" /\ Gone \in want
    BY <1>1 DEF Present, Is, AtUnlink
  <1>3. IsSeq(R)
    <2>1. IsSeq(es) /\ IsSeq(R3(v, E))
      BY <1>1, EndIs, ShapesAre DEF Discards
    <2>2. QED
      BY <2>1, JoinIs
  <1> HIDE DEF E, R
  <1>4. todo = Cons(<<"item", v, "DISCARDING">>, R)
    BY <1>1 DEF R, E
  <1>5. todo' = R /\ FTypes' /\ StatusSet(v, "DISCARDING") /\ want' = want
    BY <1>2, <1>3, <1>4, WriteItem DEF Statuses
  <1>6. \A b : Head(todo) # <<"append", b>>
    BY <1>3, <1>4, NoAppend
  <1>7. /\ DOMAIN item' = DOMAIN item /\ data' = data /\ mode' = mode /\ clean' = clean
        /\ \A x1 \in DOMAIN item : /\ item'[x1].list = item[x1].list
                                  /\ item'[x1].st = IF x1 = v THEN "DISCARDING" ELSE item[x1].st
    BY <1>5 DEF StatusSet, SameFiles, Unmoved
  <1>8. Leaving(item', v) /\ Discards(item'[v].list, data', v, es)
    BY <1>1, <1>2, <1>7 DEF Leaving, Only, Is
  <1>9. todo' = es \o R3(v, EndOf(Gone)') /\ Works'
    BY <1>2, <1>5, <1>7 DEF R, E, EndOf, Works, AtUnlink, StatusSet, Unmoved
  <1>10. AtDiscard'
    <2>1. Gone' = Gone /\ Gone \in want'
      BY <1>2, <1>5 DEF Gone
    <2>2. QED
      BY <1>8, <1>9, <2>1 DEF AtDiscard
  <1>11. KeepsClosed => KeepsClosed'
    BY <1>2, <1>7 DEF KeepsClosed, Only
  <1>12. KeepsOpen => KeepsOpen'
    BY <1>2, <1>6, <1>7 DEF KeepsOpen
  <1>13. QED
    BY <1>2, <1>5, <1>7, <1>10, <1>11, <1>12 DEF Onward, Place, LeakKept, BadKept

\* cleanup_file() of a file that was removed goes on to the next write.
LEMMA DiscardStep ==
    ASSUME FTypes, AtDiscard, Write
    PROVE  Onward
  <1>1. PICK v :
        /\ Leaving(item, v)
        /\ \/ \E es : todo = es \o R3(v, EndOf(Gone)) /\ Discards(item[v].list, data, v, es)
           \/ InUse(item[v].list) = {} /\ todo \in {R1(v, EndOf(Gone)), R2(v, EndOf(Gone))}
    BY DEF AtDiscard
  <1> DEFINE E == EndOf(Gone)
  <1>2. IsSeq(E) /\ IsSeq(R1(v, E)) /\ IsSeq(R2(v, E)) /\ IsSeq(R3(v, E))
        /\ R1(v, E) # <<>> /\ R2(v, E) # <<>> /\ R3(v, E) # <<>>
    BY EndIs, ShapesAre
  <1>3. v \in DOMAIN item /\ item[v].st = "DISCARDING" /\ Gone \in want /\ Gone' = Gone
    BY <1>1 DEF Leaving, Is, AtDiscard, Gone
  <1>4. mode' = mode /\ hand' = hand => EndOf(Gone)' = E /\ Works'
    BY <1>3 DEF EndOf, AtDiscard, Works
  <1> HIDE DEF E
  <1>5. ASSUME NEW es, todo = es \o R3(v, E), Discards(item[v].list, data, v, es) PROVE Onward
    <2>1. CASE es = <<>>
      <3>1. todo = R3(v, E) /\ InUse(item[v].list) = {}
        BY <1>2, <1>5, <2>1, JoinIs, DiscardsDone DEF Discards
      <3>2. todo' = R2(v, E) /\ FTypes' /\ ListSet
        BY <1>2, <1>3, <3>1, WriteList DEF R3
      <3>3. \A b : Head(todo) # <<"append", b>>
        BY <1>2, <3>1, NoAppend DEF R3
      <3>4. Leaving(item', v) /\ InUse(item'[v].list) = {} /\ want' = want
        BY <1>1, <1>3, <3>1, <3>2 DEF ListSet, HeaderSet, SameFiles, Leaving, Only, Is
      <3>5. EndOf(Gone)' = E /\ Works'
        BY <1>4, <3>2 DEF ListSet, HeaderSet, Unmoved
      <3>6. AtDiscard'
        BY <1>3, <3>2, <3>4, <3>5 DEF AtDiscard
      <3>7. QED
        BY <1>2, <3>2, <3>3, <3>6, HeaderLeak DEF Onward, Place, ListSet
    <2>2. CASE es # <<>>
      <3>1. /\ FTypes' /\ LeakKept /\ BadKept /\ Unmoved /\ SameFiles /\ want' = want
            /\ \A x1 \in DOMAIN item : item'[x1].st = item[x1].st
            /\ todo' = Tail(es) \o R3(v, E)
            /\ Discards(item'[v].list, data', v, Tail(es))
        BY <1>2, <1>3, <1>5, <2>2, DiscardOne
      <3>2. Leaving(item', v)
        BY <1>1, <1>3, <3>1 DEF SameFiles, Leaving, Only, Is
      <3>3. EndOf(Gone)' = E /\ Works'
        BY <1>4, <3>1 DEF Unmoved
      <3>4. todo' = Tail(es) \o R3(v, EndOf(Gone)')
        BY <3>1, <3>3
      <3>5. AtDiscard'
        BY <1>3, <3>1, <3>2, <3>3, <3>4 DEF AtDiscard
      <3>6. QED
        BY <3>1, <3>5 DEF Onward, Place
    <2>3. QED
      BY <2>1, <2>2
  <1>6. CASE InUse(item[v].list) = {} /\ todo = R2(v, E)
    <2>1. todo' = R1(v, E) /\ FTypes' /\ HeaderSet(v, "DIRTY")
      BY <1>2, <1>3, <1>6, WriteHeader DEF R2
    <2>2. \A b : Head(todo) # <<"append", b>>
      BY <1>2, <1>6, NoAppend DEF R2
    <2>3. Leaving(item', v) /\ InUse(item'[v].list) = {} /\ want' = want
      BY <1>1, <1>3, <1>6, <2>1 DEF HeaderSet, SameFiles, Leaving, Only, Is
    <2>4. EndOf(Gone)' = E /\ Works'
      BY <1>4, <2>1 DEF HeaderSet, Unmoved
    <2>5. AtDiscard'
      BY <1>3, <2>1, <2>3, <2>4 DEF AtDiscard
    <2>6. QED
      BY <1>2, <2>1, <2>2, <2>5, HeaderLeak DEF Onward, Place
  <1>7. CASE InUse(item[v].list) = {} /\ todo = R1(v, E)
    <2>1. todo' = E /\ FTypes' /\ StatusSet(v, "DIRTY") /\ want' = want
      BY <1>2, <1>3, <1>7, WriteItem DEF R1, Statuses
    <2>2. \A b : Head(todo) # <<"append", b>>
      BY <1>2, <1>7, NoAppend DEF R1
    <2>3. Only(item', {})
      BY <1>1, <1>3, <2>1 DEF StatusSet, SameFiles, Leaving, Only
    <2>4. Place'
      BY <1>3, <2>1, <2>3, EndStep DEF StatusSet, AtDiscard, E
    <2>5. QED
      BY <1>3, <1>7, <2>1, <2>2, <2>4, StrikeLeak DEF Onward
  <1>8. QED
    BY <1>1, <1>5, <1>6, <1>7 DEF E

-----------------------------------------------------------------------------
\* Every place has its write, or none.
LEMMA WhitherIs ==
    ASSUME NEW t \in Whither
    PROVE  /\ IsSeq(t) /\ t # <<>> /\ Head(t)[1] \in {"load", "finish"} /\ Tail(t) = <<>>
           /\ Last(t) = Head(t)
           /\ IsSeq(Cons(<<"strike">>, t)) /\ Cons(<<"strike">>, t) # <<>>
           /\ Tail(Cons(<<"strike">>, t)) = t
           /\ \A b : /\ IsSeq(Cons(<<"append">>, Cons(<<"strike">>, t)))
                     /\ Cons(<<"append">>, Cons(<<"strike">>, t)) # <<>>
                     /\ Tail(Cons(<<"append">>, Cons(<<"strike">>, t))) = Cons(<<"strike">>, t)
  <1>1. PICK w : t = <<w>> /\ (w = <<"finish", hand.v>> \/ \E s \in Segs : w = <<"load", s>>)
    BY DEF Whither
  <1>2. <<w>> \in Seq({w}) /\ Head(<<w>>) = w /\ Tail(<<w>>) = <<>> /\ <<w>> # <<>> /\ Len(<<w>>) = 1 /\ <<w>>[1] = w
    OBVIOUS
  <1>3. IsSeq(t) /\ t # <<>> /\ Head(t) = w /\ Tail(t) = <<>> /\ Last(t) = Head(t)
    BY <1>1, <1>2 DEF IsSeq, Last
  <1>4. w[1] \in {"load", "finish"}
    BY <1>1
  <1>5. IsSeq(Cons(<<"strike">>, t)) /\ Cons(<<"strike">>, t) # <<>> /\ Tail(Cons(<<"strike">>, t)) = t
    BY <1>3, ConsIs
  <1>6. /\ IsSeq(Cons(<<"append">>, Cons(<<"strike">>, t)))
        /\ Cons(<<"append">>, Cons(<<"strike">>, t)) # <<>>
        /\ Tail(Cons(<<"append">>, Cons(<<"strike">>, t))) = Cons(<<"strike">>, t)
    BY <1>5, ConsIs
  <1>7. QED
    BY <1>3, <1>4, <1>5, <1>6

\* The first thing to do at each place.
Kinds == {"item", "hdr", "list", "entry", "block"}

\* What starts with status changes of a list starts with a write.
LEMMA MarksHead ==
    ASSUME NEW l, NEW d, NEW v, NEW es, Marks(l, d, v, es) \/ Discards(l, d, v, es),
           NEW T, IsSeq(T), T # <<>>, Head(T)[1] \in Kinds
    PROVE  es \o T # <<>> /\ Head(es \o T)[1] \in Kinds
  <1>1. IsSeq(es)
    BY DEF Marks, Discards
  <1>2. CASE es = <<>>
    BY <1>1, <1>2, JoinIs
  <1>3. CASE es # <<>>
    <2>1. Head(es \o T) = es[1] /\ 1 \in 1 .. Len(es) /\ es \o T # <<>>
      BY <1>1, <1>3, JoinIs, TailIs
    <2>2. (\E b, s : es[1] = <<"block", b, s>>) \/ (\E i : es[1] = <<"entry", v, i, "DIRTY">>)
      BY <2>1 DEF Marks, Discards, Struck
    <2>3. QED
      BY <2>1, <2>2 DEF Kinds
  <1>4. QED
    BY <1>2, <1>3

\* What the calls still have to write starts with a write.
LEMMA ShapeHeads ==
    ASSUME NEW E, IsSeq(E), NEW o, NEW n
    PROVE  /\ Head(R1(o, E))[1] \in Kinds /\ Head(R2(o, E))[1] \in Kinds /\ Head(R3(o, E))[1] \in Kinds
           /\ Head(R4(o, n, E))[1] \in Kinds /\ Head(R5(o, n, E))[1] \in Kinds
           /\ Head(B1(n, E))[1] \in Kinds /\ Head(H(n, E))[1] \in Kinds /\ Head(L(n, E))[1] \in Kinds
  <1>1. Head(R1(o, E))[1] \in Kinds /\ Head(B1(n, E))[1] \in Kinds /\ Head(H(n, E))[1] \in Kinds
    BY ConsIs DEF R1, B1, H, Kinds
  <1>2. Head(R2(o, E))[1] \in Kinds
    <2>1. IsSeq(R1(o, E))
      BY ShapesAre
    <2>2. QED
      BY <2>1, ConsIs DEF R2, Kinds
  <1>3. Head(R3(o, E))[1] \in Kinds
    <2>1. IsSeq(R2(o, E))
      BY ShapesAre
    <2>2. QED
      BY <2>1, ConsIs DEF R3, Kinds
  <1>4. Head(R4(o, n, E))[1] \in Kinds
    <2>1. IsSeq(R3(o, E))
      BY ShapesAre
    <2>2. QED
      BY <2>1, ConsIs DEF R4, Kinds
  <1>5. Head(R5(o, n, E))[1] \in Kinds
    <2>1. IsSeq(R4(o, n, E))
      BY ShapesAre
    <2>2. QED
      BY <2>1, ConsIs DEF R5, Kinds
  <1>6. Head(L(n, E))[1] \in Kinds
    <2>1. IsSeq(H(n, E))
      BY ShapesAre
    <2>2. QED
      BY <2>1, ConsIs DEF L, Kinds
  <1>7. QED
    BY <1>1, <1>2, <1>3, <1>4, <1>5, <1>6

Working == \/ AtRemove \/ AtSwitch \/ AtRepeat \/ AtMark \/ AtBirth \/ AtClosing
           \/ AtUnlink \/ AtDiscard \/ AtForget

\* In the middle of a closing, a removal or a recovery the next step is a write.
LEMMA WorkingIs ==
    ASSUME Working
    PROVE  todo # <<>> /\ Head(todo)[1] \in Kinds
  <1>1. \A c : IsSeq(EndOf(c))
    BY EndIs
  <1>2. IsSeq(<<>>)
    BY <1>1, EndIs DEF EndOf, IsSeq
  <1>3. CASE AtRemove \/ AtSwitch
    BY <1>1, <1>3, ShapesAre, ShapeHeads DEF AtRemove, AtSwitch
  <1>4. CASE AtRepeat
    <2>1. PICK o, n : todo \in {R5(o, n, <<>>), Cons(<<"item", n, "CLOSING">>, R5(o, n, <<>>)), B1(n, <<>>)}
      BY <1>4 DEF AtRepeat
    <2>2. IsSeq(R5(o, n, <<>>))
      BY <1>2, ShapesAre
    <2>3. Cons(<<"item", n, "CLOSING">>, R5(o, n, <<>>)) # <<>>
          /\ Head(Cons(<<"item", n, "CLOSING">>, R5(o, n, <<>>)))[1] \in Kinds
      BY <2>2, ConsIs DEF Kinds
    <2>4. QED
      BY <1>2, <2>1, <2>3, ShapesAre, ShapeHeads
  <1>5. \A c, o, n : /\ IsSeq(R5(o, n, EndOf(c))) /\ IsSeq(B1(n, EndOf(c)))
    BY <1>1, ShapesAre
  <1>6. \A c, o, n : /\ IsSeq(L(n, R5(o, n, EndOf(c)))) /\ L(n, R5(o, n, EndOf(c))) # <<>>
                     /\ Head(L(n, R5(o, n, EndOf(c))))[1] \in Kinds
                     /\ IsSeq(L(n, B1(n, EndOf(c)))) /\ L(n, B1(n, EndOf(c))) # <<>>
                     /\ Head(L(n, B1(n, EndOf(c))))[1] \in Kinds
    BY <1>5, ShapesAre, ShapeHeads
  <1>7. CASE AtMark
    <2>1. PICK n, o, c : \/ \E es : todo = es \o L(n, R5(o, n, EndOf(c))) /\ Marks(item[n].list, data, n, es)
                         \/ todo = H(n, R5(o, n, EndOf(c)))
                         \/ todo = R5(o, n, EndOf(c))
      BY <1>7 DEF AtMark
    <2>2. CASE todo = H(n, R5(o, n, EndOf(c))) \/ todo = R5(o, n, EndOf(c))
      BY <1>1, <1>5, <2>2, ShapesAre, ShapeHeads
    <2>3. ASSUME NEW es, todo = es \o L(n, R5(o, n, EndOf(c))), Marks(item[n].list, data, n, es)
          PROVE  todo # <<>> /\ Head(todo)[1] \in Kinds
      <3>1. PICK T : T = L(n, R5(o, n, EndOf(c)))
        OBVIOUS
      <3>2. IsSeq(T) /\ T # <<>> /\ Head(T)[1] \in Kinds
        BY <1>6, <3>1
      <3>3. QED
        BY <2>3, <3>1, <3>2, MarksHead
    <2>4. QED
      BY <2>1, <2>2, <2>3
  <1>8. CASE AtBirth
    BY <1>1, <1>5, <1>6, <1>8, ShapesAre, ShapeHeads, MarksHead DEF AtBirth
  <1>9. CASE AtClosing
    <2>1. PICK n, es, R : IsSeq(es) /\ IsSeq(R) /\ todo = Cons(<<"item", n, "CLOSING">>, es \o R)
      <3>1. PICK n, c, es, o :
               /\ Marks(item[n].list, data, n, es)
               /\ \/ todo = Cons(<<"item", n, "CLOSING">>, es \o L(n, B1(n, EndOf(c))))
                  \/ todo = Cons(<<"item", n, "CLOSING">>, es \o L(n, R5(o, n, EndOf(c))))
        BY <1>9 DEF AtClosing
      <3>2. IsSeq(es)
        BY <3>1 DEF Marks
      <3>3. IsSeq(L(n, B1(n, EndOf(c)))) /\ IsSeq(L(n, R5(o, n, EndOf(c))))
        BY <1>6
      <3>4. QED
        BY <3>1, <3>2, <3>3
    <2>2. IsSeq(es \o R)
      BY <2>1, JoinIs
    <2>3. QED
      BY <2>1, <2>2, ConsIs DEF Kinds
  <1>10. CASE AtUnlink
    <2>1. PICK v, es, R : IsSeq(es) /\ IsSeq(R) /\ todo = Cons(<<"item", v, "DISCARDING">>, es \o R)
      BY <1>1, <1>10, ShapesAre DEF AtUnlink, Discards
    <2>2. IsSeq(es \o R)
      BY <2>1, JoinIs
    <2>3. QED
      BY <2>1, <2>2, ConsIs DEF Kinds
  <1>11. CASE AtDiscard
    BY <1>1, <1>11, ShapesAre, ShapeHeads, MarksHead DEF AtDiscard
  <1>12. CASE AtForget
    BY <1>2, <1>12, ShapesAre, ShapeHeads DEF AtForget
  <1>13. QED
    BY <1>3, <1>4, <1>7, <1>8, <1>9, <1>10, <1>11, <1>12 DEF Working

\* Where the system is, by what it does next.
LEMMA PlaceIs ==
    ASSUME Place
    PROVE  /\ todo = <<>> => AtRest \/ AtBoot
           /\ todo # <<>> =>
                /\ Head(todo)[1] \in {"load", "finish"} => AtGo
                /\ Head(todo)[1] = "alloc"  => AtAlloc
                /\ Head(todo)[1] = "append" => AtAppend
                /\ Head(todo)[1] = "strike" => AtStrike
                /\ Head(todo)[1] = "settle" => AtSettle
                /\ Head(todo)[1] \in Kinds => Working
  <1>1. AtRest \/ AtBoot => todo = <<>>
    BY DEF AtRest, AtBoot
  <1>2. Working => todo # <<>> /\ Head(todo)[1] \notin {"load", "finish", "alloc", "append", "strike", "settle"}
    BY WorkingIs DEF Kinds
  <1>3. AtGo => todo # <<>> /\ Head(todo)[1] \in {"load", "finish"}
    BY WhitherIs DEF AtGo
  <1>4. AtAlloc => todo # <<>> /\ Head(todo)[1] = "alloc"
    <2>1. SUFFICES ASSUME NEW t \in Whither, todo = Cons(<<"alloc">>, Cons(<<"append">>, Cons(<<"strike">>, t)))
                   PROVE  todo # <<>> /\ Head(todo)[1] = "alloc"
      BY DEF AtAlloc
    <2>2. IsSeq(Cons(<<"append">>, Cons(<<"strike">>, t)))
      BY WhitherIs
    <2>3. Head(todo) = <<"alloc">> /\ todo # <<>>
      BY <2>1, <2>2, ConsIs
    <2>4. QED
      BY <2>3
  <1>5. AtAppend => todo # <<>> /\ Head(todo)[1] = "append"
    <2>1. SUFFICES ASSUME NEW b \in Blocks, NEW t \in Whither, todo = Cons(<<"append", b>>, Cons(<<"strike">>, t))
                   PROVE  todo # <<>> /\ Head(todo)[1] = "append"
      BY DEF AtAppend
    <2>2. IsSeq(Cons(<<"strike">>, t))
      BY WhitherIs
    <2>3. Head(todo) = <<"append", b>> /\ todo # <<>>
      BY <2>1, <2>2, ConsIs
    <2>4. QED
      BY <2>3
  <1>6. AtStrike => todo # <<>> /\ Head(todo)[1] = "strike"
    <2>1. SUFFICES ASSUME NEW i, NEW t \in Whither, todo = Cons(<<"strike", i>>, t)
                   PROVE  todo # <<>> /\ Head(todo)[1] = "strike"
      BY DEF AtStrike
    <2>2. IsSeq(t)
      BY WhitherIs
    <2>3. Head(todo) = <<"strike", i>> /\ todo # <<>>
      BY <2>1, <2>2, ConsIs
    <2>4. QED
      BY <2>3
  <1>7. AtSettle => todo # <<>> /\ Head(todo)[1] = "settle"
    <2>1. SUFFICES ASSUME NEW c, todo = <<<<"settle", c>>>> PROVE todo # <<>> /\ Head(todo)[1] = "settle"
      BY DEF AtSettle
    <2>2. Head(todo)[1] = "settle"
      BY <2>1
    <2>3. QED
      BY <2>1, <2>2
  <1>8. AtRest \/ AtBoot \/ Working \/ AtGo \/ AtAlloc \/ AtAppend \/ AtStrike \/ AtSettle
    BY DEF Place, Working
  <1>9. CASE AtRest \/ AtBoot
    BY <1>1, <1>9
  <1>10. CASE Working
    BY <1>2, <1>10
  <1>11. CASE AtGo
    BY <1>3, <1>11 DEF Kinds
  <1>12. CASE AtAlloc
    BY <1>4, <1>12 DEF Kinds
  <1>13. CASE AtAppend
    BY <1>5, <1>13 DEF Kinds
  <1>14. CASE AtStrike
    BY <1>6, <1>14 DEF Kinds
  <1>15. CASE AtSettle
    BY <1>7, <1>15 DEF Kinds
  <1>16. QED
    BY <1>8, <1>9, <1>10, <1>11, <1>12, <1>13, <1>14, <1>15

\* Each write leads from a place to a place.
LEMMA WriteStep ==
    ASSUME FTypes, Place, Write
    PROVE  Onward /\ bad' = bad /\ mishaps' = mishaps
  <1>1. todo # <<>> /\ Head(todo)[1] \in Kinds /\ bad' = bad /\ mishaps' = mishaps
    BY DEF Write, Kinds
  <1>2. Working
    BY <1>1, PlaceIs
  <1>3. QED
    BY <1>1, <1>2, RemoveStep, SwitchStep, RepeatStep, MarkStep, BirthStep,
       ClosingStep, UnlinkStep, DiscardStep, ForgetStep DEF Working

-----------------------------------------------------------------------------
\* The calls of a client up to the closing of the file.

\* Nothing changes but versions that are open and blocks that are not closed.
KeptFiles ==
    /\ \A x1 \in DOMAIN item : item[x1].st # "OPEN" => x1 \in DOMAIN item' /\ item'[x1] = item[x1]
    /\ \A x1 \in DOMAIN item' : item'[x1].st # "OPEN" => x1 \in DOMAIN item /\ item'[x1] = item[x1]
    /\ \A b \in Blocks : data[b].st = "CLOSED" => data'[b] = data[b]
    /\ want' = want

\* A step that leaves the closed versions alone leaves the file settled.
LEMMA SettledKept ==
    ASSUME FTypes, KeptFiles, Settled(item, data, want)
    PROVE  Settled(item', data', want')
  <1>1. ASSUME NEW S, Only(item, S) PROVE Only(item', S)
    BY <1>1 DEF Only, KeptFiles
  <1>2. CASE Only(item, {}) /\ Gone \in want
    BY <1>1, <1>2 DEF Settled, KeptFiles
  <1>3. ASSUME NEW v, NEW c, Promised(item, data, want, v, c), Present(item, data, v)
        PROVE  Promised(item', data', want', v, c) /\ Present(item', data', v)
    <2>1. v \in DOMAIN item /\ item[v].st = "CLOSED"
      BY <1>3 DEF Present, Is
    <2>2. v \in DOMAIN item' /\ item'[v] = item[v]
      BY <2>1 DEF KeptFiles
    <2> DEFINE l == item[v].list
    <2>3. \A i \in Current(l) : l[i].blk \in Blocks /\ data[l[i].blk].st = "CLOSED"
      <3>1. \A i \in Current(l) : i \in DOMAIN l /\ l[i] \in EntryRec
        BY <2>1, ItemsAre DEF Current
      <3>2. QED
        BY <1>3, <3>1 DEF Present, Whole, EntryRec
    <2>4. \A i \in Current(l) : data'[l[i].blk] = data[l[i].blk]
      BY <2>3 DEF KeptFiles
    <2>5. Whole(l, data')
      BY <1>3, <2>4 DEF Present, Whole
    <2>6. Reads(l, data', c)
      BY <1>3, <2>4, ReadsSame DEF Promised
    <2>7. QED
      BY <1>1, <1>3, <2>1, <2>2, <2>5, <2>6 DEF Present, Promised, Is, KeptFiles
  <1>4. QED
    BY <1>2, <1>3 DEF Settled

\* The return of a call leaves the file with its new contents only.
LEMMA SettleStep ==
    ASSUME FTypes, Place, Settle
    PROVE  Onward
  <1>1. /\ mode = "up" /\ mode' = "up" /\ want' = {Head(todo)[2]} /\ todo' = Tail(todo)
        /\ item' = item /\ data' = data /\ hand' = hand /\ clean' = clean /\ bad' = bad /\ count' = count
        /\ todo # <<>> /\ Head(todo)[1] = "settle"
    BY DEF Settle, disk
  <1>2. AtSettle
    BY <1>1, PlaceIs
  <1>3. FTypes'
    BY <1>1 DEF FTypes
  <1>4. \A c : /\ Head(<<<<"settle", c>>>>)[2] = c /\ Tail(<<<<"settle", c>>>>) = <<>>
    OBVIOUS
  <1>5. todo' = <<>> /\ Settled(item', data', want')
    <2>1. CASE todo = <<<<"settle", Gone>>>> /\ Only(item, {}) /\ Gone \in want
      <3>1. Gone' = Gone
        BY DEF Gone
      <3>2. QED
        BY <1>1, <1>4, <2>1, <3>1 DEF Settled
    <2>2. CASE \E v, c : /\ todo = <<<<"settle", c>>>> /\ Present(item, data, v)
                         /\ Promised(item, data, want, v, c)
      <3>1. PICK v, c : /\ todo = <<<<"settle", c>>>> /\ Present(item, data, v)
                        /\ Promised(item, data, want, v, c)
        BY <2>2
      <3>2. todo' = <<>> /\ want' = {c}
        BY <1>1, <1>4, <3>1
      <3>3. Promised(item', data', want', v, c) /\ Present(item', data', v)
        BY <1>1, <3>1, <3>2 DEF Promised
      <3>4. QED
        BY <3>2, <3>3 DEF Settled
    <2>3. QED
      BY <1>2, <2>1, <2>2 DEF AtSettle
  <1>6. AtRest'
    BY <1>1, <1>2, <1>5 DEF AtRest, AtSettle
  <1>7. LeakKept
    <2>1. \A b : Head(todo) # <<"append", b>>
      BY <1>1
    <2>2. KeepsClosed => KeepsClosed'
      BY <1>1 DEF KeepsClosed
    <2>3. KeepsOpen => KeepsOpen'
      BY <1>1, <2>1 DEF KeepsOpen
    <2>4. QED
      BY <2>2, <2>3 DEF LeakKept
  <1>8. QED
    BY <1>1, <1>3, <1>6, <1>7 DEF Onward, Place, BadKept

\* A step that leaves the flash alone and enters no block.
LEMMA IdleLeak ==
    ASSUME item' = item, data' = data, mode = "up", mode' = "up", clean' = clean,
           todo = <<>> \/ \A b : Head(todo) # <<"append", b>>
    PROVE  LeakKept /\ BadKept
  <1>1. KeepsClosed => KeepsClosed'
    BY DEF KeepsClosed
  <1>2. KeepsOpen => KeepsOpen'
    BY DEF KeepsOpen
  <1>3. QED
    BY <1>1, <1>2 DEF LeakKept, BadKept

\* cl_file_loadsegment() touches the buffer alone.
LEMMA LoadStep ==
    ASSUME FTypes, Place, LoadSegment
    PROVE  Onward
  <1>1. /\ mode = "up" /\ mode' = "up" /\ want' = want /\ todo' = Tail(todo)
        /\ item' = item /\ data' = data /\ clean' = clean /\ bad' = bad /\ count' = count
        /\ todo # <<>> /\ Head(todo)[1] = "load"
        /\ hand' = [hand EXCEPT !.seg = Head(todo)[2], !.val = count, !.dirty = TRUE]
    BY DEF LoadSegment, disk
  <1>2. AtGo
    BY <1>1, PlaceIs
  <1>3. PICK s \in Segs : todo = <<<<"load", s>>>>
    BY <1>1, <1>2 DEF AtGo, Whither
  <1>4. Head(todo)[2] = s /\ Tail(todo) = <<>>
    BY <1>3
  <1>5. hand' = [hand EXCEPT !.seg = s, !.val = count, !.dirty = TRUE] /\ hand \in HandRec
    BY <1>1, <1>4 DEF FTypes
  <1>6. hand' \in HandRec /\ hand'.v = hand.v /\ hand'.seg \in Segs
    BY <1>5 DEF HandRec, FTypes
  <1>7. FTypes'
    BY <1>1, <1>6 DEF FTypes
  <1>8. AtRest'
    BY <1>1, <1>2, <1>4, <1>6 DEF AtRest, AtGo, Handle
  <1>9. \A b : Head(todo) # <<"append", b>>
    BY <1>1
  <1>10. QED
    BY <1>1, <1>7, <1>8, <1>9, IdleLeak DEF Onward, Place

\* cafs_lite_write() into the buffered segment touches the buffer alone.
LEMMA WriteSameStep ==
    ASSUME FTypes, Place, NEW s \in Segs, WriteSame(s)
    PROVE  Onward
  <1>1. /\ mode = "up" /\ mode' = "up" /\ want' = want /\ todo' = <<>> /\ todo = <<>>
        /\ item' = item /\ data' = data /\ clean' = clean /\ bad' = bad /\ count' = count
        /\ hand' = [hand EXCEPT !.val = count, !.dirty = TRUE] /\ hand.seg = s /\ hand.v # 0
    BY DEF WriteSame, disk, Idle
  <1>2. AtRest /\ hand # NoHand
    BY <1>1, PlaceIs DEF AtBoot, NoHand
  <1>3. hand' \in HandRec /\ hand'.v = hand.v /\ hand'.seg \in Segs
    <2>1. hand \in HandRec /\ count \in 0 .. MaxItems
      BY DEF FTypes
    <2>2. QED
      BY <1>1, <2>1 DEF HandRec
  <1>4. FTypes'
    BY <1>1, <1>3 DEF FTypes
  <1>5. AtRest'
    BY <1>1, <1>2, <1>3 DEF AtRest, Handle
  <1>6. QED
    BY <1>1, <1>4, <1>5, IdleLeak DEF Onward, Place

\* The three steps of cl_file_savesegment() come before the rest of the call.
LEMMA SavingIs ==
    ASSUME NEW t \in Whither
    PROVE  Saving \o t = IF hand.dirty THEN Cons(<<"alloc">>, Cons(<<"append">>, Cons(<<"strike">>, t))) ELSE t
  <1>1. PICK w : t = <<w>>
    BY DEF Whither
  <1>2. CASE hand.dirty
    BY <1>1, <1>2 DEF Saving, Cons
  <1>3. CASE ~hand.dirty
    BY <1>1, <1>3 DEF Saving
  <1>4. QED
    BY <1>2, <1>3

\* A segment is saved before another is loaded or the file is closed.
LEMMA GoStep ==
    ASSUME FTypes, Place, NEW t \in Whither, Idle, hand.v # 0, todo' = Saving \o t,
           UNCHANGED disk, UNCHANGED <<mode, hand, clean, bad, want, mishaps, count, crashes>>
    PROVE  Onward
  <1>1. /\ mode = "up" /\ mode' = "up" /\ want' = want /\ todo = <<>>
        /\ item' = item /\ data' = data /\ clean' = clean /\ bad' = bad /\ count' = count
        /\ hand' = hand
    BY DEF disk, Idle
  <1>2. AtRest /\ hand # NoHand
    BY <1>1, PlaceIs DEF AtBoot, NoHand
  <1>3. FTypes'
    BY <1>1 DEF FTypes
  <1>4. t \in Whither'
    BY <1>1 DEF Whither
  <1>5. Settled(item', data', want') /\ Handle' /\ Segments(item'[hand'.v].list, 0) /\ mode' = "up"
    BY <1>1, <1>2 DEF AtRest, Handle
  <1>6. CASE hand.dirty
    <2>1. todo' = Cons(<<"alloc">>, Cons(<<"append">>, Cons(<<"strike">>, t)))
      BY <1>6, SavingIs
    <2>2. AtAlloc'
      BY <1>1, <1>4, <1>5, <1>6, <2>1 DEF AtAlloc
    <2>3. QED
      BY <1>1, <1>3, <2>2, IdleLeak DEF Onward, Place
  <1>7. CASE ~hand.dirty
    <2>1. todo' = t
      BY <1>7, SavingIs
    <2>2. AtGo'
      BY <1>1, <1>4, <1>5, <2>1 DEF AtGo
    <2>3. QED
      BY <1>1, <1>3, <2>2, IdleLeak DEF Onward, Place
  <1>8. QED
    BY <1>6, <1>7

\* cafs_lite_write() into another segment saves the buffered one first.
LEMMA WriteOtherStep ==
    ASSUME FTypes, Place, NEW s \in Segs, WriteOther(s)
    PROVE  Onward
  <1>1. <<<<"load", s>>>> \in Whither
    BY DEF Whither
  <1>2. QED
    BY <1>1, GoStep DEF WriteOther

\* cl_file_close() saves the buffered segment first.
LEMMA CloseStep ==
    ASSUME FTypes, Place, Close
    PROVE  Onward
  <1>1. <<<<"finish", hand.v>>>> \in Whither
    BY DEF Whither
  <1>2. QED
    BY <1>1, GoStep DEF Close

\* The version of the handle when it changes hands.
LEMMA DraftIs ==
    ASSUME FTypes, Handle
    PROVE  /\ hand.v \in DOMAIN item /\ item[hand.v].st = "OPEN"
           /\ item[hand.v].list \in Seq(EntryRec) /\ item[hand.v] \in ItemRec
           /\ Current(item[hand.v].list) \subseteq InUse(item[hand.v].list)
           /\ InUse(item[hand.v].list) \subseteq DOMAIN item[hand.v].list
           /\ \A i \in DOMAIN item[hand.v].list : item[hand.v].list[i] \in EntryRec
  <1>1. hand.v \in DOMAIN item /\ item[hand.v].st = "OPEN"
    BY DEF Handle, Draft, Is
  <1>2. QED
    BY <1>1, ItemsAre DEF ItemRec, Current, InUse

\* cl_block_alloc() takes a block of no version, or the call ends.
LEMMA AllocStep ==
    ASSUME FTypes, Place, SaveAlloc
    PROVE  Onward
  <1> DEFINE free  == {b \in Blocks : data[b].st = "FREE"}
             dirty == {b \in Blocks : data[b].st = "DIRTY"}
  <1>1. /\ mode = "up" /\ mode' = "up" /\ want' = want /\ todo # <<>> /\ Head(todo)[1] = "alloc"
        /\ item' = item /\ clean' = clean /\ bad' = bad /\ count' = count
    BY DEF SaveAlloc
  <1>2. AtAlloc
    BY <1>1, PlaceIs
  <1>3. PICK t \in Whither : todo = Cons(<<"alloc">>, Cons(<<"append">>, Cons(<<"strike">>, t)))
    BY <1>2 DEF AtAlloc
  <1>4. /\ Settled(item, data, want) /\ Handle /\ hand.dirty
        /\ Segments(item[hand.v].list, 0)
    BY <1>2 DEF AtAlloc
  <1>5. hand \in HandRec
    BY DEF FTypes
  <1>6. \A b : Head(todo) # <<"append", b>>
    BY <1>1
  <1>7. CASE /\ todo' = <<>>
             /\ hand' = IF Last(todo)[1] = "finish" THEN NoHand ELSE hand
             /\ data' = data
    <2>1. NoHand \in HandRec
      BY CafsFileAssumption DEF NoHand, HandRec
    <2>2. hand' = NoHand \/ hand' = hand
      BY <1>7
    <2>3. FTypes'
      BY <1>1, <1>5, <1>7, <2>1, <2>2 DEF FTypes
    <2>4. AtRest'
      BY <1>1, <1>4, <1>7, <2>2 DEF AtRest, Handle
    <2>5. QED
      BY <1>1, <1>6, <1>7, <2>3, <2>4, IdleLeak DEF Onward, Place
  <1>8. CASE \E b \in IF free # {} THEN {Min(free)} ELSE dirty :
                    /\ data' = [data EXCEPT ![b] = [st |-> "OPEN", val |-> hand.val]]
                    /\ todo' = <<<<"append", b>>>> \o Tail(Tail(todo))
                    /\ hand' = hand
    <2>1. PICK b \in IF free # {} THEN {Min(free)} ELSE dirty :
                    /\ data' = [data EXCEPT ![b] = [st |-> "OPEN", val |-> hand.val]]
                    /\ todo' = <<<<"append", b>>>> \o Tail(Tail(todo))
                    /\ hand' = hand
      BY <1>8
    <2>2. b \in Blocks /\ data[b].st \in {"FREE", "DIRTY"}
      <3>1. free \in SUBSET Nat
        BY CafsFileAssumption
      <3>2. \A x \in free : x \in Blocks /\ data[x].st = "FREE"
        OBVIOUS
      <3>3. \A x \in dirty : x \in Blocks /\ data[x].st = "DIRTY"
        OBVIOUS
      <3> HIDE DEF free, dirty
      <3>4. free # {} => Min(free) \in free
        BY <3>1, MinIs
      <3>5. b \in free \/ b \in dirty
        BY <2>1, <3>4
      <3>6. QED
        BY <3>2, <3>3, <3>5
    <2> HIDE DEF free, dirty
    <2>3. [st |-> "OPEN", val |-> hand.val] \in BlockRec
      BY <1>5 DEF HandRec, BlockRec
    <2>4. data' \in [Blocks -> BlockRec] /\ data'[b].st = "OPEN"
          /\ \A x \in Blocks : x # b => data'[x] = data[x]
      BY <2>1, <2>2, <2>3 DEF FTypes
    <2>5. FTypes'
      BY <1>1, <2>1, <2>4 DEF FTypes
    <2>6. KeptFiles
      BY <1>1, <2>2, <2>4 DEF KeptFiles
    <2>7. Settled(item', data', want')
      BY <1>4, <2>6, SettledKept
    <2>8. \A i \in InUse(item[hand.v].list) : /\ item[hand.v].list[i].blk \in Blocks
                                              /\ data[item[hand.v].list[i].blk].st \in {"OPEN", "CLOSED"}
      BY <1>4, DraftIs DEF Handle, Draft, EntryRec
    <2>9. ~HasBlock(item[hand.v].list, b)
      BY <2>2, <2>8 DEF HasBlock
    <2>10. \A i \in InUse(item[hand.v].list) : data'[item[hand.v].list[i].blk].st \in {"OPEN", "CLOSED"}
      BY <2>2, <2>4, <2>8
    <2>11. Handle'
      BY <1>1, <1>4, <2>1, <2>10 DEF Handle, Draft
    <2>12. todo' = Cons(<<"append", b>>, Cons(<<"strike">>, t)) /\ todo' # <<>> /\ Head(todo') = <<"append", b>>
      <3>1. Tail(todo) = Cons(<<"append">>, Cons(<<"strike">>, t))
        <4>1. IsSeq(Cons(<<"append">>, Cons(<<"strike">>, t)))
          BY WhitherIs
        <4>2. QED
          BY <1>3, <4>1, ConsIs
      <3>2. Tail(Tail(todo)) = Cons(<<"strike">>, t) /\ IsSeq(Cons(<<"strike">>, t))
        BY <3>1, WhitherIs
      <3>3. todo' = Cons(<<"append", b>>, Cons(<<"strike">>, t))
        BY <2>1, <3>2 DEF Cons
      <3>4. QED
        BY <3>2, <3>3, ConsIs
    <2>13. t \in Whither'
      BY <2>1 DEF Whither
    <2>14. AtAppend'
      BY <1>1, <1>4, <2>1, <2>2, <2>4, <2>7, <2>9, <2>11, <2>12, <2>13 DEF AtAppend
    <2>15. KeepsClosed => KeepsClosed'
      BY <1>1, <2>2, <2>4 DEF KeepsClosed
    <2>16. KeepsOpen => KeepsOpen'
      BY <1>1, <1>6, <2>2, <2>4, <2>12 DEF KeepsOpen
    <2>17. QED
      BY <1>1, <2>5, <2>14, <2>15, <2>16 DEF Onward, Place, LeakKept, BadKept
  <1>9. QED
    BY <1>7, <1>8, Zenon DEF SaveAlloc

\* cl_filelist_update() enters the new block in the list of the draft.
LEMMA AppendStep ==
    ASSUME FTypes, Place, SaveAppend
    PROVE  Onward
  <1> DEFINE h == hand.v
             l == item[h].list
             b == Head(todo)[2]
             e == [seg |-> hand.seg, blk |-> b, st |-> "CURRENT"]
             m == Append(l, e)
             i == Entry(h, hand.seg)
  <1>1. /\ mode = "up" /\ mode' = "up" /\ want' = want /\ todo # <<>> /\ Head(todo)[1] = "append"
        /\ data' = data /\ clean' = clean /\ bad' = bad /\ count' = count /\ hand' = hand
        /\ item' = [item EXCEPT ![h] = [item[h] EXCEPT !.list = m]]
        /\ todo' = <<<<"strike", i>>>> \o Tail(Tail(todo))
    BY DEF SaveAppend
  <1>2. AtAppend
    BY <1>1, PlaceIs
  <1>3. PICK x \in Blocks, t \in Whither :
            /\ todo = Cons(<<"append", x>>, Cons(<<"strike">>, t))
            /\ data[x].st = "OPEN" /\ ~HasBlock(l, x)
    BY <1>2 DEF AtAppend
  <1>4. IsSeq(Cons(<<"strike">>, t)) /\ Tail(Cons(<<"strike">>, t)) = t /\ IsSeq(t)
    BY WhitherIs
  <1>5. b = x /\ todo' = Cons(<<"strike", i>>, t) /\ Head(todo) = <<"append", x>>
    <2>1. Head(todo) = <<"append", x>> /\ Tail(todo) = Cons(<<"strike">>, t)
      BY <1>3, <1>4, ConsIs
    <2>2. <<"append", x>>[2] = x
      OBVIOUS
    <2>3. Tail(Tail(todo)) = t
      BY <1>4, <2>1
    <2> HIDE DEF i
    <2>4. QED
      BY <1>1, <2>1, <2>2, <2>3 DEF Cons
  <1>6. /\ Settled(item, data, want) /\ Handle /\ hand.dirty /\ hand.seg \in Segs
        /\ Segments(l, 0)
    BY <1>2 DEF AtAppend, Handle
  <1>7. /\ h \in DOMAIN item /\ item[h].st = "OPEN" /\ l \in Seq(EntryRec) /\ item[h] \in ItemRec
        /\ \A j \in DOMAIN l : l[j] \in EntryRec
        /\ Current(l) \subseteq InUse(l) /\ InUse(l) \subseteq DOMAIN l
    BY <1>6, DraftIs
  <1>8. e \in EntryRec /\ e.seg = hand.seg /\ e.blk = x /\ e.st = "CURRENT"
    BY <1>3, <1>5, <1>6 DEF EntryRec
  <1>9. \/ i = 0 /\ \A j \in Current(l) : l[j].seg # hand.seg
        \/ i \in Current(l) /\ l[i].seg = hand.seg
    <2>1. h \in DOMAIN item
      BY <1>7
    <2>2. QED
      BY <2>1, EntryIs, Zenon
  <1> DEFINE n == Len(l) + 1
  <1> HIDE DEF i, b, e
  <1>10. /\ m \in Seq(EntryRec) /\ DOMAIN m = DOMAIN l \cup {n} /\ m[n] = e /\ n \notin DOMAIN l /\ n # 0
         /\ \A j \in DOMAIN l : m[j] = l[j]
    BY <1>7, <1>8
  <1> HIDE DEF n, m, l
  <1>11. Current(m) = Current(l) \cup {n} /\ InUse(m) = InUse(l) \cup {n} /\ n \notin InUse(l) /\ n \notin Current(l)
    BY <1>7, <1>8, <1>10 DEF Current, InUse
  <1>12. \A y : HasBlock(l, y) => HasBlock(m, y)
    BY <1>7, <1>10, <1>11 DEF HasBlock
  <1>13. HasBlock(m, x)
    BY <1>8, <1>10, <1>11 DEF HasBlock
  <1>14. OwnBlocks(m)
    <2>1. OwnBlocks(l) /\ \A j \in InUse(l) : l[j].blk # x
      BY <1>3, <1>6 DEF Handle, Draft, HasBlock, l
    <2>2. \A j \in InUse(l) : m[j].blk = l[j].blk /\ m[n].blk = x
      BY <1>7, <1>8, <1>10
    <2>3. QED
      BY <1>7, <1>11, <2>1, <2>2 DEF OwnBlocks
  <1>15. Segments(m, i)
    <2>1. \A j \in Current(l) : m[j].seg = l[j].seg /\ m[n].seg = hand.seg
      BY <1>7, <1>8, <1>10
    <2>2. \A j \in Current(l) : j # i => l[j].seg # hand.seg
      <3>1. CASE i = 0 /\ \A j \in Current(l) : l[j].seg # hand.seg
        BY <3>1
      <3>2. CASE i \in Current(l) /\ l[i].seg = hand.seg
        <4>1. 0 \notin Current(l)
          BY <1>7 DEF Current
        <4>2. QED
          BY <1>6, <3>2, <4>1 DEF Segments
      <3>3. QED
        BY <1>9, <3>1, <3>2 DEF l
    <2>3. \A j, z \in Current(l) : j # i /\ z # i /\ l[j].seg = l[z].seg => j = z
      <3>1. 0 \notin Current(l)
        BY <1>7 DEF Current
      <3>2. QED
        BY <1>6, <3>1 DEF Segments
    <2>4. QED
      BY <1>11, <2>1, <2>2, <2>3 DEF Segments
  <1>16. item' \in Seq(ItemRec) /\ DOMAIN item' = DOMAIN item
         /\ item'[h].list = m /\ item'[h].st = "OPEN" /\ item'[h].hst = item[h].hst /\ item'[h].sn = item[h].sn
         /\ \A x1 \in DOMAIN item : x1 # h => item'[x1] = item[x1]
    <2>1. [item[h] EXCEPT !.list = m] \in ItemRec
      BY <1>7, <1>10 DEF ItemRec
    <2>2. item \in Seq(ItemRec)
      BY DEF FTypes
    <2>3. item' \in Seq(ItemRec) /\ DOMAIN item' = DOMAIN item
      BY <1>1, <1>7, <2>1, <2>2
    <2>4. QED
      BY <1>1, <1>7, <2>3 DEF ItemRec
  <1>17. FTypes'
    BY <1>1, <1>16 DEF FTypes
  <1>18. Settled(item', data', want')
    <2>1. KeptFiles
      BY <1>1, <1>7, <1>16 DEF KeptFiles
    <2>2. QED
      BY <1>6, <2>1, SettledKept
  <1>19. Draft(item', data', h)
    <2>1. \A j \in InUse(m) : data[m[j].blk].st \in {"OPEN", "CLOSED"}
      BY <1>3, <1>6, <1>7, <1>8, <1>10, <1>11 DEF Handle, Draft, l
    <2>2. \A o \in DOMAIN item' : item'[o].st = "CLOSED" => o \in DOMAIN item /\ item'[o] = item[o] /\ o # h
      BY <1>16
    <2>3. Draft(item, data, h)
      BY <1>6 DEF Handle
    <2>4. \A o \in DOMAIN item' : item'[o].st = "CLOSED" =>
             /\ item'[o].sn = item'[h].sn
             /\ \A j \in Current(item'[o].list) : HasBlock(m, item'[o].list[j].blk)
      BY <1>12, <1>16, <2>2, <2>3 DEF Draft, l
    <2>5. h \in DOMAIN item' /\ item'[h].st = "OPEN" /\ item'[h].hst = "OPEN" /\ item'[h].list = m /\ data' = data
      BY <1>1, <1>7, <1>16, <2>3 DEF Draft
    <2> HIDE DEF h
    <2>6. QED
      BY <1>14, <2>1, <2>4, <2>5 DEF Draft, Is
  <1>20. i \in {0} \cup Current(m) /\ t \in Whither'
    BY <1>1, <1>9, <1>11 DEF Whither, l
  <1>21. AtStrike'
    <2>1. hand' = hand /\ hand'.v = h
      BY <1>1
    <2>2. Handle'
      <3>1. hand'.seg \in Segs
        BY <1>6, <2>1
      <3>2. QED
        BY <1>19, <2>1, <3>1, Zenon DEF Handle
    <2>3. Segments(item'[hand'.v].list, i) /\ Current(item'[hand'.v].list) = Current(m)
      <3>1. item'[hand'.v].list = m
        BY <1>16, <2>1, Zenon
      <3>2. QED
        BY <1>15, <3>1, Zenon
    <2>4. mode' = "up" /\ hand'.dirty
      BY <1>1, <1>5, <1>6
    <2>5. \E j \in {0} \cup Current(item'[hand'.v].list) :
             /\ \E y \in Whither' : todo' = Cons(<<"strike", j>>, y)
             /\ Segments(item'[hand'.v].list, j)
      <3>1. i \in {0} \cup Current(item'[hand'.v].list)
        BY <1>20, <2>3, Zenon
      <3>2. todo' = Cons(<<"strike", i>>, t)
        BY <1>5, Zenon
      <3>3. QED
        BY <1>20, <2>3, <3>1, <3>2, Zenon
    <2>6. QED
      BY <1>18, <2>2, <2>4, <2>5, Zenon DEF AtStrike
  <1>22. \A x1 \in DOMAIN item : \A y \in Blocks : HasBlock(item[x1].list, y) => HasBlock(item'[x1].list, y)
    BY <1>12, <1>16 DEF l
  <1>23. \A x1 \in DOMAIN item : item'[x1].st = item[x1].st
    BY <1>7, <1>16
  <1>24. KeepsClosed => KeepsClosed'
    BY <1>1, <1>16, <1>22, <1>23 DEF KeepsClosed
  <1>25. KeepsOpen => KeepsOpen'
    <2>1. SUFFICES ASSUME KeepsOpen, NEW y \in Blocks, data[y].st = "OPEN"
                   PROVE  \E v \in DOMAIN item' : item'[v].st \in {"OPEN", "CLOSING"} /\ HasBlock(item'[v].list, y)
      BY <1>1 DEF KeepsOpen
    <2>2. CASE \E v \in DOMAIN item : item[v].st \in {"OPEN", "CLOSING"} /\ HasBlock(item[v].list, y)
      BY <1>16, <1>22, <1>23, <2>2
    <2>3. CASE Head(todo) = <<"append", y>>
      <3>1. y = x
        BY <1>5, <2>3
      <3>2. QED
        BY <1>7, <1>13, <1>16, <3>1
    <2>4. QED
      BY <1>1, <2>1, <2>2, <2>3 DEF KeepsOpen
  <1>26. QED
    BY <1>1, <1>17, <1>21, <1>24, <1>25 DEF Onward, Place, LeakKept, BadKept

\* cl_filelist_update() gives up the entry that the new one replaces.
LEMMA StrikeStep ==
    ASSUME FTypes, Place, SaveStrike
    PROVE  Onward
  <1> DEFINE h == hand.v
             l == item[h].list
             j == Head(todo)[2]
  <1>1. /\ mode = "up" /\ mode' = "up" /\ want' = want /\ todo # <<>> /\ Head(todo)[1] = "strike"
        /\ data' = data /\ clean' = clean /\ bad' = bad /\ count' = count
        /\ hand' = [hand EXCEPT !.dirty = FALSE]
        /\ item' = IF j = 0 THEN item ELSE [item EXCEPT ![h].list[j].st = "OBSOLETE"]
        /\ todo' = Tail(todo)
    BY DEF SaveStrike
  <1>2. AtStrike
    BY <1>1, PlaceIs
  <1>3. PICK i \in {0} \cup Current(l) : /\ \E t \in Whither : todo = Cons(<<"strike", i>>, t)
                                         /\ Segments(l, i)
    BY <1>2 DEF AtStrike
  <1>4. PICK t \in Whither : todo = Cons(<<"strike", i>>, t)
    BY <1>3
  <1>5. j = i /\ todo' = t
    <2>1. IsSeq(t)
      BY WhitherIs
    <2>2. Head(todo) = <<"strike", i>> /\ Tail(todo) = t
      BY <1>4, <2>1, ConsIs
    <2>3. QED
      BY <1>1, <2>2
  <1>6. Settled(item, data, want) /\ Handle
    BY <1>2 DEF AtStrike
  <1>7. /\ h \in DOMAIN item /\ item[h].st = "OPEN" /\ l \in Seq(EntryRec) /\ item[h] \in ItemRec
        /\ \A z \in DOMAIN l : l[z] \in EntryRec
        /\ Current(l) \subseteq InUse(l) /\ InUse(l) \subseteq DOMAIN l
    BY <1>6, DraftIs
  <1>8. hand' \in HandRec /\ hand'.v = h /\ ~hand'.dirty
    <2>1. hand \in HandRec
      BY DEF FTypes
    <2>2. QED
      BY <1>1, <2>1 DEF HandRec
  <1>9. \A b : Head(todo) # <<"append", b>>
    BY <1>1
  <1>10. t \in Whither'
    BY <1>8 DEF Whither
  <1> HIDE DEF j
  <1>11. CASE i = 0
    <2>1. item' = item
      BY <1>1, <1>5, <1>11
    <2>2. FTypes'
      BY <1>1, <1>8, <2>1 DEF FTypes
    <2>3. Segments(l, 0)
      BY <1>3, <1>11
    <2>4. AtGo'
      BY <1>1, <1>5, <1>6, <1>8, <1>10, <2>1, <2>3 DEF AtGo, Handle
    <2>5. QED
      BY <1>1, <1>9, <2>1, <2>2, <2>4, IdleLeak DEF Onward, Place
  <1>12. CASE i # 0
    <2> DEFINE m == [l EXCEPT ![i].st = "OBSOLETE"]
    <2>1. i \in DOMAIN l /\ i \in Current(l)
      BY <1>3, <1>7, <1>12
    <2>2. item' = [item EXCEPT ![h] = [item[h] EXCEPT !.list = m]]
      BY <1>1, <1>5, <1>12
    <2>3. m = [l EXCEPT ![i] = [l[i] EXCEPT !.st = "OBSOLETE"]]
      OBVIOUS
    <2> HIDE DEF m, l
    <2>4. [l[i] EXCEPT !.st = "OBSOLETE"] \in EntryRec
      BY <1>7, <2>1 DEF EntryRec
    <2>5. /\ m \in Seq(EntryRec) /\ DOMAIN m = DOMAIN l
          /\ \A z \in DOMAIN l : m[z] = IF z = i THEN [l[i] EXCEPT !.st = "OBSOLETE"] ELSE l[z]
      BY <1>7, <2>1, <2>3, <2>4
    <2>6. \A z \in DOMAIN l : /\ m[z].blk = l[z].blk /\ m[z].seg = l[z].seg
                              /\ m[z].st = IF z = i THEN "OBSOLETE" ELSE l[z].st
      BY <1>7, <2>1, <2>5 DEF EntryRec
    <2>7. InUse(m) = InUse(l) /\ Current(m) = Current(l) \ {i}
      BY <2>1, <2>5, <2>6 DEF InUse, Current
    <2>8. \A y : HasBlock(m, y) <=> HasBlock(l, y)
      BY <1>7, <2>6, <2>7 DEF HasBlock
    <2>9. Segments(m, 0)
      BY <1>3, <1>7, <2>6, <2>7 DEF Segments, l
    <2>10. item' \in Seq(ItemRec) /\ DOMAIN item' = DOMAIN item
         /\ item'[h].list = m /\ item'[h].st = "OPEN" /\ item'[h].hst = item[h].hst /\ item'[h].sn = item[h].sn
         /\ \A x1 \in DOMAIN item : x1 # h => item'[x1] = item[x1]
      <3>1. [item[h] EXCEPT !.list = m] \in ItemRec
        BY <1>7, <2>5 DEF ItemRec
      <3>2. item \in Seq(ItemRec)
        BY DEF FTypes
      <3>3. item' \in Seq(ItemRec) /\ DOMAIN item' = DOMAIN item
        BY <1>7, <2>2, <3>1, <3>2
      <3>4. QED
        BY <1>7, <2>2, <3>3 DEF ItemRec
    <2>11. FTypes'
      BY <1>1, <1>8, <2>10 DEF FTypes
    <2>12. Settled(item', data', want')
      <3>1. KeptFiles
        BY <1>1, <1>7, <2>10 DEF KeptFiles
      <3>2. QED
        BY <1>6, <3>1, SettledKept
    <2>13. Draft(item', data', h)
      <3>1. Draft(item, data, h)
        BY <1>6 DEF Handle
      <3>2. OwnBlocks(m)
        BY <1>7, <2>6, <2>7, <3>1 DEF Draft, OwnBlocks, l
      <3>3. \A z \in InUse(m) : data[m[z].blk].st \in {"OPEN", "CLOSED"}
        BY <1>7, <2>6, <2>7, <3>1 DEF Draft, l
      <3>4. \A o \in DOMAIN item' : item'[o].st = "CLOSED" => o \in DOMAIN item /\ item'[o] = item[o] /\ o # h
        BY <2>10
      <3>5. \A o \in DOMAIN item' : item'[o].st = "CLOSED" =>
               /\ item'[o].sn = item'[h].sn
               /\ \A z \in Current(item'[o].list) : HasBlock(m, item'[o].list[z].blk)
        BY <2>8, <2>10, <3>1, <3>4 DEF Draft, l
      <3>6. h \in DOMAIN item' /\ item'[h].st = "OPEN" /\ item'[h].hst = "OPEN" /\ item'[h].list = m /\ data' = data
        BY <1>1, <1>7, <2>10, <3>1 DEF Draft
      <3> HIDE DEF h
      <3>7. QED
        BY <3>2, <3>3, <3>5, <3>6 DEF Draft, Is
    <2>14. AtGo'
      BY <1>1, <1>5, <1>8, <1>10, <2>9, <2>10, <2>12, <2>13 DEF AtGo, Handle
    <2>15. \A x1 \in DOMAIN item : \A y \in Blocks : HasBlock(item[x1].list, y) => HasBlock(item'[x1].list, y)
      BY <2>8, <2>10 DEF l
    <2>16. \A x1 \in DOMAIN item : item'[x1].st = item[x1].st
      BY <1>7, <2>10
    <2>17. KeepsClosed => KeepsClosed'
      BY <1>1, <2>10, <2>15, <2>16 DEF KeepsClosed
    <2>18. KeepsOpen => KeepsOpen'
      BY <1>1, <1>9, <2>10, <2>15, <2>16 DEF KeepsOpen
    <2>19. QED
      BY <1>1, <2>11, <2>14, <2>17, <2>18 DEF Onward, Place, LeakKept, BadKept
  <1>13. QED
    BY <1>11, <1>12

\* Looking for a version.
LEMMA LookupIs ==
    ASSUME FTypes
    PROVE  \/ Lookup = 0 /\ \A x1 \in DOMAIN item : item[x1].st # "CLOSED"
           \/ Lookup # 0 /\ Lookup \in DOMAIN item /\ item[Lookup].st = "CLOSED"
  <1> DEFINE S == {i \in DOMAIN item : item[i].st = "CLOSED"}
  <1>1. Lookup = IF S = {} THEN 0 ELSE Min(S)
    BY DEF Lookup
  <1>2. S \in SUBSET Nat /\ 0 \notin S
    BY ItemsAre
  <1>3. S # {} => Min(S) \in S
    <2> HIDE DEF S
    <2>1. QED
      BY <1>2, MinIs
  <1>4. QED
    BY <1>1, <1>2, <1>3

\* cl_serialno_get() finds an item of the serial number and status if there is one.
LEMMA GetIs ==
    ASSUME FTypes, NEW sn, NEW st
    PROVE  \/ Get(sn, st) = 0 /\ \A x1 \in DOMAIN item : item[x1].sn # sn \/ item[x1].st # st
           \/ /\ Get(sn, st) # 0 /\ Get(sn, st) \in DOMAIN item
              /\ item[Get(sn, st)].sn = sn /\ item[Get(sn, st)].st = st
  <1> DEFINE S == {i \in DOMAIN item : item[i].sn = sn /\ item[i].st = st}
  <1>1. Get(sn, st) = IF S = {} THEN 0 ELSE Min(S)
    BY DEF Get
  <1>2. S \in SUBSET Nat /\ 0 \notin S
    BY ItemsAre
  <1>3. S # {} => Min(S) \in S
    <2> HIDE DEF S
    <2>1. QED
      BY <1>2, MinIs
  <1>4. QED
    BY <1>1, <1>2, <1>3

\* A new item at the end of the list.
LEMMA NewIs ==
    ASSUME FTypes, NEW r \in ItemRec, item' = Append(item, r), r.st = "OPEN"
    PROVE  /\ item' \in Seq(ItemRec) /\ DOMAIN item' = DOMAIN item \cup {Len(item) + 1}
           /\ Len(item) + 1 \notin DOMAIN item /\ Len(item) + 1 \in Nat /\ item'[Len(item) + 1] = r
           /\ \A x1 \in DOMAIN item : item'[x1] = item[x1]
           /\ data' = data /\ want' = want => KeptFiles
           /\ data' = data /\ mode = "up" /\ mode' = "up" /\ clean' = clean /\ todo = <<>> => LeakKept /\ BadKept
  <1> DEFINE n == Len(item) + 1
  <1>1. item \in Seq(ItemRec)
    BY DEF FTypes
  <1>2. /\ item' \in Seq(ItemRec) /\ DOMAIN item' = DOMAIN item \cup {n}
        /\ n \notin DOMAIN item /\ n \in Nat /\ item'[n] = r
        /\ \A x1 \in DOMAIN item : item'[x1] = item[x1]
    BY <1>1
  <1> HIDE DEF n
  <1>3. data' = data /\ want' = want => KeptFiles
    BY <1>2 DEF KeptFiles
  <1>4. ASSUME data' = data, mode = "up", mode' = "up", clean' = clean, todo = <<>> PROVE LeakKept /\ BadKept
    <2>1. KeepsClosed => KeepsClosed'
      BY <1>2, <1>4 DEF KeepsClosed
    <2>2. KeepsOpen => KeepsOpen'
      BY <1>2, <1>4 DEF KeepsOpen
    <2>3. QED
      BY <1>4, <2>1, <2>2 DEF LeakKept, BadKept
  <1>5. QED
    BY <1>2, <1>3, <1>4 DEF n

Copied(sn, l) == [NewItem(sn) EXCEPT !.list = l]

\* The item of a new version, with a copy of the list.
LEMMA CopiedIs ==
    ASSUME NEW sn \in Nat, NEW l \in Seq(EntryRec)
    PROVE  /\ Copied(sn, l) \in ItemRec /\ Copied(sn, l).st = "OPEN" /\ Copied(sn, l).hst = "OPEN"
           /\ Copied(sn, l).list = l /\ Copied(sn, l).sn = sn
  <1>1. Copied(sn, l) = [sn |-> sn, st |-> "OPEN", hst |-> "OPEN", lst |-> "OPEN", list |-> l]
    BY DEF NewItem, Copied
  <1>2. QED
    BY <1>1 DEF ItemRec, Statuses

\* cl_file_new() adds a draft without blocks.
LEMMA CreateStep ==
    ASSUME FTypes, Place, Create
    PROVE  Onward
  <1> DEFINE r == NewItem(count + 1)
             n == Len(item) + 1
  <1>1. /\ mode = "up" /\ mode' = "up" /\ want' = want /\ todo = <<>> /\ todo' = <<>>
        /\ data' = data /\ clean' = clean /\ bad' = bad /\ count' = count + 1 /\ count < MaxItems
        /\ hand = NoHand /\ hand' = [NoHand EXCEPT !.v = n] /\ item' = Append(item, r) /\ Lookup = 0
    BY DEF Create, Idle
  <1>2. AtRest
    BY <1>1, PlaceIs DEF AtBoot
  <1>3. r \in ItemRec /\ r.st = "OPEN" /\ r.hst = "OPEN" /\ r.list = <<>>
    <2>1. count + 1 \in Nat
      BY CafsFileAssumption DEF FTypes
    <2>2. r = [sn |-> count + 1, st |-> "OPEN", hst |-> "OPEN", lst |-> "OPEN", list |-> <<>>]
      BY DEF NewItem
    <2> HIDE DEF r
    <2>3. QED
      BY <2>1, <2>2 DEF ItemRec, Statuses
  <1> HIDE DEF r
  <1>4. /\ item' \in Seq(ItemRec) /\ DOMAIN item' = DOMAIN item \cup {n}
        /\ n \notin DOMAIN item /\ n \in Nat /\ item'[n] = r
        /\ \A x1 \in DOMAIN item : item'[x1] = item[x1]
        /\ KeptFiles /\ LeakKept /\ BadKept
    BY <1>1, <1>3, NewIs
  <1> HIDE DEF n
  <1>5. hand' \in HandRec /\ hand'.v = n /\ ~hand'.dirty
    <2>1. hand' = [v |-> n, seg |-> -1, val |-> 0, dirty |-> FALSE]
      BY <1>1 DEF NoHand
    <2>2. QED
      BY <1>4, <2>1, CafsFileAssumption DEF HandRec
  <1>6. FTypes'
    BY <1>1, <1>4, <1>5, CafsFileAssumption DEF FTypes
  <1>7. Settled(item', data', want')
    BY <1>2, <1>4, SettledKept DEF AtRest
  <1>8. \A x1 \in DOMAIN item : item[x1].st # "CLOSED"
    BY <1>1, LookupIs
  <1>9. InUse(<<>>) = {} /\ Current(<<>>) = {}
    BY DEF InUse, Current
  <1>10. Draft(item', data', n) /\ Segments(item'[n].list, 0)
    <2>1. \A o \in DOMAIN item' : item'[o].st # "CLOSED"
      BY <1>3, <1>4, <1>8
    <2>2. Is(item', n, "OPEN") /\ item'[n].hst = "OPEN" /\ item'[n].list = <<>>
      BY <1>3, <1>4 DEF Is
    <2>3. QED
      BY <1>9, <2>1, <2>2 DEF Draft, OwnBlocks, Segments
  <1>11. AtRest'
    BY <1>1, <1>5, <1>7, <1>10 DEF AtRest, Handle
  <1>12. QED
    BY <1>4, <1>6, <1>11 DEF Onward, Place

\* What cl_filelist_consolidate() makes of the list of a version that stands.
LEMMA ConsolidatedIs ==
    ASSUME FTypes, NEW v \in DOMAIN item, Whole(item[v].list, data)
    PROVE  /\ Consolidated(v) \in Seq(EntryRec) /\ Unlike(Consolidated(v))
           /\ \A z \in 1 .. Len(Consolidated(v)) : \E i \in Current(item[v].list) :
                  Consolidated(v)[z] = item[v].list[i]
           /\ \A i \in Current(item[v].list) : \E z \in 1 .. Len(Consolidated(v)) :
                  Consolidated(v)[z] = item[v].list[i]
  <1> DEFINE l == item[v].list
             ss == [i \in DOMAIN l |-> KeptEntry(v, i)]
             c == Consolidated(v)
  <1>1. /\ DOMAIN l = 1 .. Len(l) /\ Len(l) \in Nat /\ \A i \in DOMAIN l : l[i] \in EntryRec
    BY ItemsAre
  <1>2. InUse(l) = Current(l) /\ OwnBlocks(l) /\ InUse(l) \subseteq DOMAIN l
    BY DEF Whole, Distinct, InUse
  <1>3. c = FlattenSeq(ss)
    BY DEF Consolidated, PerEntry
  <1>4. \A i \in DOMAIN l : ss[i] = IF i \in InUse(l) THEN <<l[i]>> ELSE <<>>
    BY DEF KeptEntry, InUse
  <1> HIDE DEF l, c
  <1>5. ss \in Seq(Seq(EntryRec)) /\ Len(ss) = Len(l) /\ DOMAIN ss = DOMAIN l
    <2>1. \A i \in DOMAIN l : KeptEntry(v, i) \in Seq(EntryRec)
      BY <1>1 DEF KeptEntry, l
    <2>2. QED
      BY <1>1, <2>1
  <1> HIDE DEF ss
  <1>6. c \in Seq(EntryRec) /\ Joins(ss, Len(ss), c) /\ (Apart(ss) => Unlike(c))
    BY <1>3, <1>5, FlattenIs
  <1>7. \A i \in DOMAIN l : \A j \in 1 .. Len(ss[i]) : i \in InUse(l) /\ j = 1 /\ ss[i][j] = l[i]
    <2>1. ASSUME NEW i \in DOMAIN l, NEW j \in 1 .. Len(ss[i]) PROVE i \in InUse(l) /\ j = 1 /\ ss[i][j] = l[i]
      <3>1. i \in InUse(l)
        <4>1. Len(<<>>) = 0 /\ 1 .. 0 = {}
          OBVIOUS
        <4>2. ss[i] # <<>>
          BY <2>1, <4>1
        <4>3. QED
          BY <1>4, <4>2
      <3>2. ss[i] = <<l[i]>>
        BY <1>4, <3>1
      <3>3. QED
        BY <2>1, <3>1, <3>2
    <2>2. QED
      BY <2>1
  <1>8. Apart(ss)
    <2>1. SUFFICES ASSUME NEW i1 \in DOMAIN l, NEW i2 \in DOMAIN l, NEW j1 \in 1 .. Len(ss[i1]),
                          NEW j2 \in 1 .. Len(ss[i2]), ss[i1][j1] = ss[i2][j2]
                   PROVE  i1 = i2 /\ j1 = j2
      BY <1>1, <1>5 DEF Apart
    <2>2. i1 \in InUse(l) /\ i2 \in InUse(l) /\ j1 = 1 /\ j2 = 1 /\ l[i1] = l[i2]
      BY <1>7, <2>1
    <2>3. QED
      BY <1>2, <2>2 DEF OwnBlocks
  <1>9. ASSUME NEW z \in 1 .. Len(c) PROVE \E i \in Current(l) : c[z] = l[i]
    <2>1. PICK i \in 1 .. Len(ss) : \E j \in 1 .. Len(ss[i]) : c[z] = ss[i][j]
      BY <1>6, <1>9 DEF Joins
    <2>2. QED
      <3>1. i \in DOMAIN l
        BY <1>1, <1>5
      <3>2. i \in InUse(l) /\ c[z] = l[i]
        BY <1>7, <2>1, <3>1
      <3>3. QED
        BY <1>2, <3>2
  <1>10. ASSUME NEW i \in Current(l) PROVE \E z \in 1 .. Len(c) : c[z] = l[i]
    <2>1. i \in DOMAIN l /\ i \in 1 .. Len(ss) /\ ss[i] = <<l[i]>>
      BY <1>1, <1>2, <1>4, <1>5
    <2>2. 1 \in 1 .. Len(ss[i]) /\ ss[i][1] = l[i]
      BY <2>1
    <2>3. \E z \in 1 .. Len(c) : c[z] = ss[i][1]
      BY <1>6, <2>1, <2>2 DEF Joins
    <2>4. QED
      BY <2>2, <2>3
  <1>11. QED
    BY <1>6, <1>8, <1>9, <1>10 DEF l, c

\* The list a new version starts with.
LEMMA CopyIs ==
    ASSUME FTypes, NEW v \in DOMAIN item, Whole(item[v].list, data), NEW trunc \in BOOLEAN,
           NEW m, m = IF trunc THEN Obsoleted(Consolidated(v)) ELSE Consolidated(v)
    PROVE  /\ m \in Seq(EntryRec) /\ OwnBlocks(m) /\ Segments(m, 0)
           /\ \A i \in InUse(m) : data[m[i].blk].st = "CLOSED"
           /\ \A i \in Current(item[v].list) : HasBlock(m, item[v].list[i].blk)
  <1> DEFINE l == item[v].list
             c == Consolidated(v)
  <1>1. /\ c \in Seq(EntryRec) /\ Unlike(c)
        /\ \A z \in 1 .. Len(c) : \E i \in Current(l) : c[z] = l[i]
        /\ \A i \in Current(l) : \E z \in 1 .. Len(c) : c[z] = l[i]
    BY ConsolidatedIs
  <1>2. /\ OwnBlocks(l) /\ Segments(l, 0) /\ InUse(l) = Current(l)
        /\ \A i \in Current(l) : data[l[i].blk].st = "CLOSED" /\ l[i].st = "CURRENT" /\ i # 0
    BY ItemsAre DEF Whole, Distinct, Current
  <1>3. m = IF trunc THEN Obsoleted(c) ELSE c
    OBVIOUS
  <1> HIDE DEF l, c
  <1>4. DOMAIN c = 1 .. Len(c) /\ \A z \in DOMAIN c : c[z] \in EntryRec
    BY <1>1
  <1>5. \A z \in DOMAIN c : c[z].st = "CURRENT" /\ data[c[z].blk].st = "CLOSED"
    BY <1>1, <1>2, <1>4
  <1>6. \A j, z \in DOMAIN c : c[j].blk = c[z].blk \/ c[j].seg = c[z].seg => j = z
    <2>1. SUFFICES ASSUME NEW j \in DOMAIN c, NEW z \in DOMAIN c, c[j].blk = c[z].blk \/ c[j].seg = c[z].seg
                   PROVE  j = z
      OBVIOUS
    <2>2. PICK a \in Current(l) : c[j] = l[a]
      BY <1>1, <1>4
    <2>3. PICK b \in Current(l) : c[z] = l[b]
      BY <1>1, <1>4
    <2>4. a = b
      <3>1. CASE c[j].blk = c[z].blk
        BY <1>2, <2>2, <2>3, <3>1 DEF OwnBlocks
      <3>2. CASE c[j].seg = c[z].seg
        BY <1>2, <2>2, <2>3, <3>2 DEF Segments
      <3>3. QED
        BY <2>1, <3>1, <3>2
    <2>5. QED
      BY <1>1, <1>4, <2>2, <2>3, <2>4 DEF Unlike
  <1>7. /\ m \in Seq(EntryRec) /\ DOMAIN m = DOMAIN c
        /\ \A z \in DOMAIN c : m[z].blk = c[z].blk /\ m[z].seg = c[z].seg
                               /\ m[z].st = IF trunc THEN "OBSOLETE" ELSE "CURRENT"
    <2>1. CASE trunc
      <3>1. m = [i \in DOMAIN c |-> [c[i] EXCEPT !.st = "OBSOLETE"]]
        BY <1>3, <2>1 DEF Obsoleted
      <3>2. \A z \in DOMAIN c : [c[z] EXCEPT !.st = "OBSOLETE"] \in EntryRec
        BY <1>4 DEF EntryRec
      <3>3. Len(c) \in Nat
        BY <1>1
      <3>4. m \in Seq(EntryRec) /\ DOMAIN m = DOMAIN c
        BY <1>4, <3>1, <3>2, <3>3
      <3>5. QED
        BY <1>4, <2>1, <3>1, <3>4 DEF EntryRec
    <2>2. CASE ~trunc
      BY <1>1, <1>3, <1>5, <2>2
    <2>3. QED
      BY <2>1, <2>2
  <1>8. InUse(m) = DOMAIN c /\ Current(m) \subseteq DOMAIN c
    BY <1>7 DEF InUse, Current
  <1>9. OwnBlocks(m) /\ Segments(m, 0)
    BY <1>6, <1>7, <1>8 DEF OwnBlocks, Segments
  <1>10. \A i \in InUse(m) : data[m[i].blk].st = "CLOSED"
    BY <1>5, <1>7, <1>8
  <1>11. \A i \in Current(l) : HasBlock(m, l[i].blk)
    <2>1. SUFFICES ASSUME NEW i \in Current(l) PROVE HasBlock(m, l[i].blk)
      OBVIOUS
    <2>2. PICK z \in 1 .. Len(c) : c[z] = l[i]
      BY <1>1
    <2>3. z \in InUse(m) /\ m[z].blk = l[i].blk
      BY <1>4, <1>7, <1>8, <2>2
    <2>4. QED
      BY <2>3 DEF HasBlock
  <1>12. QED
    BY <1>7, <1>9, <1>10, <1>11 DEF l

\* cl_file_open() adds a draft with the blocks of the closed version.
LEMMA OpenStep ==
    ASSUME FTypes, Place, NEW trunc \in BOOLEAN, OpenWrite(trunc)
    PROVE  Onward
  <1> DEFINE v == Lookup
             m == IF trunc THEN Obsoleted(Consolidated(v)) ELSE Consolidated(v)
             r == [NewItem(item[v].sn) EXCEPT !.list = m]
             n == Len(item) + 1
             x == IF trunc THEN 0 ELSE Load(v, 0)
  <1>1. /\ mode = "up" /\ mode' = "up" /\ want' = want /\ todo = <<>> /\ todo' = <<>>
        /\ data' = data /\ clean' = clean /\ bad' = bad /\ count' = count + 1 /\ count < MaxItems
        /\ hand' = [v |-> n, seg |-> 0, dirty |-> FALSE, val |-> x]
        /\ item' = Append(item, r) /\ v # 0
    BY DEF OpenWrite, Idle
  <1>2. AtRest
    BY <1>1, PlaceIs DEF AtBoot
  <1>3. v \in DOMAIN item /\ item[v].st = "CLOSED"
    BY <1>1, LookupIs
  <1>4. Whole(item[v].list, data) /\ Only(item, {v})
    BY <1>2, <1>3 DEF AtRest, Settled, Present, Only
  <1>5. /\ m \in Seq(EntryRec) /\ OwnBlocks(m) /\ Segments(m, 0)
        /\ \A i \in InUse(m) : data[m[i].blk].st = "CLOSED"
        /\ \A i \in Current(item[v].list) : HasBlock(m, item[v].list[i].blk)
    <2>1. m = IF trunc THEN Obsoleted(Consolidated(v)) ELSE Consolidated(v)
      OBVIOUS
    <2> HIDE DEF m, v
    <2>2. QED
      BY <1>3, <1>4, <2>1, CopyIs
  <1>6. item[v].sn \in Nat
    BY <1>3, ItemsAre DEF ItemRec
  <1>7. x \in 0 .. MaxItems
    <2>1. CASE trunc
      BY <2>1, CafsFileAssumption
    <2>2. CASE ~trunc
      <3>1. x = IF Entry(v, 0) = 0 THEN 0 ELSE data[item[v].list[Entry(v, 0)].blk].val
        BY <2>2 DEF Load
      <3>2. CASE Entry(v, 0) = 0
        BY <3>1, <3>2, CafsFileAssumption
      <3>3. CASE Entry(v, 0) # 0
        <4>1. Entry(v, 0) \in DOMAIN item[v].list
          BY <1>3, <3>3, EntryIs DEF Current
        <4>2. item[v].list[Entry(v, 0)].blk \in Blocks
          BY <1>3, <4>1, ItemsAre DEF EntryRec
        <4>3. QED
          BY <3>1, <3>3, <4>2, ItemsAre DEF BlockRec
      <3>4. QED
        BY <3>2, <3>3
    <2>3. QED
      BY <2>1, <2>2
  <1>8. r \in ItemRec /\ r.st = "OPEN" /\ r.hst = "OPEN" /\ r.list = m /\ r.sn = item[v].sn
    <2> HIDE DEF m
    <2>1. r = [NewItem(item[v].sn) EXCEPT !.list = m]
      OBVIOUS
    <2>2. m \in Seq(EntryRec)
      BY <1>5
    <2> HIDE DEF r, v
    <2>3. /\ Copied(item[v].sn, m) \in ItemRec /\ Copied(item[v].sn, m).st = "OPEN"
          /\ Copied(item[v].sn, m).hst = "OPEN" /\ Copied(item[v].sn, m).list = m
          /\ Copied(item[v].sn, m).sn = item[v].sn
      BY <1>6, <2>2, CopiedIs
    <2>4. r = Copied(item[v].sn, m)
      BY <2>1 DEF Copied
    <2>5. QED
      BY <2>3, <2>4
  <1> HIDE DEF r, m, x, v
  <1>9. /\ item' \in Seq(ItemRec) /\ DOMAIN item' = DOMAIN item \cup {n}
        /\ n \notin DOMAIN item /\ n \in Nat /\ item'[n] = r
        /\ \A x1 \in DOMAIN item : item'[x1] = item[x1]
        /\ KeptFiles /\ LeakKept /\ BadKept
    BY <1>1, <1>8, NewIs
  <1> HIDE DEF n
  <1>10. hand' \in HandRec /\ hand'.v = n /\ ~hand'.dirty
    BY <1>1, <1>7, <1>9, CafsFileAssumption DEF HandRec
  <1>11. FTypes'
    BY <1>1, <1>9, <1>10, CafsFileAssumption DEF FTypes
  <1>12. Settled(item', data', want')
    BY <1>2, <1>9, SettledKept DEF AtRest
  <1>13. Draft(item', data', n) /\ Segments(item'[n].list, 0)
    <2>1. Is(item', n, "OPEN") /\ item'[n].hst = "OPEN" /\ item'[n].list = m /\ item'[n].sn = item[v].sn
      BY <1>8, <1>9 DEF Is
    <2>2. \A o \in DOMAIN item' : item'[o].st = "CLOSED" => o = v /\ item'[o] = item[v]
      BY <1>4, <1>8, <1>9 DEF Only
    <2>3. \A o \in DOMAIN item' : item'[o].st = "CLOSED" =>
          /\ item'[o].sn = item'[n].sn
          /\ \A i \in Current(item'[o].list) : HasBlock(item'[n].list, item'[o].list[i].blk)
      BY <1>5, <2>1, <2>2
    <2>4. QED
      BY <1>1, <1>5, <2>1, <2>3 DEF Draft
  <1>14. AtRest'
    BY <1>1, <1>10, <1>12, <1>13 DEF AtRest, Handle
  <1>15. QED
    BY <1>9, <1>11, <1>14 DEF Onward, Place

-----------------------------------------------------------------------------
\* The writes of a call, in the order in which they are made.
LEMMA SingleIs ==
    ASSUME NEW w
    PROVE  IsSeq(<<w>>) /\ <<w>> # <<>> /\ \A R : <<w>> \o R = Cons(w, R)
  <1>1. <<w>> \in Seq({w}) /\ <<w>> # <<>>
    OBVIOUS
  <1>2. QED
    BY <1>1 DEF IsSeq, Cons

\* The empty sequence adds nothing to another.
LEMMA EmptyIs == IsSeq(<<>>) /\ \A a : IsSeq(a) => <<>> \o a = a /\ a \o <<>> = a
  <1>1. <<>> \in Seq({})
    OBVIOUS
  <1>2. ASSUME NEW a, IsSeq(a) PROVE <<>> \o a = a /\ a \o <<>> = a
    <2>1. PICK S : a \in Seq(S)
      BY <1>2 DEF IsSeq
    <2>2. QED
      BY <2>1
  <1>3. QED
    BY <1>1, <1>2 DEF IsSeq

Joined(a, b) == a \o b

\* Two sequences joined are a sequence.
LEMMA JoinedIs ==
    ASSUME NEW a, NEW b, IsSeq(a), IsSeq(b)
    PROVE  IsSeq(Joined(a, b))
  BY JoinIs DEF Joined

\* Joining is associative.
LEMMA JoinedAssoc ==
    ASSUME NEW a, NEW b, NEW c, IsSeq(a), IsSeq(b), IsSeq(c)
    PROVE  Joined(Joined(a, b), c) = Joined(a, Joined(b, c))
  BY AssocIs DEF Joined

\* Three sequences before a fourth, in the grouping of the places.
LEMMA Regroup3 ==
    ASSUME NEW a, NEW b, NEW c, NEW E, IsSeq(a), IsSeq(b), IsSeq(c), IsSeq(E)
    PROVE  /\ Joined(Joined(Joined(a, b), c), E) = Joined(a, Joined(b, Joined(c, E)))
           /\ IsSeq(Joined(Joined(a, b), c)) /\ IsSeq(Joined(b, Joined(c, E))) /\ IsSeq(Joined(c, E))
  <1>1. IsSeq(Joined(a, b)) /\ IsSeq(Joined(c, E))
    BY JoinedIs
  <1>2. IsSeq(Joined(Joined(a, b), c)) /\ IsSeq(Joined(b, Joined(c, E)))
    BY <1>1, JoinedIs
  <1>3. QED
    BY <1>1, <1>2, JoinedAssoc

\* Four sequences before a fifth, in the grouping of the places.
LEMMA Regroup4 ==
    ASSUME NEW a, NEW b, NEW c, NEW d, NEW E, IsSeq(a), IsSeq(b), IsSeq(c), IsSeq(d), IsSeq(E)
    PROVE  /\ Joined(Joined(Joined(Joined(a, b), c), d), E) = Joined(a, Joined(b, Joined(c, Joined(d, E))))
           /\ IsSeq(Joined(Joined(Joined(a, b), c), d))
  <1>1. IsSeq(Joined(d, E)) /\ IsSeq(Joined(Joined(a, b), c))
    BY JoinedIs, Regroup3
  <1>2. Joined(Joined(Joined(a, b), c), Joined(d, E)) = Joined(a, Joined(b, Joined(c, Joined(d, E))))
    BY <1>1, Regroup3
  <1>3. QED
    BY <1>1, <1>2, JoinedAssoc, JoinedIs

MarkList(v)    == FlattenSeq([i \in DOMAIN item[v].list |-> CloseEntry(v, i)])
DiscardList(v) == FlattenSeq([i \in DOMAIN item[v].list |-> DiscardEntry(v, i)])

\* cleanup_file() of each of the three kinds, before E.
LEMMA CleanupIs ==
    ASSUME NEW v, NEW E, IsSeq(E), IsSeq(DiscardList(v))
    PROVE  /\ CleanupFile(v, "DISCARDING") \o E = DiscardList(v) \o R3(v, E)
           /\ CleanupFile(v, "DISCARDING_HDR_LIST") \o E = R3(v, E)
           /\ CleanupFile(v, "DISCARDING_HDR") \o E = R2(v, E)
           /\ \A st \in {"DISCARDING", "DISCARDING_HDR_LIST", "DISCARDING_HDR"} : IsSeq(CleanupFile(v, st))
  <1> DEFINE d == SetList(v, "DIRTY")
             h == SetHdr(v, "DIRTY")
             i == SetItem(v, "DIRTY")
  <1>1. IsSeq(d) /\ IsSeq(h) /\ IsSeq(i) /\ IsSeq(<<>>)
    BY SingleIs, EmptyIs DEF SetList, SetHdr, SetItem
  <1>2. Joined(i, E) = R1(v, E) /\ Joined(h, R1(v, E)) = R2(v, E) /\ Joined(d, R2(v, E)) = R3(v, E)
    BY SingleIs DEF SetList, SetHdr, SetItem, R1, R2, R3, Joined
  <1>3. /\ CleanupFile(v, "DISCARDING") = Joined(Joined(Joined(DiscardList(v), d), h), i)
        /\ CleanupFile(v, "DISCARDING_HDR_LIST") = Joined(Joined(Joined(<<>>, d), h), i)
        /\ CleanupFile(v, "DISCARDING_HDR") = Joined(Joined(Joined(<<>>, <<>>), h), i)
    BY DEF CleanupFile, PerEntry, DiscardList, Joined
  <1>4. IsSeq(R2(v, E)) /\ IsSeq(R3(v, E))
    BY ShapesAre
  <1> HIDE DEF d, h, i
  <1>5. \A a, b : IsSeq(a) /\ IsSeq(b) =>
            /\ IsSeq(Joined(Joined(Joined(a, b), h), i))
            /\ Joined(Joined(Joined(Joined(a, b), h), i), E) = Joined(a, Joined(b, Joined(h, Joined(i, E))))
    BY <1>1, Regroup4
  <1>6. Joined(<<>>, R3(v, E)) = R3(v, E) /\ Joined(<<>>, R2(v, E)) = R2(v, E)
    BY <1>4, EmptyIs DEF Joined
  <1>7. /\ Joined(CleanupFile(v, "DISCARDING"), E) = Joined(DiscardList(v), R3(v, E))
        /\ Joined(CleanupFile(v, "DISCARDING_HDR_LIST"), E) = R3(v, E)
        /\ Joined(CleanupFile(v, "DISCARDING_HDR"), E) = R2(v, E)
        /\ IsSeq(CleanupFile(v, "DISCARDING")) /\ IsSeq(CleanupFile(v, "DISCARDING_HDR_LIST"))
        /\ IsSeq(CleanupFile(v, "DISCARDING_HDR"))
    BY <1>1, <1>2, <1>3, <1>5, <1>6
  <1>8. QED
    BY <1>7 DEF Joined

\* mark_file_closed() before E.
LEMMA MarkFileIs ==
    ASSUME NEW v, NEW E, IsSeq(E), IsSeq(MarkList(v))
    PROVE  /\ MarkFileClosed(v) \o E = IF item[v].hst = "CLOSED" THEN E ELSE MarkList(v) \o L(v, E)
           /\ IsSeq(MarkFileClosed(v)) /\ IsSeq(MarkFileClosed(v) \o E)
  <1>1. CASE item[v].hst = "CLOSED"
    BY <1>1, EmptyIs DEF MarkFileClosed
  <1>2. CASE item[v].hst # "CLOSED"
    <2> DEFINE d == SetList(v, "CLOSED")
               h == SetHdr(v, "CLOSED")
    <2>1. IsSeq(d) /\ IsSeq(h) /\ Joined(h, E) = H(v, E) /\ Joined(d, H(v, E)) = L(v, E)
      BY SingleIs DEF SetList, SetHdr, H, L, Joined
    <2>2. MarkFileClosed(v) = Joined(Joined(MarkList(v), d), h)
      BY <1>2 DEF MarkFileClosed, PerEntry, MarkList, Joined
    <2> HIDE DEF d, h
    <2>3. /\ Joined(Joined(Joined(MarkList(v), d), h), E) = Joined(MarkList(v), Joined(d, Joined(h, E)))
          /\ IsSeq(Joined(Joined(MarkList(v), d), h))
      BY <2>1, Regroup3
    <2>4. IsSeq(L(v, E))
      BY ShapesAre
    <2>5. IsSeq(Joined(MarkList(v), L(v, E)))
      BY <2>4, JoinedIs
    <2>6. Joined(MarkFileClosed(v), E) = Joined(MarkList(v), L(v, E)) /\ IsSeq(MarkFileClosed(v))
          /\ IsSeq(Joined(MarkFileClosed(v), E))
      BY <2>1, <2>2, <2>3, <2>5
    <2>7. QED
      BY <1>2, <2>6 DEF Joined
  <1>3. QED
    BY <1>1, <1>2

Replaces(n, o) == FinishClose(n, o, "DISCARDING_HDR_LIST", FALSE)
Resumes(n, o) == FinishClose(n, o, "DISCARDING_HDR_LIST", TRUE)

\* finish_close() and the first closing before E.
LEMMA FinishIs ==
    ASSUME NEW n, NEW o, NEW E, IsSeq(E), IsSeq(MarkList(n)), IsSeq(DiscardList(o))
    PROVE  /\ Joined(Replaces(n, o), E) =
                 Cons(<<"item", n, "CLOSING">>, Joined(MarkFileClosed(n), R5(o, n, E)))
           /\ Joined(Resumes(n, o), E) = R3(o, E)
           /\ Joined(CloseFirst(n), E) =
                 Cons(<<"item", n, "CLOSING">>, Joined(MarkFileClosed(n), B1(n, E)))
           /\ IsSeq(Replaces(n, o)) /\ IsSeq(Resumes(n, o)) /\ IsSeq(CloseFirst(n))
  <1> DEFINE a == SetItem(n, "CLOSING")
             m == MarkFileClosed(n)
             b == SetItem(o, "DISCARDING_HDR_LIST")
             c == SetItem(n, "CLOSED")
             z == CleanupFile(o, "DISCARDING_HDR_LIST")
  <1>1. IsSeq(a) /\ IsSeq(b) /\ IsSeq(c) /\ IsSeq(m) /\ IsSeq(z)
    BY SingleIs, CleanupIs, MarkFileIs DEF SetItem
  <1>2. Joined(c, R3(o, E)) = R4(o, n, E) /\ Joined(b, R4(o, n, E)) = R5(o, n, E)
        /\ Joined(c, E) = B1(n, E) /\ \A R : Joined(a, R) = Cons(<<"item", n, "CLOSING">>, R)
    BY SingleIs DEF SetItem, R4, R5, B1, Joined
  <1>3. Joined(z, E) = R3(o, E)
    BY CleanupIs DEF Joined
  <1>4. /\ Replaces(n, o) = Joined(Joined(Joined(Joined(a, m), b), c), z)
        /\ Resumes(n, o) = Joined(<<>>, z)
        /\ CloseFirst(n) = Joined(Joined(a, m), c)
    BY DEF FinishClose, CloseFirst, Joined, Replaces, Resumes
  <1> HIDE DEF a, m, b, c, z
  <1>5. IsSeq(R3(o, E))
    BY ShapesAre
  <1>6. /\ Joined(Joined(Joined(Joined(a, m), b), c), R3(o, E)) = Joined(a, Joined(m, Joined(b, Joined(c, R3(o, E)))))
        /\ IsSeq(Joined(Joined(Joined(a, m), b), c))
    BY <1>1, <1>5, Regroup4
  <1>7. /\ Joined(Joined(Joined(Joined(Joined(a, m), b), c), z), E)
             = Joined(Joined(Joined(Joined(a, m), b), c), Joined(z, E))
        /\ IsSeq(Joined(Joined(Joined(Joined(a, m), b), c), z))
    BY <1>1, <1>6, JoinedAssoc, JoinedIs
  <1>8. Joined(Joined(Joined(a, m), c), E) = Joined(a, Joined(m, Joined(c, E))) /\ IsSeq(Joined(Joined(a, m), c))
    BY <1>1, Regroup3
  <1>9. Joined(<<>>, z) = z
    BY <1>1, EmptyIs DEF Joined
  <1>10. /\ Joined(Replaces(n, o), E) =
                 Cons(<<"item", n, "CLOSING">>, Joined(m, R5(o, n, E)))
         /\ Joined(Resumes(n, o), E) = R3(o, E)
         /\ Joined(CloseFirst(n), E) = Cons(<<"item", n, "CLOSING">>, Joined(m, B1(n, E)))
         /\ IsSeq(Replaces(n, o))
         /\ IsSeq(Resumes(n, o)) /\ IsSeq(CloseFirst(n))
    BY <1>1, <1>2, <1>3, <1>4, <1>6, <1>7, <1>8, <1>9
  <1>11. QED
    BY <1>10 DEF m

\* Two sequences of one element make one of two.
LEMMA TwoIs ==
    ASSUME NEW T, NEW a \in Seq(T), NEW b \in Seq(T), NEW c \in Seq(T),
           Len(a) = 1, Len(b) = 1, Len(c) = 2, c[1] = a[1], c[2] = b[1]
    PROVE  a \o b = c
  <1>1. a \o b \in Seq(T) /\ Len(a \o b) = Len(a) + Len(b)
    BY ConcatProperties
  <1>2. \A i \in 1 .. Len(a) + Len(b) : (a \o b)[i] = IF i <= Len(a) THEN a[i] ELSE b[i - Len(a)]
    BY ConcatProperties
  <1>3. PICK d : d = a \o b
    OBVIOUS
  <1>4. /\ 1 \in 1 .. Len(a) + Len(b) /\ 2 \in 1 .. Len(a) + Len(b)
        /\ 1 <= Len(a) /\ ~(2 <= Len(a)) /\ 2 - Len(a) = 1
    OBVIOUS
  <1>5. /\ d[1] = IF 1 <= Len(a) THEN a[1] ELSE b[1 - Len(a)]
        /\ d[2] = IF 2 <= Len(a) THEN a[2] ELSE b[2 - Len(a)]
    BY <1>2, <1>3, <1>4, Zenon
  <1>6. d[1] = a[1] /\ d[2] = b[1]
    BY <1>4, <1>5, Zenon
  <1>7. d \in Seq(T) /\ Len(d) = 2 /\ d[1] = c[1] /\ d[2] = c[2]
    BY <1>1, <1>3, <1>6
  <1>8. QED
    BY <1>3, <1>7, SeqEqual

\* Two elements make a pair.
LEMMA PairIs == ASSUME NEW x, NEW y PROVE <<x>> \o <<y>> = <<x, y>>
  <1>1. <<x>> \in Seq({x, y}) /\ <<y>> \in Seq({x, y}) /\ <<x, y>> \in Seq({x, y})
    OBVIOUS
  <1>2. QED
    BY <1>1, TwoIs

\* The writes that mark_file_closed() and cleanup_file() make for the entries.
LEMMA ListWritesAre ==
    ASSUME FTypes, NEW v \in DOMAIN item
    PROVE  /\ Discards(item[v].list, data, v, DiscardList(v))
           /\ OwnBlocks(item[v].list) => Marks(item[v].list, data, v, MarkList(v))
           /\ IsSeq(DiscardList(v)) /\ IsSeq(MarkList(v))
  <1> DEFINE l == item[v].list
             X == {<<"block", b, s>> : b \in Blocks, s \in {"CLOSED", "DIRTY"}}
                  \cup {<<"entry", v, i, "DIRTY">> : i \in DOMAIN l}
             ds == [i \in DOMAIN l |-> DiscardEntry(v, i)]
             ms == [i \in DOMAIN l |-> CloseEntry(v, i)]
             Both(i) == <<<<"block", l[i].blk, "DIRTY">>, <<"entry", v, i, "DIRTY">>>>
             One(i) == <<<<"block", l[i].blk, "CLOSED">>>>
  <1>1. /\ DOMAIN l = 1 .. Len(l) /\ Len(l) \in Nat /\ \A i \in DOMAIN l : l[i] \in EntryRec
    BY ItemsAre
  <1>2. \A i \in DOMAIN l : l[i].blk \in Blocks /\ l[i].st \in {"CURRENT", "OBSOLETE", "DIRTY"}
    BY <1>1 DEF EntryRec
  <1>3. \A i \in DOMAIN l : /\ Both(i) \in Seq(X) /\ Len(Both(i)) = 2
                            /\ Both(i)[1] = <<"block", l[i].blk, "DIRTY">>
                            /\ Both(i)[2] = <<"entry", v, i, "DIRTY">>
                            /\ One(i) \in Seq(X) /\ Len(One(i)) = 1
                            /\ One(i)[1] = <<"block", l[i].blk, "CLOSED">>
    BY <1>2
  <1>16. \A i \in DOMAIN l : SetBlock(l[i].blk, "DIRTY") \o SetEntry(v, i, "DIRTY") = Both(i)
                             /\ SetBlock(l[i].blk, "CLOSED") = One(i)
    BY PairIs, Zenon DEF SetBlock, SetEntry
  <1>4. \A i \in DOMAIN l : ds[i] = IF l[i].st # "DIRTY" THEN Both(i) ELSE <<>>
    BY <1>2, <1>16 DEF DiscardEntry
  <1>5. \A i \in DOMAIN l : ms[i] = IF l[i].st = "CURRENT" THEN One(i)
                                    ELSE IF l[i].st = "OBSOLETE" THEN Both(i) ELSE <<>>
    BY <1>2, <1>16 DEF CloseEntry
  <1>6. DOMAIN ds = DOMAIN l /\ DOMAIN ms = DOMAIN l
    OBVIOUS
  <1>7. DiscardList(v) = FlattenSeq(ds) /\ MarkList(v) = FlattenSeq(ms)
    BY DEF DiscardList, MarkList
  <1>8. ds \in Seq(Seq(X)) /\ ms \in Seq(Seq(X)) /\ Len(ds) = Len(l) /\ Len(ms) = Len(l)
    <2>1. <<>> \in Seq(X)
      OBVIOUS
    <2> HIDE DEF Both, One, X
    <2>2. \A i \in DOMAIN l : ds[i] \in Seq(X) /\ ms[i] \in Seq(X)
      BY <1>3, <1>4, <1>5, <2>1
    <2>3. ds = [i \in DOMAIN l |-> ds[i]] /\ ms = [i \in DOMAIN l |-> ms[i]]
      OBVIOUS
    <2> HIDE DEF ds, ms, l
    <2>4. QED
      BY <1>1, <1>6, <2>2, <2>3
  <1>9. Len(<<>>) = 0 /\ 1 .. 0 = {} /\ 1 .. 1 = {1} /\ 1 .. 2 = {1, 2}
    OBVIOUS
  <1> HIDE DEF Both, One, X, ds, ms
  <1>10. /\ FlattenSeq(ds) \in Seq(X) /\ Joins(ds, Len(ds), FlattenSeq(ds))
         /\ FlattenSeq(ms) \in Seq(X) /\ Joins(ms, Len(ms), FlattenSeq(ms))
    BY <1>8, FlattenIs
  <1> DEFINE D == DiscardList(v)
             M == MarkList(v)
  <1>11. IsSeq(D) /\ IsSeq(M) /\ Joins(ds, Len(ds), D) /\ Joins(ms, Len(ms), M)
    BY <1>7, <1>10 DEF IsSeq
  <1> HIDE DEF D, M, l
  <1>12. InUse(l) = {i \in DOMAIN l : l[i].st # "DIRTY"} /\ Current(l) = {i \in DOMAIN l : l[i].st = "CURRENT"}
    BY DEF InUse, Current
  <1>13. Discards(l, data, v, D)
    <2>1. ASSUME NEW z \in 1 .. Len(D)
          PROVE  \E i \in DOMAIN l : D[z] = <<"block", l[i].blk, "DIRTY">> \/ Struck(l, data, v, D, z, i)
      <3>1. PICK i \in 1 .. Len(ds) : \E j \in 1 .. Len(ds[i]) :
                D[z] = ds[i][j] /\ (j > 1 => z > 1 /\ D[z - 1] = ds[i][j - 1])
        BY <1>11, <2>1 DEF Joins
      <3>2. PICK j \in 1 .. Len(ds[i]) :
                D[z] = ds[i][j] /\ (j > 1 => z > 1 /\ D[z - 1] = ds[i][j - 1])
        BY <3>1
      <3>3. i \in DOMAIN l
        BY <1>1, <1>8, <3>1
      <3>4. ds[i] = Both(i)
        <4>1. ds[i] # <<>>
          BY <1>9, <3>2
        <4>2. QED
          BY <1>4, <3>3, <4>1
      <3>5. j = 1 \/ j = 2
        BY <1>3, <1>9, <3>2, <3>3, <3>4
      <3>6. CASE j = 1
        BY <1>3, <3>2, <3>3, <3>4, <3>6
      <3>7. CASE j = 2
        <4>1. D[z] = <<"entry", v, i, "DIRTY">> /\ z > 1 /\ D[z - 1] = <<"block", l[i].blk, "DIRTY">>
          BY <1>3, <3>2, <3>3, <3>4, <3>7
        <4>2. Struck(l, data, v, D, z, i)
          BY <4>1, <2>1 DEF Struck
        <4>3. QED
          BY <3>3, <4>2
      <3>8. QED
        BY <3>5, <3>6, <3>7
    <2>2. ASSUME NEW i \in InUse(l) PROVE \E z \in 1 .. Len(D) : D[z] = <<"entry", v, i, "DIRTY">>
      <3>1. i \in DOMAIN l /\ ds[i] = Both(i)
        BY <1>4, <1>12
      <3>2. i \in 1 .. Len(ds) /\ 2 \in 1 .. Len(ds[i]) /\ ds[i][2] = <<"entry", v, i, "DIRTY">>
        BY <1>1, <1>3, <1>8, <1>9, <3>1
      <3>3. \E z \in 1 .. Len(D) : D[z] = ds[i][2]
        BY <1>11, <3>2 DEF Joins
      <3>4. QED
        BY <3>2, <3>3
    <2>3. QED
      BY <1>11, <2>1, <2>2 DEF Discards
  <1>14. ASSUME OwnBlocks(l) PROVE Marks(l, data, v, M)
    <2>1. ASSUME NEW z \in 1 .. Len(M)
          PROVE  \/ \E i \in Current(l) : M[z] = <<"block", l[i].blk, "CLOSED">>
                 \/ \E i \in DOMAIN l : /\ M[z] = <<"block", l[i].blk, "DIRTY">>
                                        /\ \A j \in Current(l) : l[j].blk # l[i].blk
                 \/ \E i \in DOMAIN l : l[i].st # "CURRENT" /\ Struck(l, data, v, M, z, i)
      <3>1. PICK i \in 1 .. Len(ms) : \E j \in 1 .. Len(ms[i]) :
                M[z] = ms[i][j] /\ (j > 1 => z > 1 /\ M[z - 1] = ms[i][j - 1])
        BY <1>11, <2>1 DEF Joins
      <3>2. PICK j \in 1 .. Len(ms[i]) :
                M[z] = ms[i][j] /\ (j > 1 => z > 1 /\ M[z - 1] = ms[i][j - 1])
        BY <3>1
      <3>3. i \in DOMAIN l
        BY <1>1, <1>8, <3>1
      <3>4. ms[i] # <<>>
        BY <1>9, <3>2
      <3>5. CASE l[i].st = "CURRENT"
        <4>1. ms[i] = One(i) /\ i \in Current(l)
          BY <1>5, <1>12, <3>3, <3>5
        <4>2. j = 1
          BY <1>3, <1>9, <3>2, <3>3, <4>1
        <4>3. QED
          BY <1>3, <3>2, <3>3, <4>1, <4>2
      <3>6. CASE l[i].st # "CURRENT"
        <4>1. ms[i] = Both(i) /\ l[i].st = "OBSOLETE" /\ i \in InUse(l)
          BY <1>5, <1>12, <3>3, <3>4, <3>6
        <4>2. j = 1 \/ j = 2
          BY <1>3, <1>9, <3>2, <3>3, <4>1
        <4>3. CASE j = 1
          <5>1. M[z] = <<"block", l[i].blk, "DIRTY">>
            BY <1>3, <3>2, <3>3, <4>1, <4>3
          <5>2. \A x \in Current(l) : l[x].blk # l[i].blk
            BY <1>12, <1>14, <3>6, <4>1 DEF OwnBlocks
          <5>3. QED
            BY <3>3, <5>1, <5>2
        <4>4. CASE j = 2
          <5>1. M[z] = <<"entry", v, i, "DIRTY">> /\ z > 1 /\ M[z - 1] = <<"block", l[i].blk, "DIRTY">>
            BY <1>3, <3>2, <3>3, <4>1, <4>4
          <5>2. Struck(l, data, v, M, z, i)
            BY <5>1, <2>1 DEF Struck
          <5>3. QED
            BY <3>3, <3>6, <5>2
        <4>5. QED
          BY <4>2, <4>3, <4>4
      <3>7. QED
        BY <3>5, <3>6
    <2>2. ASSUME NEW i \in Current(l) PROVE \E z \in 1 .. Len(M) : M[z] = <<"block", l[i].blk, "CLOSED">>
      <3>1. i \in DOMAIN l /\ ms[i] = One(i)
        BY <1>5, <1>12
      <3>2. i \in 1 .. Len(ms) /\ 1 \in 1 .. Len(ms[i]) /\ ms[i][1] = <<"block", l[i].blk, "CLOSED">>
        BY <1>1, <1>3, <1>8, <1>9, <3>1
      <3>3. \E z \in 1 .. Len(M) : M[z] = ms[i][1]
        BY <1>11, <3>2 DEF Joins
      <3>4. QED
        BY <3>2, <3>3
    <2>3. ASSUME NEW i \in InUse(l), l[i].st = "OBSOLETE"
          PROVE  \E z \in 1 .. Len(M) : M[z] = <<"entry", v, i, "DIRTY">>
      <3>1. i \in DOMAIN l /\ ms[i] = Both(i)
        BY <1>5, <1>12, <2>3
      <3>2. i \in 1 .. Len(ms) /\ 2 \in 1 .. Len(ms[i]) /\ ms[i][2] = <<"entry", v, i, "DIRTY">>
        BY <1>1, <1>3, <1>8, <1>9, <3>1
      <3>3. \E z \in 1 .. Len(M) : M[z] = ms[i][2]
        BY <1>11, <3>2 DEF Joins
      <3>4. QED
        BY <3>2, <3>3
    <2>4. QED
      BY <1>11, <2>1, <2>2, <2>3 DEF Marks
  <1>15. QED
    BY <1>11, <1>13, <1>14 DEF D, M, l

-----------------------------------------------------------------------------
\* A file is closed, or removed.

\* What the version that is being written will contain.
LEMMA DraftReads ==
    ASSUME FTypes, Handle
    PROVE  Reads(item[hand.v].list, data, Content(hand.v))
  <1> DEFINE v == hand.v
             l == item[v].list
             f(s) == IF Entry(v, s) = 0 THEN 0
                     ELSE LET d == data[l[Entry(v, s)].blk] IN IF d.st = "DIRTY" THEN -1 ELSE d.val
             c == Content(v)
  <1>1. v \in DOMAIN item /\ Current(l) \subseteq InUse(l) /\ \A i \in Current(l) : l[i] \in EntryRec
    BY DraftIs
  <1>2. \A i \in Current(l) : /\ data[l[i].blk].st \in {"OPEN", "CLOSED"} /\ data[l[i].blk].val \in 0 .. MaxItems
    <2>1. \A i \in Current(l) : data[l[i].blk].st \in {"OPEN", "CLOSED"}
      BY <1>1 DEF Handle, Draft
    <2>2. \A i \in Current(l) : l[i].blk \in Blocks
      BY <1>1 DEF EntryRec
    <2>3. \A b \in Blocks : data[b].val \in 0 .. MaxItems
      BY ItemsAre DEF BlockRec
    <2>4. QED
      BY <2>1, <2>2, <2>3
  <1>3. c = [s \in Segs |-> f(s)]
    BY DEF Content
  <1>4. ASSUME NEW s \in Segs
        PROVE  /\ f(s) \in -1 .. MaxItems
               /\ \/ \E i \in Current(l) : l[i].seg = s /\ f(s) = data[l[i].blk].val
                  \/ f(s) = 0 /\ \A i \in Current(l) : l[i].seg # s
    <2>1. CASE Entry(v, s) = 0 /\ \A i \in Current(l) : l[i].seg # s
      BY <2>1, CafsFileAssumption
    <2>2. CASE Entry(v, s) \in Current(l) /\ Entry(v, s) # 0 /\ l[Entry(v, s)].seg = s
      <3>1. f(s) = data[l[Entry(v, s)].blk].val
        BY <1>2, <2>2
      <3>2. f(s) \in 0 .. MaxItems
        BY <1>2, <2>2, <3>1
      <3>3. f(s) \in -1 .. MaxItems
        <4> HIDE DEF f
        <4>1. QED
          BY <3>2, CafsFileAssumption
      <3>4. QED
        <4> HIDE DEF f, l
        <4>1. QED
          BY <2>2, <3>1, <3>3
    <2>3. QED
      BY <1>1, <2>1, <2>2, EntryIs
  <1> HIDE DEF f
  <1>5. c \in [Segs -> -1 .. MaxItems] /\ \A s \in Segs : c[s] = f(s)
    BY <1>3, <1>4
  <1> HIDE DEF c, l
  <1>6. Reads(l, data, c)
    BY <1>4, <1>5 DEF Reads
  <1>7. QED
    BY <1>6 DEF c, l

\* finish_close() or the first closing begins with a write of CLOSING.
LEMMA FinishStep ==
    ASSUME FTypes, Place, Finish
    PROVE  Onward
  <1> DEFINE v == hand.v
             old == Get(item[v].sn, "CLOSED")
  <1>1. /\ mode = "up" /\ mode' = "up" /\ want' = want /\ todo # <<>> /\ Head(todo)[1] = "finish"
        /\ item' = item /\ data' = data /\ clean' = clean /\ bad' = bad /\ count' = count
        /\ hand' = NoHand
        /\ todo' = (IF old # 0 THEN FinishClose(v, old, "DISCARDING_HDR_LIST", FALSE)
                               ELSE CloseFirst(v)) \o <<<<"settle", Content(v)>>>>
    BY DEF Finish, disk
  <1>2. AtGo
    BY <1>1, PlaceIs
  <1>3. Settled(item, data, want) /\ Handle /\ Segments(item[v].list, 0)
    BY <1>2 DEF AtGo
  <1>4. v \in DOMAIN item /\ item[v].st = "OPEN" /\ item[v].hst = "OPEN" /\ OwnBlocks(item[v].list)
    BY <1>3 DEF Handle, Draft, Is
  <1>5. PICK c : c = Content(v) /\ Reads(item[v].list, data, c)
    BY <1>3, DraftReads
  <1>6. PICK es : es = MarkList(v) /\ Marks(item[v].list, data, v, es) /\ IsSeq(es)
    BY <1>4, ListWritesAre
  <1>7. PICK E : E = <<<<"settle", c>>>> /\ IsSeq(E)
    BY SingleIs
  <1>8. PICK o : o = old /\ (\/ o = 0 /\ \A x1 \in DOMAIN item : item[x1].sn # item[v].sn \/ item[x1].st # "CLOSED"
                             \/ o # 0 /\ o \in DOMAIN item /\ item[o].sn = item[v].sn /\ item[o].st = "CLOSED")
    BY GetIs
  <1>9. todo' = (IF o # 0 THEN Replaces(v, o) ELSE CloseFirst(v)) \o E
    BY <1>1, <1>5, <1>7, <1>8 DEF Replaces
  <1>10. FTypes'
    <2>1. NoHand \in HandRec
      BY CafsFileAssumption DEF NoHand, HandRec
    <2>2. QED
      BY <1>1, <2>1 DEF FTypes
  <1>11. EndOf(c)' = E
    BY <1>1, <1>7 DEF EndOf
  <1>12. Draft(item', data', v) /\ Segments(item'[v].list, 0) /\ Reads(item'[v].list, data', c)
         /\ Marks(item'[v].list, data', v, es) /\ Works' /\ mode' = "up"
    BY <1>1, <1>3, <1>5, <1>6 DEF Handle, Works
  <1> HIDE DEF v, old
  <1>13. \A T : IsSeq(T) => MarkFileClosed(v) \o T = es \o L(v, T)
    BY <1>4, <1>6, MarkFileIs
  <1>14. CASE Only(item, {}) /\ Gone \in want
    <2>1. o = 0
      BY <1>8, <1>14 DEF Only
    <2>2. IsSeq(MarkList(v))
      BY <1>6
    <2>3. IsSeq(DiscardList(v))
      BY <1>4, ListWritesAre
    <2>4. Joined(CloseFirst(v), E) = Cons(<<"item", v, "CLOSING">>, Joined(MarkFileClosed(v), B1(v, E)))
      BY <1>7, <2>2, <2>3, FinishIs
    <2>5. IsSeq(B1(v, E))
      BY <1>7, ShapesAre
    <2>6. todo' = Cons(<<"item", v, "CLOSING">>, es \o L(v, B1(v, EndOf(c)')))
      BY <1>9, <1>11, <1>13, <2>1, <2>4, <2>5 DEF Joined
    <2>7. Only(item', {}) /\ Gone' \in want'
      BY <1>1, <1>14 DEF Gone
    <2>8. AtClosing'
      BY <1>12, <2>6, <2>7 DEF AtClosing
    <2>9. QED
      BY <1>1, <1>10, <2>8, IdleLeak DEF Onward, Place
  <1>15. ASSUME NEW p, NEW q, Promised(item, data, want, p, q), Present(item, data, p) PROVE Onward
    <2>1. p \in DOMAIN item /\ item[p].st = "CLOSED" /\ item[p].sn = item[v].sn
      BY <1>3, <1>15 DEF Present, Is, Handle, Draft, v
    <2>2. o = p
      BY <1>8, <1>15, <2>1 DEF Present, Only
    <2>3. o # 0 /\ IsSeq(DiscardList(o)) /\ IsSeq(MarkList(v))
      BY <1>6, <1>8, <2>1, <2>2, ListWritesAre
    <2>4. Joined(Replaces(v, o), E) = Cons(<<"item", v, "CLOSING">>, Joined(MarkFileClosed(v), R5(o, v, E)))
      BY <1>7, <2>3, FinishIs
    <2>5. IsSeq(R5(o, v, E))
      BY <1>7, ShapesAre
    <2>6. todo' = Cons(<<"item", v, "CLOSING">>, es \o L(v, R5(o, v, EndOf(c)')))
      BY <1>9, <1>11, <1>13, <2>3, <2>4, <2>5 DEF Joined
    <2>7. Promised(item', data', want', o, q) /\ Present(item', data', o)
      BY <1>1, <1>15, <2>2
    <2>8. AtClosing'
      BY <1>12, <2>6, <2>7 DEF AtClosing
    <2>9. QED
      BY <1>1, <1>10, <2>8, IdleLeak DEF Onward, Place
  <1>16. QED
    BY <1>3, <1>14, <1>15 DEF Settled

\* cafs_lite_unlink() begins with the write of DISCARDING.
LEMMA UnlinkCall ==
    ASSUME FTypes, Place, Unlink
    PROVE  Onward
  <1> DEFINE v == Lookup
  <1>1. /\ mode = "up" /\ mode' = "up" /\ want' = want \cup {Gone} /\ todo = <<>>
        /\ item' = item /\ data' = data /\ clean' = clean /\ bad' = bad /\ count' = count
        /\ hand' = hand /\ v # 0 /\ Get(item[v].sn, "OPEN") = 0
        /\ todo' = SetItem(v, "DISCARDING") \o CleanupFile(v, "DISCARDING") \o <<<<"settle", Gone>>>>
    BY DEF Unlink, disk, Idle
  <1>2. AtRest
    BY <1>1, PlaceIs DEF AtBoot
  <1>3. v \in DOMAIN item /\ item[v].st = "CLOSED"
    BY <1>1, LookupIs
  <1> HIDE DEF v
  <1>4. hand = NoHand
    <2>1. SUFFICES ASSUME hand # NoHand PROVE FALSE
      OBVIOUS
    <2>2. item[hand.v].st = "OPEN" /\ hand.v \in DOMAIN item /\ item[v].sn = item[hand.v].sn
      BY <1>2, <1>3, <2>1 DEF AtRest, Handle, Draft, Is
    <2>3. \A x1 \in DOMAIN item : item[x1].sn # item[v].sn \/ item[x1].st # "OPEN"
      BY <1>1, GetIs
    <2>4. QED
      BY <2>2, <2>3
  <1>5. PICK p : Promised(item, data, want, v, p) /\ Present(item, data, v)
    <2>1. ~Only(item, {})
      BY <1>3 DEF Only
    <2>2. \A o : Present(item, data, o) => o = v
      BY <1>3 DEF Present, Only
    <2>3. QED
      BY <1>2, <2>1, <2>2 DEF AtRest, Settled
  <1>6. PICK es : es = DiscardList(v) /\ Discards(item[v].list, data, v, es) /\ IsSeq(es)
    BY <1>3, ListWritesAre
  <1>7. PICK E : E = <<<<"settle", Gone>>>> /\ IsSeq(E)
    BY SingleIs
  <1>8. todo' = Cons(<<"item", v, "DISCARDING">>, es \o R3(v, E))
    <2>1. CleanupFile(v, "DISCARDING") \o E = es \o R3(v, E) /\ IsSeq(CleanupFile(v, "DISCARDING"))
      BY <1>6, <1>7, CleanupIs
    <2>2. IsSeq(SetItem(v, "DISCARDING")) /\ \A R : Joined(SetItem(v, "DISCARDING"), R) = Cons(<<"item", v, "DISCARDING">>, R)
      BY SingleIs DEF SetItem, Joined
    <2>3. todo' = Joined(Joined(SetItem(v, "DISCARDING"), CleanupFile(v, "DISCARDING")), E)
      BY <1>1, <1>7 DEF Joined
    <2>4. todo' = Joined(SetItem(v, "DISCARDING"), Joined(CleanupFile(v, "DISCARDING"), E))
      BY <1>7, <2>1, <2>2, <2>3, JoinedAssoc
    <2>5. Joined(CleanupFile(v, "DISCARDING"), E) = es \o R3(v, E)
      BY <2>1 DEF Joined
    <2>6. QED
      BY <2>2, <2>4, <2>5
  <1>9. Gone' = Gone /\ EndOf(Gone)' = E
    BY <1>1, <1>7 DEF EndOf, Gone
  <1>10. Promised(item', data', want', v, p) /\ Present(item', data', v) /\ Gone' \in want' /\ Works' /\ mode' = "up"
         /\ Discards(item'[v].list, data', v, es)
    BY <1>1, <1>4, <1>5, <1>6, <1>9 DEF Promised, Works, NoHand
  <1>11. AtUnlink'
    <2>1. todo' = Cons(<<"item", v, "DISCARDING">>, es \o R3(v, EndOf(Gone)'))
      BY <1>8, <1>9
    <2>2. QED
      BY <1>10, <2>1 DEF AtUnlink
  <1>12. FTypes'
    BY <1>1 DEF FTypes
  <1>13. QED
    BY <1>1, <1>11, <1>12, IdleLeak DEF Onward, Place

-----------------------------------------------------------------------------
\* Power failures, and what cafs_lite_init() does after them.

\* With no bad file left, the file system is settled.
LEMMA CleanIs ==
    ASSUME FTypes, Recoverable(item, data, want), BadItems = {}
    PROVE  Settled(item, data, want)
  <1>1. \A x1 \in DOMAIN item : item[x1].st \in {"CLOSED", "DIRTY"}
    BY DEF BadItems
  <1>2. \A v : ~Born(item, data, v) /\ ~Leaving(item, v)
    BY <1>1 DEF Born, Leaving, Is
  <1>3. \A o, n, st : ~Replaced(item, data, o, n, st)
    BY <1>1 DEF Replaced, Is
  <1>4. QED
    BY <1>2, <1>3 DEF Recoverable

\* What a client finds.
LEMMA FoundIs ==
    ASSUME FTypes, Settled(item, data, want)
    PROVE  /\ Found \in want
           /\ \/ Found = Gone /\ Only(item, {})
              \/ \E v : Promised(item, data, want, v, Found) /\ Present(item, data, v) /\ Lookup = v
  <1>1. CASE Only(item, {}) /\ Gone \in want
    <2>1. Lookup = 0
      BY <1>1, LookupIs DEF Only
    <2>2. QED
      BY <1>1, <2>1 DEF Found
  <1>2. ASSUME NEW v, NEW c, Promised(item, data, want, v, c), Present(item, data, v)
        PROVE  Found = c /\ Lookup = v
    <2>1. v \in DOMAIN item /\ item[v].st = "CLOSED"
      BY <1>2 DEF Present, Is
    <2>2. Lookup = v /\ v # 0
      BY <1>2, <2>1, LookupIs, ItemsAre DEF Present, Only
    <2> DEFINE l == item[v].list
               f(s) == IF Entry(v, s) = 0 THEN 0
                       ELSE LET d == data[l[Entry(v, s)].blk] IN IF d.st = "CLOSED" THEN d.val ELSE -2
    <2>3. Found = [s \in Segs |-> f(s)]
      BY <2>2 DEF Found
    <2>4. c \in [Segs -> -1 .. MaxItems] /\ Reads(l, data, c) /\ Whole(l, data) /\ 0 \notin Current(l)
      BY <1>2, <2>1, ItemsAre DEF Promised, Reads, Present, Current
    <2>5. ASSUME NEW s \in Segs PROVE c[s] = f(s)
      <3>1. CASE Entry(v, s) = 0 /\ \A i \in Current(l) : l[i].seg # s
        BY <2>4, <3>1 DEF Reads
      <3>2. CASE Entry(v, s) \in Current(l) /\ Entry(v, s) # 0 /\ l[Entry(v, s)].seg = s
        <4>1. PICK i \in Current(l) : l[i].seg = s /\ c[s] = data[l[i].blk].val
          BY <2>4, <3>2 DEF Reads
        <4>2. i = Entry(v, s)
          BY <2>4, <3>2, <4>1 DEF Whole, Distinct, Segments
        <4>3. data[l[i].blk].st = "CLOSED"
          BY <2>4, <4>1 DEF Whole
        <4>4. QED
          BY <3>2, <4>1, <4>2, <4>3
      <3>3. QED
        BY <2>1, <3>1, <3>2, EntryIs
    <2> HIDE DEF f
    <2>6. Found = c
      BY <2>3, <2>4, <2>5
    <2>7. QED
      BY <2>2, <2>6
  <1>3. QED
    BY <1>1, <1>2 DEF Settled, Promised

\* cl_block_discardopen() takes no block from a closed version.
LEMMA DiscardOpenStep ==
    ASSUME FTypes, Place, DiscardOpen
    PROVE  /\ FTypes' /\ Place' /\ LeakKept /\ mode' = mode
           /\ bad' = bad /\ mishaps' = mishaps /\ todo' = todo /\ BadItems' = BadItems
  <1> DEFINE b == Min(OpenBlocks)
  <1>1. /\ mode = "boot" /\ mode' = mode /\ want' = want /\ todo = <<>> /\ todo' = todo
        /\ item' = item /\ hand' = hand /\ clean' = clean /\ bad' = bad /\ count' = count /\ mishaps' = mishaps
        /\ BadItems = {} /\ OpenBlocks # {} /\ data' = [data EXCEPT ![b].st = "DIRTY"]
    BY DEF DiscardOpen, DiscardsOpen
  <1>2. AtBoot
    BY <1>1, PlaceIs DEF AtRest
  <1>3. Settled(item, data, want)
    BY <1>1, <1>2, CleanIs DEF AtBoot
  <1>4. b \in Blocks /\ data[b].st = "OPEN"
    <2>1. OpenBlocks \in SUBSET Nat
      BY CafsFileAssumption DEF OpenBlocks
    <2>2. b \in OpenBlocks
      BY <1>1, <2>1, MinIs
    <2>3. QED
      BY <2>2 DEF OpenBlocks
  <1> HIDE DEF b
  <1>5. data \in [Blocks -> BlockRec]
    BY DEF FTypes
  <1>6. /\ data' \in [Blocks -> BlockRec] /\ data'[b].st = "DIRTY"
        /\ \A x \in Blocks : x # b => data'[x] = data[x]
    BY <1>1, <1>4, <1>5 DEF BlockRec
  <1>7. FTypes'
    BY <1>1, <1>6 DEF FTypes
  <1>8. KeptFiles
    BY <1>1, <1>4, <1>6 DEF KeptFiles
  <1>9. Settled(item', data', want')
    BY <1>3, <1>8, SettledKept
  <1>10. AtBoot'
    BY <1>1, <1>2, <1>9 DEF AtBoot, Recoverable
  <1>11. KeepsClosed => KeepsClosed'
    BY <1>1, <1>4, <1>6 DEF KeepsClosed
  <1>12. KeepsOpen => KeepsOpen'
    BY <1>1, <1>4, <1>6 DEF KeepsOpen
  <1>13. BadItems' = BadItems
    BY <1>1 DEF BadItems
  <1>14. QED
    BY <1>1, <1>7, <1>10, <1>11, <1>12, <1>13 DEF Place, LeakKept

\* After the recovery the file is settled.
LEMMA BootDoneStep ==
    ASSUME FTypes, Place, BootDone
    PROVE  FTypes' /\ Place' /\ LeakKept /\ mode' = "up" /\ mishaps' = mishaps
  <1>1. /\ mode = "boot" /\ mode' = "up" /\ todo = <<>> /\ todo' = todo /\ clean' = FALSE
        /\ item' = item /\ data' = data /\ hand' = hand /\ bad' = bad /\ count' = count /\ mishaps' = mishaps
        /\ BadItems = {} /\ ~DiscardsOpen /\ want' = IF Found \in want THEN {Found} ELSE want
    BY DEF BootDone, disk
  <1>2. AtBoot
    BY <1>1, PlaceIs DEF AtRest
  <1>3. Settled(item, data, want) /\ hand = NoHand
    BY <1>1, <1>2, CleanIs DEF AtBoot
  <1>4. PICK c : c = Found
    OBVIOUS
  <1>5. want' = {c}
    BY <1>1, <1>3, <1>4, FoundIs
  <1>6. Gone' = Gone
    BY DEF Gone
  <1>7. Settled(item', data', want')
    <2>1. CASE c = Gone /\ Only(item, {})
      BY <1>1, <1>5, <1>6, <2>1 DEF Settled
    <2>2. CASE \E v : Promised(item, data, want, v, c) /\ Present(item, data, v)
      <3>1. PICK v : Promised(item, data, want, v, c) /\ Present(item, data, v)
        BY <2>2
      <3>2. Promised(item', data', want', v, c) /\ Present(item', data', v)
        BY <1>1, <1>5, <3>1 DEF Promised
      <3>3. QED
        BY <3>2 DEF Settled
    <2>3. QED
      BY <1>3, <1>4, <2>1, <2>2, FoundIs
  <1>8. AtRest'
    BY <1>1, <1>3, <1>7 DEF AtRest, NoHand
  <1>9. KeepsClosed => KeepsClosed'
    BY <1>1 DEF KeepsClosed
  <1>10. ASSUME KeepsOpen PROVE KeepsOpen'
    <2>1. \A b \in Blocks : data[b].st # "OPEN"
      <3>1. CASE OpenBlocks = {}
        BY <3>1 DEF OpenBlocks
      <3>2. CASE ~clean
        <4>1. \A v \in DOMAIN item : item[v].st \notin {"OPEN", "CLOSING"}
          BY <1>1 DEF BadItems
        <4>2. QED
          BY <1>1, <1>10, <3>2, <4>1 DEF KeepsOpen
      <3>3. QED
        BY <1>1, <3>1, <3>2 DEF DiscardsOpen
    <2>2. QED
      BY <1>1, <2>1 DEF KeepsOpen
  <1>11. FTypes'
    BY <1>1 DEF FTypes
  <1>12. QED
    BY <1>1, <1>8, <1>9, <1>10, <1>11 DEF Place, LeakKept

\* cafs_lite_init() gives up only after more bad files than it cleans.
LEMMA GiveUpStep ==
    ASSUME FTypes, Place, GiveUp
    PROVE  /\ FTypes' /\ Place' /\ LeakKept /\ mishaps' = mishaps
           /\ mode = "boot" /\ todo = <<>> /\ bad > MaxBad
  <1>1. /\ mode = "boot" /\ mode' = "failed" /\ todo = <<>> /\ todo' = todo /\ clean' = clean /\ want' = want
        /\ item' = item /\ data' = data /\ hand' = hand /\ bad' = bad /\ count' = count /\ mishaps' = mishaps
        /\ bad > MaxBad
    BY DEF GiveUp, disk
  <1>2. AtBoot
    BY <1>1, PlaceIs DEF AtRest
  <1>3. AtBoot'
    BY <1>1, <1>2 DEF AtBoot
  <1>4. FTypes'
    BY <1>1 DEF FTypes
  <1>5. KeepsClosed => KeepsClosed'
    BY <1>1 DEF KeepsClosed
  <1>6. KeepsOpen => KeepsOpen'
    BY <1>1 DEF KeepsOpen
  <1>7. QED
    BY <1>1, <1>3, <1>4, <1>5, <1>6 DEF Place, LeakKept

\* Wherever power fails, the file can be found again - but for the closing window.
LEMMA RecoverableIs ==
    ASSUME FTypes, Place, ~InClosingWindow
    PROVE  Recoverable(item, data, want)
  <1>1. CASE AtRest \/ AtGo \/ AtAlloc \/ AtAppend \/ AtStrike
    BY <1>1 DEF AtRest, AtGo, AtAlloc, AtAppend, AtStrike, Recoverable
  <1>2. CASE AtSettle
    BY <1>2 DEF AtSettle, Recoverable, Settled
  <1>3. CASE AtRemove
    BY <1>3 DEF AtRemove, Recoverable
  <1>4. CASE AtSwitch
    BY <1>4 DEF AtSwitch, Recoverable
  <1>5. CASE AtRepeat
    BY <1>5 DEF AtRepeat, Recoverable
  <1>6. CASE AtMark
    <2>1. PICK o, n : Replacing(item, data, o, n)
      BY <1>6 DEF AtMark
    <2>2. QED
      BY <2>1 DEF Replacing, Is, InClosingWindow
  <1>7. CASE AtBirth
    BY <1>7 DEF AtBirth, Recoverable
  <1>8. CASE AtClosing
    BY <1>8 DEF AtClosing, Recoverable, Settled
  <1>9. CASE AtUnlink
    BY <1>9 DEF AtUnlink, Recoverable, Settled
  <1>10. CASE AtDiscard
    BY <1>10 DEF AtDiscard, Recoverable
  <1>11. CASE AtForget \/ AtBoot
    BY <1>11 DEF AtForget, AtBoot
  <1>12. QED
    BY <1>1, <1>2, <1>3, <1>4, <1>5, <1>6, <1>7, <1>8, <1>9, <1>10, <1>11 DEF Place

\* A power failure outside the closing window leaves a file that can be recovered.
LEMMA CrashStep ==
    ASSUME FTypes, Place, Crash, "closing" \notin mishaps'
    PROVE  /\ FTypes' /\ Place' /\ mode' = "boot" /\ todo' = <<>> /\ bad' = 0
           /\ BadItems' = BadItems /\ mishaps \subseteq mishaps'
           /\ "crowd" \in mishaps' \/ ~(Cardinality(BadItems) > MaxBad)
           /\ KeepsClosed => KeepsClosed'
           /\ KeepsOpen /\ mishaps' = {} => KeepsOpen'
  <1>1. /\ mode' = "boot" /\ todo' = <<>> /\ hand' = NoHand /\ clean' = FALSE /\ bad' = 0
        /\ item' = item /\ data' = data /\ want' = want /\ count' = count
        /\ mishaps' = mishaps \cup (IF InClosingWindow THEN {"closing"} ELSE {})
                        \cup (IF InCleaningWindow THEN {"cleaning"} ELSE {})
                        \cup (IF Cardinality(BadItems) > MaxBad THEN {"crowd"} ELSE {})
    BY DEF Crash, disk
  <1>2. ~InClosingWindow /\ mishaps \subseteq mishaps'
        /\ ("crowd" \in mishaps' \/ ~(Cardinality(BadItems) > MaxBad))
        /\ (mishaps' = {} => ~InCleaningWindow)
    BY <1>1
  <1>3. Recoverable(item, data, want)
    BY <1>2, RecoverableIs
  <1>4. AtBoot'
    BY <1>1, <1>3 DEF AtBoot, NoHand
  <1>5. FTypes'
    <2>1. NoHand \in HandRec
      BY CafsFileAssumption DEF NoHand, HandRec
    <2>2. QED
      BY <1>1, <2>1 DEF FTypes
  <1>6. BadItems' = BadItems
    BY <1>1 DEF BadItems
  <1>7. KeepsClosed => KeepsClosed'
    BY <1>1 DEF KeepsClosed
  <1>8. ASSUME KeepsOpen, mishaps' = {} PROVE KeepsOpen'
    <2>1. mode = "up" \/ ~clean
      BY <1>2, <1>8 DEF InCleaningWindow
    <2>2. ASSUME NEW b, todo # <<>>, Head(todo) = <<"append", b>> PROVE \E v \in DOMAIN item : item[v].st = "OPEN"
      <3>1. AtAppend
        BY <2>2, PlaceIs
      <3>2. QED
        BY <3>1, DraftIs DEF AtAppend
    <2>3. \A b \in Blocks : data[b].st = "OPEN" =>
              \/ \E v \in DOMAIN item : item[v].st \in {"OPEN", "CLOSING"} /\ HasBlock(item[v].list, b)
              \/ \E v \in DOMAIN item : item[v].st = "OPEN"
      BY <1>8, <2>1, <2>2 DEF KeepsOpen
    <2>4. QED
      BY <1>1, <2>3 DEF KeepsOpen
  <1>9. QED
    BY <1>1, <1>2, <1>4, <1>5, <1>6, <1>7, <1>8 DEF Place

\* A call that works has something to do.
LEMMA WorkingNext == (Working => todo # <<>>)'
  <1>1. Working => todo # <<>>
    BY WorkingIs
  <1>2. QED
    BY <1>1, PTL

\* The cleaning of one bad file is what the place it was left at calls for.
LEMMA CleanNextStep ==
    ASSUME FTypes, Place, CleanNext
    PROVE  /\ FTypes' /\ Place' /\ LeakKept /\ mode = "boot" /\ mode' = "boot"
           /\ todo = <<>> /\ todo' # <<>> /\ bad' = bad + 1 /\ mishaps' = mishaps /\ BadItems' = BadItems
  <1> DEFINE m == Min(BadItems)
  <1>1. PICK v : v = m
    OBVIOUS
  <1>2. /\ mode = "boot" /\ todo = <<>> /\ BadItems # {} /\ bad <= MaxBad
        /\ IF item[v].st = "DISCARDING_HDR_LIST" /\
              Get(item[v].sn, "CLOSING") = 0 /\ Get(item[v].sn, "CLOSED") = 0
           THEN mode' = "failed" /\ UNCHANGED <<todo, clean, bad>>
           ELSE /\ todo' = CleanCalls(v)
                /\ clean' = (clean \/ LeavesOpen(v))
                /\ bad' = bad + 1
                /\ mode' = mode
        /\ item' = item /\ data' = data /\ hand' = hand /\ want' = want /\ mishaps' = mishaps /\ count' = count
    BY <1>1 DEF CleanNext, disk
  <1> HIDE DEF m
  <1>3. v \in DOMAIN item /\ item[v].st \notin {"CLOSED", "DIRTY"}
    <2>1. BadItems \in SUBSET Nat
      BY ItemsAre DEF BadItems
    <2>2. m \in BadItems
      BY <1>2, <2>1, MinIs DEF m
    <2>3. QED
      BY <1>1, <2>2 DEF BadItems
  <1>4. Recoverable(item, data, want) /\ hand = NoHand
    <2>1. AtBoot
      BY <1>2, PlaceIs DEF AtRest
    <2>2. QED
      BY <2>1 DEF AtBoot
  <1>5. IsSeq(<<>>) /\ IsSeq(MarkList(v)) /\ IsSeq(DiscardList(v)) /\ Discards(item[v].list, data, v, DiscardList(v))
        /\ (OwnBlocks(item[v].list) => Marks(item[v].list, data, v, MarkList(v)))
    BY <1>3, EmptyIs, ListWritesAre
  <1> DEFINE Goes == todo' = CleanCalls(v) /\ clean' = (clean \/ LeavesOpen(v)) /\ bad' = bad + 1 /\ mode' = "boot"
  <1>6. item[v].st # "DISCARDING_HDR_LIST" \/ Get(item[v].sn, "CLOSING") # 0 \/ Get(item[v].sn, "CLOSED") # 0 => Goes
    BY <1>2
  <1> DEFINE sn == item[v].sn
  <1>7. SUFFICES Goes /\ Working'
    <2>1. ASSUME Goes, Working'
          PROVE  /\ FTypes' /\ Place' /\ LeakKept /\ mode = "boot" /\ mode' = "boot"
                 /\ todo = <<>> /\ todo' # <<>> /\ bad' = bad + 1 /\ mishaps' = mishaps /\ BadItems' = BadItems
      <3>1. todo' # <<>>
        BY <2>1, WorkingNext
      <3>2. BadItems' = BadItems
        BY <1>2 DEF BadItems
      <3>3. KeepsClosed => KeepsClosed'
        BY <1>2 DEF KeepsClosed
      <3>4. clean \in BOOLEAN /\ clean' \in BOOLEAN /\ (clean => clean')
        BY <2>1 DEF FTypes
      <3>5. KeepsOpen => KeepsOpen'
        <4> HIDE DEF Goes
        <4>1. mode' = mode /\ todo = <<>>
          BY <1>2, <2>1 DEF Goes
        <4>2. QED
          BY <1>2, <3>4, <4>1 DEF KeepsOpen
      <3>6. FTypes'
        BY <1>2, <2>1, <3>4 DEF FTypes
      <3>7. Place'
        BY <2>1 DEF Place, Working
      <3>8. QED
        BY <1>2, <2>1, <3>1, <3>2, <3>3, <3>5, <3>6, <3>7 DEF LeakKept
    <2>2. QED
      BY <2>1
  <1>8. Goes => Works' /\ \A c : EndOf(c)' = <<>>
    BY <1>2, <1>4 DEF Works, EndOf, NoHand
  <1>9. Gone' = Gone /\ Recoverable(item', data', want')
    BY <1>2, <1>4 DEF Gone
  <1> HIDE DEF Goes
  <1>10. CASE item[v].st = "OPEN"
    <2>1. Goes
      BY <1>6, <1>10
    <2>2. CleanCalls(v) = R1(v, <<>>)
      <3>1. CleanCalls(v) = SetItem(v, "DIRTY")
        BY <1>10 DEF CleanCalls
      <3>2. QED
        BY <3>1, SingleIs, EmptyIs DEF SetItem, R1
    <2>3. LeavesOpen(v)
      BY <1>10 DEF LeavesOpen
    <2>4. AtForget'
      BY <1>2, <1>3, <1>8, <1>9, <1>10, <2>1, <2>2, <2>3 DEF Goes, AtForget, Is
    <2>5. QED
      BY <2>1, <2>4 DEF Working
  <1>11. CASE item[v].st = "DISCARDING"
    <2>1. Goes
      BY <1>6, <1>11
    <2>2. CleanCalls(v) = DiscardList(v) \o R3(v, <<>>)
      <3>1. CleanCalls(v) = CleanupFile(v, "DISCARDING")
        BY <1>11 DEF CleanCalls
      <3>2. CleanupFile(v, "DISCARDING") \o <<>> = DiscardList(v) \o R3(v, <<>>) /\ IsSeq(CleanupFile(v, "DISCARDING"))
        BY <1>5, CleanupIs
      <3>3. QED
        BY <3>1, <3>2, EmptyIs
    <2>3. Leaving(item, v) /\ Gone \in want
      BY <1>3, <1>4, <1>11 DEF Recoverable, Settled, Present, Born, Leaving, Replaced, Only, Is
    <2>4. AtDiscard'
      <3>1. PICK es : es = DiscardList(v)
        OBVIOUS
      <3>2. Leaving(item', v) /\ Gone' \in want' /\ Discards(item'[v].list, data', v, es)
        BY <1>2, <1>5, <1>9, <2>3, <3>1
      <3>3. todo' = es \o R3(v, EndOf(Gone)')
        BY <1>8, <2>1, <2>2, <3>1 DEF Goes
      <3>4. QED
        BY <1>8, <2>1, <3>2, <3>3 DEF AtDiscard
    <2>5. QED
      BY <2>1, <2>4 DEF Working
  <1>12. CASE item[v].st = "CLOSING"
    <2>1. Goes
      BY <1>6, <1>12
    <2>2. \A x1 \in DOMAIN item : item[x1].st # "CLOSED"
      BY <1>3, <1>4, <1>12 DEF Recoverable, Settled, Present, Born, Leaving, Replaced, Only, Is
    <2>3. Get(sn, "CLOSED") = 0
      BY <2>2, GetIs
    <2>4. CleanCalls(v) = IF item[v].hst = "CLOSED" THEN B1(v, <<>>) ELSE MarkList(v) \o L(v, B1(v, <<>>))
      <3>1. CleanCalls(v) = MarkFileClosed(v) \o SetItem(v, "CLOSED")
        BY <1>12, <2>3 DEF CleanCalls
      <3>2. SetItem(v, "CLOSED") = B1(v, <<>>)
        BY SingleIs, EmptyIs DEF SetItem, B1
      <3>3. IsSeq(B1(v, <<>>))
        BY <1>5, ShapesAre
      <3>4. QED
        BY <1>5, <3>1, <3>2, <3>3, MarkFileIs
    <2>5. CASE \E c : Promised(item, data, want, v, c) /\ Born(item, data, v)
      <3>1. PICK c : Promised(item, data, want, v, c) /\ Born(item, data, v)
        BY <2>5
      <3>2. Promised(item', data', want', v, c) /\ Born(item', data', v) /\ EndOf(c)' = <<>> /\ Works'
        BY <1>2, <1>8, <2>1, <3>1
      <3>3. CASE item[v].hst = "CLOSED"
        <4>1. todo' = B1(v, EndOf(c)') /\ Whole(item'[v].list, data')
          BY <1>2, <2>1, <2>4, <3>1, <3>2, <3>3 DEF Goes, Born
        <4>2. AtBirth'
          BY <3>2, <4>1 DEF AtBirth
        <4>3. QED
          BY <2>1, <4>2 DEF Working
      <3>4. CASE item[v].hst # "CLOSED"
        <4>1. PICK es : es = MarkList(v) /\ Marks(item[v].list, data, v, es)
          BY <1>5, <3>1 DEF Born, Half, Distinct
        <4>2. todo' = es \o L(v, B1(v, EndOf(c)')) /\ Marks(item'[v].list, data', v, es)
          BY <1>2, <2>1, <2>4, <3>2, <3>4, <4>1 DEF Goes
        <4>3. AtBirth'
          BY <3>2, <4>2 DEF AtBirth
        <4>4. QED
          BY <2>1, <4>3 DEF Working
      <3>5. QED
        BY <3>3, <3>4
    <2>6. CASE \E o, c : Promised(item, data, want, v, c) /\ Replaced(item, data, o, v, "CLOSING")
      <3>1. PICK o, c : Promised(item, data, want, v, c) /\ Replaced(item, data, o, v, "CLOSING")
        BY <2>6
      <3>2. todo' = B1(v, <<>>)
        BY <2>1, <2>4, <3>1 DEF Goes, Replaced
      <3>3. Promised(item', data', want', v, c) /\ Replaced(item', data', o, v, "CLOSING") /\ Works' /\ mode' = "boot"
        BY <1>2, <1>8, <2>1, <3>1 DEF Goes
      <3>4. AtRepeat'
        BY <3>2, <3>3 DEF AtRepeat
      <3>5. QED
        BY <2>1, <3>4 DEF Working
    <2>7. QED
      BY <1>3, <1>4, <1>12, <2>5, <2>6 DEF Recoverable, Settled, Present, Born, Leaving, Replaced, Only, Is
  <1>13. CASE item[v].st = "DISCARDING_HDR_LIST"
    <2>1. PICK n, c : \E st \in {"CLOSING", "CLOSED"} :
              Promised(item, data, want, n, c) /\ Replaced(item, data, v, n, st)
      BY <1>3, <1>4, <1>13 DEF Recoverable, Settled, Present, Born, Leaving, Replaced, Only, Is
    <2>2. PICK st \in {"CLOSING", "CLOSED"} : Promised(item, data, want, n, c) /\ Replaced(item, data, v, n, st)
      BY <2>1
    <2>3. /\ n \in DOMAIN item /\ item[n].st = st /\ item[n].sn = sn /\ item[n].hst = "CLOSED"
          /\ \A x1 \in DOMAIN item : item[x1].st \in {"CLOSING", "CLOSED"} => x1 = n
      BY <1>13, <2>2 DEF Replaced, Only, Is
    <2>4. IsSeq(MarkList(n))
      BY <2>3, ListWritesAre
    <2>5. CASE st = "CLOSING"
      <3>1. Get(sn, "CLOSING") = n /\ n # 0
        BY <2>3, <2>5, GetIs, ItemsAre
      <3>2. Goes
        BY <1>6, <3>1
      <3>3. CleanCalls(v) = Replaces(n, v)
        BY <1>13, <3>1 DEF CleanCalls, Replaces
      <3>4. IsSeq(R5(v, n, <<>>))
        BY <1>5, ShapesAre
      <3>5. Joined(MarkFileClosed(n), R5(v, n, <<>>)) = R5(v, n, <<>>)
        BY <2>3, <2>4, <3>4, MarkFileIs DEF Joined
      <3>6. Replaces(n, v) = Cons(<<"item", n, "CLOSING">>, R5(v, n, <<>>))
        <4>1. /\ Joined(Replaces(n, v), <<>>) = Cons(<<"item", n, "CLOSING">>, Joined(MarkFileClosed(n), R5(v, n, <<>>)))
              /\ IsSeq(Replaces(n, v))
          BY <1>5, <2>4, FinishIs
        <4>2. Joined(Replaces(n, v), <<>>) = Replaces(n, v)
          BY <4>1, EmptyIs DEF Joined
        <4>3. QED
          BY <3>5, <4>1, <4>2
      <3>7. /\ Promised(item', data', want', n, c) /\ Replaced(item', data', v, n, "CLOSING") /\ Works' /\ mode' = "boot"
            /\ todo' = Cons(<<"item", n, "CLOSING">>, R5(v, n, <<>>))
        BY <1>2, <1>8, <2>2, <2>5, <3>2, <3>3, <3>6 DEF Goes
      <3>8. AtRepeat'
        BY <3>7 DEF AtRepeat
      <3>9. QED
        BY <3>2, <3>8 DEF Working
    <2>6. CASE st = "CLOSED"
      <3>1. Get(sn, "CLOSING") = 0 /\ Get(sn, "CLOSED") = n /\ n # 0
        BY <2>3, <2>6, GetIs, ItemsAre
      <3>2. Goes
        BY <1>6, <3>1
      <3>3. CleanCalls(v) = Resumes(n, v)
        BY <1>13, <3>1 DEF CleanCalls, Resumes
      <3>4. Resumes(n, v) = R3(v, <<>>)
        <4>1. CleanupFile(v, "DISCARDING_HDR_LIST") \o <<>> = R3(v, <<>>)
              /\ IsSeq(CleanupFile(v, "DISCARDING_HDR_LIST"))
          BY <1>5, CleanupIs
        <4>2. Resumes(n, v) = <<>> \o CleanupFile(v, "DISCARDING_HDR_LIST")
          BY DEF Resumes, FinishClose
        <4>3. QED
          BY <4>1, <4>2, EmptyIs
      <3>5. /\ Promised(item', data', want', n, c) /\ Replaced(item', data', v, n, "CLOSED") /\ Works'
            /\ todo' = R3(v, EndOf(c)')
        BY <1>2, <1>8, <2>2, <2>6, <3>2, <3>3, <3>4 DEF Goes
      <3>6. AtRemove'
        BY <3>5 DEF AtRemove
      <3>7. QED
        BY <3>2, <3>6 DEF Working
    <2>7. QED
      BY <2>5, <2>6
  <1>14. QED
    <2>1. item[v].st \in Statuses
      BY <1>3, ItemsAre DEF ItemRec
    <2>2. QED
      BY <1>3, <1>10, <1>11, <1>12, <1>13, <2>1 DEF Statuses

-----------------------------------------------------------------------------
\* The inductive invariant, and what it says.

\* The bad files can be counted.
LEMMA BadFinite ==
    ASSUME FTypes
    PROVE  IsFiniteSet(BadItems) /\ Cardinality(BadItems) \in Nat
  <1>1. DOMAIN item = 1 .. Len(item) /\ Len(item) \in Nat
    BY ItemsAre
  <1>2. IsFiniteSet(DOMAIN item)
    BY <1>1, FS_Interval
  <1>3. BadItems \in SUBSET DOMAIN item
    BY DEF BadItems
  <1>4. QED
    BY <1>2, <1>3, FS_Subset, FS_CardinalityType

\* An empty device satisfies the invariant.
LEMMA FileInitially == FileInit => CafsInv
  <1> SUFFICES ASSUME FileInit PROVE CafsInv
    OBVIOUS
  <1>1. /\ item = <<>> /\ data = [b \in Blocks |-> [st |-> "FREE", val |-> 0]] /\ mode = "up" /\ todo = <<>>
        /\ hand = NoHand /\ clean = FALSE /\ bad = 0 /\ want = {Gone} /\ count = 0
    BY DEF FileInit
  <1>2. NoHand \in HandRec
    BY CafsFileAssumption DEF NoHand, HandRec
  <1>3. item \in Seq(ItemRec) /\ DOMAIN item = {}
    BY <1>1
  <1>4. data \in [Blocks -> BlockRec] /\ \A b \in Blocks : data[b].st = "FREE"
    BY <1>1, CafsFileAssumption DEF BlockRec
  <1>5. FTypes
    <2>1. 0 \in 0 .. MaxItems /\ 0 \in Nat
      BY CafsFileAssumption
    <2>2. QED
      BY <1>1, <1>2, <1>3, <1>4, <2>1 DEF FTypes
  <1>6. AtRest
    BY <1>1, <1>3 DEF AtRest, Settled, Only
  <1>7. BadInv
    BY <1>1 DEF BadInv
  <1>8. LeakInv
    BY <1>4 DEF LeakInv, KeepsClosed, KeepsOpen
  <1>9. QED
    BY <1>5, <1>6, <1>7, <1>8 DEF CafsInv, Place

\* The steps that keep the mode and do not end a mishap.
LEMMA OnwardKeeps ==
    ASSUME FTypes, BadInv, LeakInv, Onward, mishaps' = mishaps,
           mode = "up" \/ (todo # <<>> /\ bad' = bad)
    PROVE  BadInv' /\ LeakInv'
  <1>1. LeakInv'
    BY DEF LeakInv, Onward, LeakKept
  <1>2. BadInv'
    <2>1. CASE mode = "up"
      BY <2>1 DEF BadInv, Onward, BadKept
    <2>2. CASE mode # "up"
      <3>1. SUFFICES ASSUME mishaps \cap {"closing", "crowd"} = {}
                     PROVE  /\ mode' = "boot"
                            /\ bad' + Cardinality(BadItems)' <= IF todo' = <<>> THEN MaxBad ELSE MaxBad + 1
        BY DEF BadInv
      <3>2. /\ mode = "boot" /\ todo # <<>> /\ bad' = bad /\ mode' = mode
            /\ bad + Cardinality(BadItems) <= MaxBad + 1
        BY <2>2, <3>1 DEF BadInv, Onward, BadKept
      <3>3. /\ BadItems' \subseteq BadItems
            /\ todo' = <<>> => \E v \in BadItems : v \notin BadItems'
        BY <3>2 DEF Onward, BadKept
      <3>4. PICK T : T = BadItems'
        OBVIOUS
      <3>5. IsFiniteSet(BadItems) /\ Cardinality(BadItems) \in Nat /\ T \in SUBSET BadItems
        BY <3>3, <3>4, BadFinite
      <3>6. Cardinality(T) \in Nat /\ Cardinality(T) <= Cardinality(BadItems)
            /\ (Cardinality(BadItems) = Cardinality(T) => BadItems = T)
        BY <3>5, FS_Subset, FS_CardinalityType
      <3>7. todo' = <<>> => Cardinality(T) # Cardinality(BadItems)
        BY <3>3, <3>4, <3>6
      <3>8. Cardinality(BadItems)' = Cardinality(T)
        BY <3>4
      <3>9. bad \in Nat
        BY DEF FTypes
      <3>10. QED
        BY <3>2, <3>5, <3>6, <3>7, <3>8, <3>9, CafsFileAssumption
    <2>3. QED
      BY <2>1, <2>2
  <1>3. QED
    BY <1>1, <1>2

\* Each step of a client's call leads from a place to a place.
LEMMA ClientStep ==
    ASSUME FTypes, Place,
           \/ LoadSegment \/ Finish \/ Settle \/ SaveAlloc \/ SaveAppend \/ SaveStrike
           \/ Create \/ Close \/ Unlink \/ (\E trunc \in BOOLEAN : OpenWrite(trunc))
           \/ \E s \in Segs : WriteSame(s) \/ WriteOther(s)
    PROVE  Onward /\ mishaps' = mishaps /\ mode = "up"
  <1>1. CASE LoadSegment
    BY <1>1, LoadStep DEF LoadSegment
  <1>2. CASE Finish
    BY <1>2, FinishStep DEF Finish
  <1>3. CASE Settle
    BY <1>3, SettleStep DEF Settle
  <1>4. CASE SaveAlloc
    BY <1>4, AllocStep DEF SaveAlloc
  <1>5. CASE SaveAppend
    BY <1>5, AppendStep DEF SaveAppend
  <1>6. CASE SaveStrike
    BY <1>6, StrikeStep DEF SaveStrike
  <1>7. CASE Create
    BY <1>7, CreateStep DEF Create, Idle
  <1>8. CASE Close
    BY <1>8, CloseStep DEF Close, Idle
  <1>9. CASE Unlink
    BY <1>9, UnlinkCall DEF Unlink, Idle
  <1>10. ASSUME NEW trunc \in BOOLEAN, OpenWrite(trunc) PROVE Onward /\ mishaps' = mishaps /\ mode = "up"
    BY <1>10, OpenStep DEF OpenWrite, Idle
  <1>11. ASSUME NEW s \in Segs, WriteSame(s) PROVE Onward /\ mishaps' = mishaps /\ mode = "up"
    BY <1>11, WriteSameStep DEF WriteSame, Idle
  <1>12. ASSUME NEW s \in Segs, WriteOther(s) PROVE Onward /\ mishaps' = mishaps /\ mode = "up"
    BY <1>12, WriteOtherStep DEF WriteOther, Idle
  <1>13. QED
    BY <1>1, <1>2, <1>3, <1>4, <1>5, <1>6, <1>7, <1>8, <1>9, <1>10, <1>11, <1>12

\* The invariant is inductive.
LEMMA FileStep == CafsInv /\ [FileNext]_fileVars => CafsInv'
  <1> SUFFICES ASSUME CafsInv, [FileNext]_fileVars, "closing" \notin mishaps'
               PROVE  FTypes' /\ Place' /\ BadInv' /\ LeakInv'
    BY DEF CafsInv
  <1> DEFINE Client ==
           \/ LoadSegment \/ Finish \/ Settle \/ SaveAlloc \/ SaveAppend \/ SaveStrike
           \/ Create \/ Close \/ Unlink \/ (\E trunc \in BOOLEAN : OpenWrite(trunc))
           \/ \E s \in Segs : WriteSame(s) \/ WriteOther(s)
             Fine == FTypes /\ Place /\ BadInv /\ LeakInv
  <1>1. mishaps' = mishaps \/ Crash => Fine
    BY DEF CafsInv, Crash
  <1>2. CASE Client
    <2>1. mishaps' = mishaps
      BY <1>2 DEF LoadSegment, Finish, Settle, SaveAlloc, SaveAppend, SaveStrike, Create, Close, Unlink,
                  OpenWrite, WriteSame, WriteOther
    <2>2. Fine
      BY <1>1, <2>1
    <2>3. Onward /\ mode = "up"
      BY <1>2, <2>2, ClientStep
    <2>4. BadInv' /\ LeakInv'
      <3>1. FTypes /\ BadInv /\ LeakInv
        BY <2>2
      <3>2. mode = "up" \/ (todo # <<>> /\ bad' = bad)
        BY <2>3
      <3>3. QED
        BY <2>1, <2>3, <3>1, <3>2, OnwardKeeps
    <2>5. QED
      BY <2>3, <2>4 DEF Onward
  <1>3. CASE Write
    <2>1. mishaps' = mishaps /\ todo # <<>> /\ bad' = bad
      BY <1>3 DEF Write
    <2>2. Fine
      BY <1>1, <2>1
    <2>3. Onward
      BY <1>3, <2>2, WriteStep
    <2>4. BadInv' /\ LeakInv'
      BY <2>1, <2>2, <2>3, OnwardKeeps
    <2>5. QED
      BY <2>3, <2>4 DEF Onward
  <1>4. CASE CleanNext
    <2>1. mishaps' = mishaps
      BY <1>4 DEF CleanNext
    <2>2. Fine
      BY <1>1, <2>1
    <2>3. /\ FTypes' /\ Place' /\ LeakKept /\ mode = "boot" /\ mode' = "boot"
          /\ todo = <<>> /\ todo' # <<>> /\ bad' = bad + 1 /\ BadItems' = BadItems
      BY <1>4, <2>2, CleanNextStep
    <2>4. BadInv'
      <3>1. Cardinality(BadItems)' = Cardinality(BadItems) /\ Cardinality(BadItems) \in Nat /\ bad \in Nat
        BY <2>2, <2>3, BadFinite DEF FTypes
      <3>2. QED
        BY <2>1, <2>2, <2>3, <3>1, CafsFileAssumption DEF BadInv
    <2>5. LeakInv'
      BY <2>1, <2>2, <2>3 DEF LeakInv, LeakKept
    <2>6. QED
      BY <2>3, <2>4, <2>5
  <1>5. CASE GiveUp
    <2>1. mishaps' = mishaps
      BY <1>5 DEF GiveUp
    <2>2. Fine
      BY <1>1, <2>1
    <2>3. FTypes' /\ Place' /\ LeakKept /\ mode = "boot" /\ todo = <<>> /\ bad > MaxBad
      BY <1>5, <2>2, GiveUpStep
    <2>4. mishaps \cap {"closing", "crowd"} # {}
      <3>1. Cardinality(BadItems) \in Nat /\ bad \in Nat
        BY <2>2, BadFinite DEF FTypes
      <3>2. QED
        BY <2>2, <2>3, <3>1, CafsFileAssumption DEF BadInv
    <2>5. BadInv' /\ LeakInv'
      BY <2>1, <2>2, <2>3, <2>4 DEF BadInv, LeakInv, LeakKept
    <2>6. QED
      BY <2>3, <2>5
  <1>6. CASE DiscardOpen
    <2>1. mishaps' = mishaps
      BY <1>6 DEF DiscardOpen
    <2>2. Fine
      BY <1>1, <2>1
    <2>3. /\ FTypes' /\ Place' /\ LeakKept /\ mode' = mode
          /\ bad' = bad /\ todo' = todo /\ BadItems' = BadItems
      BY <1>6, <2>2, DiscardOpenStep
    <2>4. BadInv' /\ LeakInv'
      BY <2>1, <2>2, <2>3 DEF BadInv, LeakInv, LeakKept
    <2>5. QED
      BY <2>3, <2>4
  <1>7. CASE BootDone
    <2>1. mishaps' = mishaps
      BY <1>7 DEF BootDone
    <2>2. Fine
      BY <1>1, <2>1
    <2>3. FTypes' /\ Place' /\ LeakKept /\ mode' = "up"
      BY <1>7, <2>2, BootDoneStep
    <2>4. BadInv' /\ LeakInv'
      BY <2>1, <2>2, <2>3 DEF BadInv, LeakInv, LeakKept
    <2>5. QED
      BY <2>3, <2>4
  <1>8. CASE Crash
    <2>1. Fine
      BY <1>1, <1>8
    <2>2. /\ FTypes' /\ Place' /\ mode' = "boot" /\ todo' = <<>> /\ bad' = 0
          /\ BadItems' = BadItems /\ mishaps \subseteq mishaps'
          /\ "crowd" \in mishaps' \/ ~(Cardinality(BadItems) > MaxBad)
          /\ KeepsClosed => KeepsClosed'
          /\ KeepsOpen /\ mishaps' = {} => KeepsOpen'
      BY <1>8, <2>1, CrashStep
    <2>3. BadInv'
      <3>1. Cardinality(BadItems)' = Cardinality(BadItems) /\ Cardinality(BadItems) \in Nat
        BY <2>1, <2>2, BadFinite
      <3>2. "crowd" \notin mishaps' => 0 + Cardinality(BadItems) <= MaxBad
        BY <2>2, <3>1, CafsFileAssumption
      <3>3. QED
        BY <2>2, <3>1, <3>2 DEF BadInv
    <2>4. LeakInv'
      <3>1. mishaps' = {} => mishaps = {}
        BY <2>2
      <3>2. QED
        BY <2>1, <2>2, <3>1 DEF LeakInv
    <2>5. QED
      BY <2>2, <2>3, <2>4
  <1>9. CASE UNCHANGED fileVars
    <2>1. /\ item' = item /\ data' = data /\ mode' = mode /\ todo' = todo /\ hand' = hand /\ clean' = clean
          /\ bad' = bad /\ want' = want /\ mishaps' = mishaps /\ count' = count
      BY <1>9 DEF fileVars
    <2>2. Fine
      BY <1>1, <2>1
    <2>3. FTypes' /\ BadInv' /\ LeakInv'
      BY <2>1, <2>2 DEF FTypes, BadInv, BadItems, LeakInv, KeepsClosed, KeepsOpen
    <2>4. Place'
      <3>1. (\A c : EndOf(c)' = EndOf(c)) /\ Works' = Works /\ Whither' = Whither /\ Handle' = Handle /\ Gone' = Gone
        BY <2>1 DEF EndOf, Works, Whither, Handle, Gone, NoHand
      <3>2. /\ AtRest' = AtRest /\ AtGo' = AtGo /\ AtAlloc' = AtAlloc /\ AtAppend' = AtAppend
            /\ AtStrike' = AtStrike /\ AtSettle' = AtSettle
        BY <2>1, <3>1 DEF AtRest, AtGo, AtAlloc, AtAppend, AtStrike, AtSettle
      <3>3. AtRemove' = AtRemove /\ AtSwitch' = AtSwitch /\ AtRepeat' = AtRepeat
        BY <2>1, <3>1 DEF AtRemove, AtSwitch, AtRepeat
      <3>4. AtMark' = AtMark /\ AtBirth' = AtBirth /\ AtClosing' = AtClosing
        <4>1. AtMark' = AtMark
          BY <2>1, <3>1 DEF AtMark
        <4>2. AtBirth' = AtBirth
          BY <2>1, <3>1 DEF AtBirth
        <4>3. AtClosing' = AtClosing
          BY <2>1, <3>1 DEF AtClosing
        <4>4. QED
          BY <4>1, <4>2, <4>3
      <3>5. AtUnlink' = AtUnlink /\ AtDiscard' = AtDiscard /\ AtForget' = AtForget /\ AtBoot' = AtBoot
        BY <2>1, <3>1 DEF AtUnlink, AtDiscard, AtForget, AtBoot
      <3>6. QED
        BY <2>2, <3>2, <3>3, <3>4, <3>5 DEF Place
    <2>5. QED
      BY <2>3, <2>4
  <1>10. QED
    BY <1>2, <1>3, <1>4, <1>5, <1>6, <1>7, <1>8, <1>9 DEF FileNext, Work

\* Until power fails in the closing window, the file is at one of the places its
\* calls and the recovery have.
THEOREM CafsInvariant == FileSpec => []CafsInv
  <1>1. QED
    BY FileInitially, FileStep, PTL DEF FileSpec

\* Between two calls the file is settled.
LEMMA RestIs ==
    ASSUME CafsInv, Idle, "closing" \notin mishaps
    PROVE  FTypes /\ AtRest /\ Settled(item, data, want) /\ LeakInv
  <1>1. AtRest
    BY PlaceIs DEF CafsInv, Idle, AtBoot
  <1>2. QED
    BY <1>1 DEF CafsInv, AtRest

\* Whenever power failed, the file has its contents from before or from after the
\* call of cl_file_close() or cafs_lite_unlink() that was interrupted.
THEOREM FileIsOldOrNew == FileSpec => []OldOrNew
  <1>1. CafsInv => OldOrNew
    BY RestIs, FoundIs DEF OldOrNew
  <1>2. QED
    BY <1>1, CafsInvariant, PTL

\* finish_close() and cl_file_clean() leave one closed version.
THEOREM FileHasOneVersion == FileSpec => []OneVersion
  <1>1. CafsInv => OneVersion
    <2> DEFINE S == {i \in DOMAIN item : item[i].st = "CLOSED"}
    <2>1. SUFFICES ASSUME CafsInv, Idle, "closing" \notin mishaps PROVE Cardinality(S) <= 1
      BY DEF OneVersion
    <2>2. S = {} \/ \E v : S = {v}
      <3>1. CASE Only(item, {})
        BY <3>1 DEF Only
      <3>2. CASE \E v : Present(item, data, v)
        BY <3>2 DEF Present, Only, Is
      <3>3. QED
        BY <2>1, <3>1, <3>2, RestIs DEF Settled
    <2> HIDE DEF S
    <2>3. CASE S = {}
      BY <2>3, FS_EmptySet
    <2>4. ASSUME NEW v, S = {v} PROVE Cardinality(S) <= 1
      BY <2>4, FS_Singleton
    <2>5. QED
      BY <2>2, <2>3, <2>4
  <1>2. QED
    BY <1>1, CafsInvariant, PTL

\* When no file is open, each block in use holds a segment of the file.
THEOREM NoBlockIsLost == FileSpec => []NoLeak
  <1>1. CafsInv => NoLeak
    <2>1. SUFFICES ASSUME CafsInv, Idle, hand = NoHand, mishaps = {}, BadItems = {},
                          NEW b \in Blocks, data[b].st \in {"OPEN", "CLOSED"}
                   PROVE  Lookup # 0 /\ \E s \in Segs :
                            Entry(Lookup, s) # 0 /\ item[Lookup].list[Entry(Lookup, s)].blk = b
      BY DEF NoLeak
    <2>2. FTypes /\ Settled(item, data, want) /\ KeepsClosed /\ KeepsOpen /\ mode = "up" /\ todo = <<>>
      BY <2>1, RestIs DEF LeakInv, Idle
    <2>3. \A x1 \in DOMAIN item : item[x1].st \in {"CLOSED", "DIRTY"}
      BY <2>1 DEF BadItems
    <2>4. data[b].st = "CLOSED"
      BY <2>1, <2>2, <2>3 DEF KeepsOpen
    <2>5. PICK v \in DOMAIN item : HasBlock(item[v].list, b) /\ item[v].st = "CLOSED"
      BY <2>2, <2>3, <2>4 DEF KeepsClosed
    <2>6. Lookup = v /\ v # 0 /\ Whole(item[v].list, data)
      <3>1. Only(item, {v}) /\ Whole(item[v].list, data)
        BY <2>2, <2>5 DEF Settled, Present, Only
      <3>2. QED
        BY <2>2, <2>5, <3>1, LookupIs, ItemsAre DEF Only
    <2> DEFINE l == item[v].list
    <2>7. PICK i \in Current(l) : l[i].blk = b
      BY <2>5, <2>6 DEF HasBlock, Whole
    <2>8. i # 0 /\ l[i].seg \in Segs /\ 0 \notin Current(l)
      BY <2>2, ItemsAre DEF Current, EntryRec
    <2>9. Entry(v, l[i].seg) \in Current(l) /\ Entry(v, l[i].seg) # 0 /\ l[Entry(v, l[i].seg)].seg = l[i].seg
      BY <2>2, EntryIs
    <2>10. Entry(v, l[i].seg) = i
      BY <2>6, <2>8, <2>9 DEF Whole, Distinct, Segments
    <2>11. QED
      BY <2>6, <2>7, <2>8, <2>10
  <1>2. QED
    BY <1>1, CafsInvariant, PTL

\* cafs_lite_init() succeeds whenever power failed, but for the closing window and
\* for more bad files than it cleans.
THEOREM FilesAreMountable == FileSpec => []Mountable
  <1>1. CafsInv => Mountable
    BY DEF CafsInv, BadInv, Mountable
  <1>2. QED
    BY <1>1, CafsInvariant, PTL
=============================================================================
