------------------------------ MODULE Transfer -------------------------------
(***************************************************************************)
(* read() and write() of a device (unistd_data_transfer.c) and             *)
(* asynchronous I/O (aio.c) over a driver (hwpl/lpc17xx/uart_dev.c) and    *)
(* the scheduler's table.                                                  *)
(*                                                                         *)
(* A transfer is started in a privileged call with interrupts disabled,    *)
(* and the thread goes to sleep in the same call.  The driver's interrupt  *)
(* ends it through a callback that wakes whoever sleeps on the device.  A  *)
(* thread that finds a signal to be what woke it last cancels whatever the *)
(* driver has under way.  Callbacks run with the system's state as a       *)
(* record and return the record they leave.                                *)
(***************************************************************************)
EXTENDS SchedTable, FiniteSets, FiniteSetsExt

CONSTANTS
    BasePriority,  \* the priorities of the threads
    Sizes,         \* sizes of transfers
    RxFifo,        \* bytes the receiver holds
    TxFifo,        \* UART_TX_FIFO_SIZE
    MaxBytes,      \* bound: bytes received in a behaviour
    MaxCalls,      \* bound: calls of read(), write() and aio in a behaviour
    MaxSignals     \* bound: signals in a behaviour

ASSUME TransferAssumption ==
    /\ BasePriority \in [Task -> Priority]
    /\ Sizes \subseteq Nat \ {0}
    /\ RxFifo \in Nat \ {0} /\ TxFifo \in Nat \ {0}
    /\ MaxBytes \in Nat /\ MaxCalls \in Nat /\ MaxSignals \in Nat

VARIABLES
    k,       \* the task table
    pc,      \* where each thread is between its steps
    io,      \* priv_device_data_transfer_t of the call each thread is in
    aio,     \* one struct aiocb of each thread
    u,       \* uart_local and the UART's registers
    spoilt,  \* history: the mishaps that the properties except
    bytes, calls, sent \* counters for the bounds

vars == <<k, pc, io, aio, u, spoilt, bytes, calls, sent>>

PC == {"run", "check", "cancel", "listio", "suspended"}

\* The context of a callback: whose transfer it is, or none.
None == <<"none", 0>>
Ctx  == {None} \cup ({"io", "aio"} \X Task)

\* handle + read: readers and writers sleep on objects of their own.
DevObj(read) == <<"device", IF read THEN 1 ELSE 0>>
AioObj(t)    == <<"aio", t>>

At(c, l)   == k.current = c /\ pc[c] = l
Goto(c, l) == pc' = [pc EXCEPT ![c] = l]

\* ret and op.nbyte of a transfer; got counts the bytes put into its buffer.
NoIo  == [read |-> FALSE, ret |-> 0, nbyte |-> 0, got |-> 0]
\* busy is op.buf # NULL, nbyte op.nbyte and then aio_nbytes.
NoAio == [busy |-> FALSE, failed |-> FALSE, nbyte |-> 0, got |-> 0]

Init ==
    /\ LET top == Max({BasePriority[t] : t \in Task})
       IN  k = [used |-> Task, exec |-> {t \in Task : BasePriority[t] = top},
                fifo |-> {}, inuse |-> Task, active |-> Task, stopped |-> {},
                timed |-> {}, prio |-> BasePriority, base |-> BasePriority,
                block |-> [t \in Task |-> NULL],
                unblock |-> [t \in Task |-> "NONE"],
                cur |-> top, current |-> 0, pend |-> FALSE]
    /\ pc = [t \in Task |-> "run"]
    /\ io = [t \in Task |-> NoIo]
    /\ aio = [t \in Task |-> NoAio]
    /\ u = [rbrie |-> FALSE, etbei |-> FALSE, rcb |-> None, wcb |-> None,
            rxbuf |-> None, rxlen |-> 0, txlen |-> 0, fifo |-> 0]
    /\ spoilt = {} /\ bytes = 0 /\ calls = 0 /\ sent = 0

\* What callbacks and driver functions work on.
Sys == [k |-> k, io |-> io, aio |-> aio, u |-> u, spoilt |-> spoilt]

\* The interrupt handler has stored bytes for a transfer that is over, through a
\* pointer that may be one to a call that has returned.  Behaviours are followed
\* up to there.
Defined == "stray" \notin spoilt

\* A privileged call or an interrupt handler leaves the system as s.
Leave(s) ==
    \E x \in {s} :
        /\ k' \in Return(x.k)
        /\ io' = x.io /\ aio' = x.aio /\ u' = x.u /\ spoilt' = x.spoilt

-----------------------------------------------------------------------------
\* Callbacks.

\* Mutant: the threads that sleep on the device are forgotten.
Waiting_None(s, read) == {}
Waiting(s, read) == {t \in s.k.used \cap s.k.inuse : s.k.block[t] = DevObj(read)}

\* priv_data_transfer_callback(): the priority of the thread that started the
\* transfer counts even when it is not among those that are woken.
IoCallback(s, t, read, cancelled) ==
    LET W == Waiting(s, read)
        p == Max({s.k.prio[i] : i \in W \cup ({t} \cap s.k.inuse)} \cup {NoPriority})
    IN  [s EXCEPT !.k = UpdateOnWake(AssertActive(s.k, W, "TRANSFER"), p),
                  !.io[t].nbyte = IF cancelled THEN -1 ELSE @]

\* aio_data_transfer_callback(), for a list of one transfer and SIGEV_NONE.
AioCallback(s, t) ==
    LET k1 == UpdateOnWake(AssertActive(s.k, {t}, "AIO"), s.k.prio[t])
        suspended == s.k.block[t] = AioObj(t) /\ t \notin s.k.active
    IN  [s EXCEPT !.aio[t].busy = FALSE, !.k = IF suspended THEN k1 ELSE @]

Callback(s, ctx, read, cancelled) ==
    CASE ctx[1] = "io"  -> IoCallback(s, ctx[2], read, cancelled)
      [] ctx[1] = "aio" -> AioCallback(s, ctx[2])
      [] OTHER -> s

\* exec_readcallback(): it does not pass on that the operation was cancelled.
ReadCallback(s) ==
    [Callback(s, s.u.rcb, TRUE, FALSE) EXCEPT !.u.rcb = None, !.u.rbrie = FALSE]

WriteCallback(s, cancelled) ==
    [Callback(s, s.u.wcb, FALSE, cancelled) EXCEPT !.u.wcb = None, !.u.etbei = FALSE]

-----------------------------------------------------------------------------
\* The driver.

Smaller(x, y) == IF x < y THEN x ELSE y

\* The transfer r with n bytes stored in its buffer, and less to go for.
Filled(r, n, less) == [r EXCEPT !.got = @ + n, !.nbyte = @ - less]

\* n bytes are stored in the buffer of ctx, and nbyte is set, by a pointer.
Store(s, ctx, n, less) ==
    CASE ctx[1] = "io"  -> [s EXCEPT !.io[ctx[2]] = Filled(@, n, less)]
      [] ctx[1] = "aio" -> [s EXCEPT !.aio[ctx[2]] = Filled(@, n, less)]
      [] OTHER -> s

\* _hwpl_uart_dev_read(): the result, and the system it leaves.  Bytes that are
\* there end the transfer at once; rx_bufp stays set.
DevRead(s, ctx, n, nonblock) ==
    LET m  == Smaller(n, s.u.fifo)
        s1 == [s EXCEPT !.u.rxbuf = ctx, !.u.rxlen = n - m, !.u.fifo = @ - m]
    IN  CASE s.u.rbrie -> [ret |-> -1, s |-> s]
          [] ~s.u.rbrie /\ m > 0 -> [ret |-> m, s |-> Store(s1, ctx, m, 0)]
          [] ~s.u.rbrie /\ m = 0 /\ nonblock ->
                [ret |-> -1, s |-> [Store(s1, ctx, 0, n) EXCEPT !.u.rcb = None, !.u.rxbuf = None]]
          [] OTHER -> [ret |-> 0, s |-> [s1 EXCEPT !.u.rcb = ctx, !.u.rbrie = TRUE]]

\* _hwpl_uart_dev_write()
DevWrite(s, ctx, n) ==
    IF s.u.etbei THEN [ret |-> -1, s |-> s]
    ELSE [ret |-> 0, s |-> [s EXCEPT !.u.txlen = n - Smaller(n, TxFifo),
                                     !.u.wcb = ctx, !.u.etbei = TRUE]]

DevStart(s, ctx, read, n, nonblock) ==
    IF read THEN DevRead(s, ctx, n, nonblock) ELSE DevWrite(s, ctx, n)

\* hwpl_uart_setaction() without a callback: both directions are cancelled,
\* whoever started them.  rx_bufp stays set.
CancelAll(s, c) ==
    LET s1 == IF s.u.rbrie THEN ReadCallback(s) ELSE s
        s2 == IF s1.u.etbei THEN WriteCallback(s1, TRUE) ELSE s1
        others == {s.u.rcb, s.u.wcb} \ {None, <<"io", c>>}
    IN  [s2 EXCEPT !.u.rcb = None, !.u.wcb = None,
                   !.spoilt = IF others = {} THEN @ ELSE @ \cup {"cancelled"}]

\* Mutant: a write is never over.
TxDone_Never == u.txlen < 0
TxDone == u.txlen = 0

\* Mutant: nbyte is not reduced to what has come.
IsrRead_FullCount(m) ==
    IF u.rxbuf = None THEN Sys
    ELSE [Store(Sys, u.rxbuf, m, 0) EXCEPT
            !.u.rxbuf = None, !.u.fifo = @ - m, !.u.rxlen = @ - m,
            !.spoilt = IF m > 0 /\ u.rcb # u.rxbuf THEN @ \cup {"stray"} ELSE @]
IsrRead(m) ==
    IF u.rxbuf = None THEN Sys
    ELSE [Store(Sys, u.rxbuf, m, u.rxlen - m) EXCEPT
            !.u.rxbuf = None, !.u.fifo = @ - m, !.u.rxlen = @ - m,
            !.spoilt = IF m > 0 /\ u.rcb # u.rxbuf THEN @ \cup {"stray"} ELSE @]

IsrWrite(s) ==
    IF TxDone THEN WriteCallback(s, FALSE)
    ELSE [s EXCEPT !.u.txlen = @ - Smaller(@, TxFifo)]

\* _hwpl_uart_isr(): received bytes are read whether or not the receiver
\* interrupt is enabled; thre is whether the transmitter is empty.
Isr(thre) ==
    /\ Defined
    /\ (u.rbrie /\ u.fifo > 0) \/ (thre /\ u.etbei)
    /\ \E s1 \in {IsrRead(Smaller(u.rxlen, u.fifo))} :
       \E s2 \in {IF u.fifo = 0 THEN Sys ELSE ReadCallback(s1)} :
          Leave(IF thre /\ u.etbei THEN IsrWrite(s2) ELSE s2)
    /\ UNCHANGED <<pc, bytes, calls, sent>>

\* A byte comes in.
Rx ==
    /\ Defined /\ bytes < MaxBytes /\ u.fifo < RxFifo
    /\ u' = [u EXCEPT !.fifo = @ + 1]
    /\ bytes' = bytes + 1
    /\ UNCHANGED <<k, pc, io, aio, spoilt, calls, sent>>

-----------------------------------------------------------------------------
\* The environment.

SysTick ==
    /\ Defined
    /\ k' \in Return(SwitchContext(k))
    /\ UNCHANGED <<pc, io, aio, u, spoilt, bytes, calls, sent>>

\* signal_priv_activate(), whatever the thread is doing.
Signal(t) ==
    /\ Defined /\ sent < MaxSignals
    /\ k' \in Return(SignalActivate(k, t))
    /\ sent' = sent + 1
    /\ UNCHANGED <<pc, io, aio, u, spoilt, bytes, calls>>

-----------------------------------------------------------------------------
\* read() and write()

\* The thread goes to sleep while the interrupts are still disabled.
Sleeps(s, c, read) ==
    [s EXCEPT !.k = UpdateOnSleep([s.k EXCEPT !.block[c] = DevObj(read)])]

\* priv_device_data_transfer()
Transfer(c, read, n, nonblock) ==
    LET s0 == [Sys EXCEPT !.io[c] = [NoIo EXCEPT !.read = read, !.nbyte = n]]
        d  == DevStart(s0, <<"io", c>>, read, n, nonblock)
        s1 == [d.s EXCEPT !.io[c].ret = d.ret]
    IN  /\ Defined /\ At(c, "run") /\ calls < MaxCalls
        /\ Leave(IF d.ret = 0 THEN Sleeps(s1, c, read) ELSE s1)
        /\ Goto(c, "check")
        /\ calls' = calls + 1
        /\ UNCHANGED <<bytes, sent>>

\* What device_data_transfer() returns when no signal was there.
Result(c) == IF io[c].ret # 0 THEN io[c].ret ELSE io[c].nbyte

\* device_data_transfer() after the privileged call.  This driver never ends a
\* transfer with nothing, so there is nothing to try again.
Check(c) ==
    /\ Defined /\ At(c, "check")
    /\ IF k.unblock[c] = "SIGNAL"
       THEN Goto(c, "cancel") /\ UNCHANGED io
       ELSE Goto(c, "run") /\ io' = [io EXCEPT ![c] = NoIo]
    /\ UNCHANGED <<k, aio, u, spoilt, bytes, calls, sent>>

\* unistd_clr_action(), and EINTR.
Cancel(c) ==
    /\ Defined /\ At(c, "cancel")
    /\ Leave([CancelAll(Sys, c) EXCEPT !.io[c] = NoIo])
    /\ Goto(c, "run")
    /\ UNCHANGED <<bytes, calls, sent>>

-----------------------------------------------------------------------------
\* Asynchronous I/O.

\* aio_data_transfer().  op.buf is set before the driver is called, and stays
\* set when the driver refuses; next is where lio_listio() goes on.
AioStart(c, read, n, next) ==
    LET s0 == [Sys EXCEPT !.aio[c] = [NoAio EXCEPT !.busy = TRUE, !.nbyte = n],
                          !.k.block[c] = NULL]
        d  == DevStart(s0, <<"aio", c>>, read, n, FALSE)
        s1 == [d.s EXCEPT !.aio[c].failed = (d.ret < 0)]
    IN  /\ Defined /\ At(c, "run") /\ calls < MaxCalls
        /\ aio[c].busy => aio[c].failed
        /\ Leave(IF d.ret > 0 THEN AioCallback(s1, c) ELSE s1)
        /\ Goto(c, next)
        /\ calls' = calls + 1
        /\ UNCHANGED <<bytes, sent>>

\* priv_suspend(), from aio_suspend() for a transfer that was started, and from
\* lio_listio() in any case.
Suspend(c) ==
    /\ Defined
    /\ At(c, "listio") \/ (At(c, "run") /\ aio[c].busy /\ ~aio[c].failed)
    /\ IF aio[c].busy
       THEN /\ Leave([Sys EXCEPT !.k = TimedBlock(k, AioObj(c), "never"),
                                 !.spoilt = IF aio[c].failed THEN @ \cup {"refused"} ELSE @])
            /\ Goto(c, "suspended")
       ELSE Leave(Sys) /\ Goto(c, "run")
    /\ UNCHANGED <<bytes, calls, sent>>

SuspendReturn(c) ==
    /\ Defined /\ At(c, "suspended")
    /\ Goto(c, "run")
    /\ UNCHANGED <<k, io, aio, u, spoilt, bytes, calls, sent>>

-----------------------------------------------------------------------------
ThreadStep(c) ==
    \/ \E read, nonblock \in BOOLEAN, n \in Sizes : Transfer(c, read, n, nonblock)
    \/ Check(c) \/ Cancel(c)
    \/ \E read \in BOOLEAN, n \in Sizes, next \in {"run", "listio"} : AioStart(c, read, n, next)
    \/ Suspend(c) \/ SuspendReturn(c)

Next ==
    \/ Rx \/ SysTick
    \/ \E thre \in BOOLEAN : Isr(thre)
    \/ \E t \in Task : Signal(t)
    \/ \E c \in Task : ThreadStep(c)

\* The transmitter becomes empty again and again, and its interrupt is served.
Spec == Init /\ [][Next]_vars /\ WF_vars(Isr(TRUE))

-----------------------------------------------------------------------------
TypeOK ==
    /\ k \in Kernel
    /\ pc \in [Task -> PC]
    /\ \A t \in Task :
          /\ io[t].ret \in -1 .. Max(Sizes) /\ io[t].nbyte \in -1 .. Max(Sizes)
          /\ io[t].got \in 0 .. Max(Sizes) /\ aio[t].got \in 0 .. Max(Sizes)
    /\ {u.rcb, u.wcb, u.rxbuf} \subseteq Ctx
    /\ u.rxlen \in 0 .. Max(Sizes) /\ u.txlen \in 0 .. Max(Sizes) /\ u.fifo \in 0 .. RxFifo
    /\ spoilt \subseteq {"stray", "cancelled", "refused"}

\* No completion is lost: whoever sleeps on the device has a transfer that the
\* driver works on with its interrupt enabled, and whoever is suspended has an
\* asynchronous one - unless lio_listio() waits for one the driver refused.
SleeperServed ==
    Defined => \A t \in Task \ k.active :
        CASE k.block[t] = DevObj(TRUE)  -> u.rbrie /\ u.rcb = <<"io", t>>
          [] k.block[t] = DevObj(FALSE) -> u.etbei /\ u.wcb = <<"io", t>>
          [] OTHER -> \/ "refused" \in spoilt
                      \/ u.rbrie /\ u.rcb = <<"aio", t>>
                      \/ u.etbei /\ u.wcb = <<"aio", t>>

\* A read that succeeds returns the number of bytes it has got, unless another
\* thread's signal cancelled it.
TrueCount ==
    Defined /\ "cancelled" \notin spoilt =>
        \A c \in Task :
            At(c, "check") /\ k.unblock[c] # "SIGNAL" /\ io[c].read /\ Result(c) > 0 =>
                Result(c) = io[c].got

\* Some ready task has its execute flag set, and only ready tasks have it.
WorkConserving ==
    /\ k.exec \subseteq Ready(k)
    /\ k.exec = {} => Ready(k) = {}

\* A thread that waits for a write to complete is woken.
WriteEnds ==
    \A t \in Task :
        t \notin k.active /\ k.block[t] = DevObj(FALSE) ~> t \in k.active \/ ~Defined
=============================================================================
