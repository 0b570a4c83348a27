# CoActionOS in TLA+

CoActionOS is a small POSIX-like operating system for Cortex-M3
microcontrollers: a pre-emptive, priority-based scheduler, POSIX threads,
mutexes, condition variables, semaphores, message queues, signals,
asynchronous I/O, a flash file system and a device layer.  This directory
holds TLA+ models of its kernel, the TLC runs that check them and the TLAPS
proofs about them.  All paths below are relative to
`src/CoActionOS/src/` unless they start with `src/`.

## 1. The system

### 1.1 How it executes

* A thread runs unprivileged.  It may be interrupted between any two
  instructions, by a device interrupt, by SysTick (the end of its round-robin
  slice) or by the microsecond timer.
* `hwpl_core_privcall(f, args)` is an SVC: `f` runs in handler mode.
  `task_init()` gives SVC, PendSV, SysTick and the device interrupts the same
  priority, so a privileged function is atomic with respect to the others.
  The exception is the UART that a debug build prints on: `set_uart_priority()`
  (`sys/sched/sched.c`, lines 57 to 65) makes its interrupt more urgent than
  these.  It is left out of the models; a build with `NO_DEBUG` has no such interrupt.
* `task_priv_switch_context()` only *pends* PendSV; the switch happens when the
  handler returns.
* So the unit of interleaving is: a privileged call, an interrupt handler, or a
  piece of unprivileged code that reads or writes shared state.  Whatever is
  read in one unit may be stale in the next.

### 1.2 Components

| component | sources | state | operations | hard because |
|---|---|---|---|---|
| task switcher | `hwpl/core_cm3/task.c` | `task_table[]` (USED, EXEC, IS_FIFO flags, stack, round-robin time), `task_current` | new/del task, exec flags, context switch, SysTick, interrupt a task with a call | pre-emption, slices |
| scheduler | `sys/sched/sched.c`, `sched_priv.c` | `sched_table[]` (flags, priority, block object, wake time), `sched_current_priority` | update on wake / sleep / stop, unblock all, scheduler loop | cached priority and flags must agree with the table |
| threads | `sys/sched/sched_thread.c`, `sys/pthread/pthread_create.c` | entry of the table, exit status | create (two privileged calls), exit, join | check-then-act across privileged calls, slot reuse |
| time | `sys/sched/sched_timing.c`, `sys/unistd/sleep.c`, `usleep.c` | wake times, timer compare register, second counter | timed block, match and overflow interrupts | deadline against a running timer |
| mutexes, conditions | `sys/pthread/pthread_mutex.c`, `pthread_cond.c` | owner, lock count, priority ceiling | lock, trylock, timedlock, unlock, wait, signal, broadcast | hand-off, time-out races, priority changes |
| semaphores | `sys/semaphore/sem.c` | value, waiters | post, wait, trywait, timedwait, unlink | value changed outside the kernel |
| message queues | `sys/mqueue/mqueue.c` | message table, counts | send, receive, timed forms | copy outside the kernel, priority order |
| signals | `sys/signal/*.c` | pending sets, handlers, real-time queue | kill, deliver, stop, continue, wait | delivery on another thread's stack |
| processes | `sys/sched/sched_process.c`, `sys/unistd/_exit.c`, `sys/signal/_wait.c` | zombie flags, parents | start, exit, wait | exit against wait |
| device transfer, aio | `sys/unistd/unistd_data_transfer.c`, `sys/aio/aio.c` | operation record of the transfer | read, write, callback, cancel | callback against sleep |
| flash file system | `sys/cafs_lite/*.c` | blocks, serial-number list, scratch blocks | create, write, close, remove, recovery | power failure between two flash writes |
| memory allocator | `sys/syscalls/mallocr.c` etc. | chunk list | malloc, free, realloc | chunk arithmetic |
| application loader | `sys/sysfs/appfs*.c` | pages of RAM and flash | install, exec, unlink | page bitmap |
| link | `sys/link/`, `hwpl/share/link_protocol*.c` | packet state | request/response over serial | lost bytes |
| drivers | `hwpl/<mcu>/`, `hwdl/` | registers | device specific | hardware |
| bootloader, Applib | `src/CoActionOS-Bootloader`, `src/CoActionOS-Applib` | - | - | - |

### 1.3 How the components interact

* Every blocking call ends in `sched_priv_timedblock()` or
  `sched_priv_update_on_sleep()`: it stores the address it waits for in the
  caller's `block_object` and the deadline in `wake`, and takes the caller off
  the processor.  Every wake-up is `sched_priv_assert_active()`, which clears
  both, followed by `sched_priv_update_on_wake()` with a priority.
* A wake-up says only *what kind* of event it was (`sched_unblock_type_t`); a
  signal, a time-out and the awaited event all end the same wait.  What the
  caller makes of it is the caller's business, and most callers do not look.
* `sched_current_priority` and the execute flags are caches.  They are
  recomputed only by a wake-up at or above the cached priority, or when a task
  leaves the processor.  The mutex code writes the cache directly.
* Looking a waiter up (`sched_get_highest_priority_blocked()`) is a scan of the
  table; `pthread_cond_signal()`, `pthread_cond_wait()` and `sem_post()` make it
  before they enter the kernel.

### 1.4 What makes each component correct

| component | properties |
|---|---|
| scheduler | the caches agree with the table (`ExecIsTopReady`); only a ready task of the top priority runs (`RunningIsTop`); the processor is not left idle (`WorkConserving`); the same with stopped tasks (`RightTasksRun`) |
| task switcher | a task that may execute, and the scheduler, get the processor again and again (`NoStarvation`) |
| threads | a join returns the status of the thread it was called for (`JoinReturnsStatus`); a thread that ends and its joiner do not both sleep (`NoLostJoin`) |
| time | the compare register covers the next sleeper (`MatchCoversSleepers`); nobody is woken early (`NoEarlyWake`), everybody is woken (`SleepersWake`) |
| mutexes, conditions | zero means owner (`HolderOwnsUndisturbed`); no wait for a free mutex (`NoWaitOnFree`); no owner that does not know (`NoOrphan`); ceiling protocol (`PriorityProtocol`); hand-off to waiters (`IsHandOffLock`) |
| semaphores | units are conserved (`NoDoubleGrant`, `NoLostPost`) |
| message queues | messages are delivered once, unchanged and in order (`IsPrioQueue`); the count is right (`CountMatches`); no wake-up is lost (`NoForgotten`) |
| device transfer, aio | whoever sleeps is known to the driver (`SleeperServed`); a read returns what it has got (`TrueCount`); a write ends (`WriteEnds`) |
| processes, signals | no ended child is missed (`NoMissedChild`) or reaped twice (`ReapedOnce`) |
| flash file system | committed files survive any power failure (`Durable`, `NothingInRam`, `OldOrNew`) in one version (`OneVersion`); the device can be mounted (`Mountable`); no block is lost (`NoLeak`) |
| link | a call returns (`CallEnds`); after a recovery both sides are in step (`InStep`); success means that the command was executed (`Truthful`) |

## 2. The modules

| module | models | composed of |
|---|---|---|
| `SchedTable` | task table and scheduler table as one record, the privileged functions as operators on it | - |
| `Sched` | threads over the table: creation, sleep, signals, join, termination, timer, tick | `SchedTable` |
| `HandOffLock` | abstract specification of a mutex | - |
| `Mutex` | mutexes and condition variables | `SchedTable`; each mutex implements `HandOffLock` |
| `Sem` | a semaphore | `SchedTable` |
| `PrioQueue` | abstract specification of a message queue | - |
| `Mqueue` | a message queue | `SchedTable`; implements `PrioQueue` |
| `Transfer` | device and asynchronous transfers over the UART driver | `SchedTable` |
| `Process` | processes, `_exit()`, `waitpid()`, default actions of signals | `SchedTable` |
| `Timing` | the microsecond timer and the sleepers' deadlines | - |
| `RoundRobin` | slices and order of `task_context_switcher()` | - |
| `Flash` | blocks, scratch area and serial number list of the flash file system | - |
| `CafsFile` | the versions of a file, and the cleaning after a power failure | - |
| `Link` | host and device at the two ends of a serial line | - |
| `SchedTableProofs` | lemmas about the operators of `SchedTable`, least and best elements | `SchedTable` |
| `SchedProofs` | theorems about threads | `Sched`, `SchedTableProofs` |
| `MutexProofs` | theorems about mutexes: waiters, owners, the refinement, priorities | `Mutex`, `SchedTableProofs` |
| `SemProofs` | theorems about the units and the waiters of a semaphore | `Sem`, `SchedTableProofs` |
| `MqueueProofs` | theorems about the message counter, the wake-ups and the order of messages | `Mqueue`, `SchedTableProofs` |
| `TransferProofs` | theorems about transfers and their callbacks, and about the files of the flash file system | `Transfer`, `CafsFile`, `SchedTableProofs` |
| `DeviceProofs` | theorems about the timer and its sleepers, the blocks of the flash file system, and the link | `Timing`, `Flash`, `Link` |
| `ProcessProofs` | theorems about processes that end, are waited for, stop and go on | `Process`, `SchedTableProofs` |
| `MC*` | values of the constants and state constraints for TLC | the module each is named after |

`PROJECT.json` maps every definition to the lines it models.

**State.**  `SchedTable!Kernel` is the record of both tables.  A flag is the set
of the tasks that have it; `block_object` is a pair of a kind and an index in
place of an address; a wake time is abstracted to whether there is one
(`timed`), and `Timing` models what is abstracted here.  `pend` is the pended
PendSV; `Return(k)` performs the switch, so between two steps `pend` is false.

**Atomicity.**  In the modules over the table one action is one privileged call,
one interrupt, or one piece of unprivileged code that touches shared state.  A
thread's place between such pieces is `pc[t]`; only the task in `k.current` takes
a step of its own, and interrupts come at any time.  `sem->value++` and
`mq->age++` are two actions because each compiles to a load and a store outside
the kernel.  In the file system, whose lock lets one call in at a time, one action
is one write to the device; a call is the sequence `todo` of the writes it has
still to make, and power may fail between any two.  Four actions stand for several
writes.  In `CafsFile`, creating or opening a file (`Create`, `OpenWrite`: the
blocks of its header and its lists, the item in the serial number list, the copied
entries) and allocating a block (`SaveAlloc`: its header, then its contents): what is cut
off there is open, in the model as in the code, and discarded by the next
mount.  In `Flash`, the closing of a file and its removal (`Commit`,
`RemoveFile`), whose own writes are the subject of `CafsFile`.  In `Link` an action is the
sending or the receiving of one packet or acknowledgement.

**Which task is next.**  In `SchedTable` a switch may pick any task whose execute
flag is set, or the scheduler (`Dispatch`); which one it is, and that each gets
its turn, is the subject of `RoundRobin`.

**Clients.**  Threads call any operation at any time, with these restrictions: a
client only unlocks, or waits on a condition with, a mutex that it believes it
holds; it passes thread ids that `pthread_create()` has returned; and it starts no
second asynchronous transfer with a control block that is in use.  Calls that fail a check and
change nothing are left out.

**Signals.**  `Process` has the whole of a signal: a frame on the target's stack,
`signal_priv_activate()`, and the action when the target runs next.  The other
modules have only `signal_priv_activate()`, what every signal does to its target
before the handler runs: the target becomes active, its block object and its
deadline are gone, and the unblock type is `SIGNAL`.  `signal_send()` checks the
target's id outside of the kernel.  In `Sched` and `Process`, whose threads end,
the target may be gone by the privileged call, and its entry free or handed out
again: `Sched` has the check and the call as two actions, `Process` lets a signal go to any entry of
the table, as `signal_priv_send()` does.  In the other modules threads never
end.  The UART and a line of one
port stand for every device that transfers by interrupt.

**File system.**  `Flash` and `CafsFile` split it at `cl_block_alloc()`.  In
`Flash` a file is one block and its commit one write, and space runs out, so that
sections are swept, saved to the scratch area, erased and restored.  In `CafsFile`
blocks are plentiful and simply reused when dirty, and the commit of a file with
header, segment list and data blocks is the sequence of its status changes.
A status can only clear bits (`Over`, `Fails`).

**Link.**  Packets carry what they are part of instead of bytes; contents that
differ have different checksums, so damage is always seen.  One command of each
shape stands for the others of that shape: with data after the reply
(`readserialno`), before it (`read`), with one path (`unlink`), two (`rename`), data from
the host (`write`) or no argument (`close`).  A packet of data that comes
where the device waits for a command may be taken for any of these; one that is taken for a `write` to the
link's own descriptor is like an unknown command.  Shapes that are not modelled:
a reply and data together (`stat`, `fstat`, `readdir`), `ioctl`, which sends no reply when a read of
its argument fails, the commands that go on with a path that was not read (`open`, `exec`, `mkdir`,
`chown`, `chmod`), and `link_cmd_link()`, which
reads its second path only if the first has the right size.

**History variables.**  `inc` and `want` (Sched) tell the threads apart that use
the same table entry; `held` (Mutex) is what clients believe; `strayed`
(Sched) is whether a signal has activated an entry that holds no thread; `posts` and
`acquired` (Sem) count units; `due` (Timing) is the time that was asked for;
`files` (Flash) and `want` (CafsFile) are what the client was promised; `executed`
(Link) and `reaps` (Process) count what was done.  `spoilt` names the mishaps that
have happened so far: places where the code's own gaps end a promise (3.3).  In
`Link` it is called `slips`, and a recovery in time empties it; in `CafsFile`, `mishaps`.  No guard of the
code depends on any of them.

## 3. The runs

| run | checks | shows |
|---|---|---|
| `sched` | `TypeOK ExecIsTopReady RunningIsTop JoinReturnsStatus NoLostJoin` | strict priority scheduling with creation, sleep, signals, joins and termination, until a signal has gone astray; the join hand-shake with entries that are reused |
| `mutex` | `TypeOK HolderOwnsUndisturbed NoWaitOnFree NoOrphan PriorityProtocol WorkConserving IsHandOffLock` | a hand-off lock with a working ceiling protocol, time-outs of both kinds, a condition variable and a signal included |
| `sem` | `NoDoubleGrant NoLostPost` | with posters above and at the waiters' priority no unit is lost or handed out twice before a mishap; timed waits that give their unit back do not hand it out twice |
| `timing` | `TypeOK MatchCoversSleepers NoEarlyWake SleepersWake` | deadlines in this and the next periods, interrupts late |
| `round_robin` | `NoStarvation` | the carried-over slices starve nobody |
| `mqueue` | `CountMatches NoForgotten IsPrioQueue` | until two calls overlap in one slot the queue is a priority queue; the count is right although calls overlap; no wake-up is lost but in the windows named |
| `transfer` | `SleeperServed TrueCount WorkConserving WriteEnds` | the callback and the sleep never miss each other, because the thread goes to sleep with interrupts disabled; a signal's cancellation included |
| `process` | `NoMissedChild ReapedOnce RightTasksRun` | SIGCHLD, sent thread by thread, wakes every parent that sleeps; stop and continue keep the caches right |
| `flash` | `Durable Mountable NothingInRam` | the scratch area and the copy of the serial number list survive two power failures, also one during the recovery from the other |
| `cafs_file` | `OldOrNew OneVersion NoLeak Mountable` | replacing, truncating and removing a file is atomic with respect to power failures, but for the closing window |
| `link` | `InStep Truthful CallEnds` | with losses, damage, late answers and a killed host |
| `file_closing` | `AlwaysOldOrNew` fails | a power failure in the closing window brings the old version back without the blocks that the new one has replaced (`sys/cafs_lite/cafs_lite_file.c`, line 596) |

Every run but the last passes; the last one shows a disagreement between the code
and what its comments say, quoted in `PROJECT.json` under `findings`.  Every
property of a passing run has a mutant, a plausible bug in a modelled definition
(the operators whose comments begin with "Mutant"), under which TLC finds it
violated.

Every module states its variables' types in `TypeOK`.  It is an invariant of the
runs `sched`, `mutex` and `timing`, where it also bounds a count or a time of the
code: the lock count of a recursive mutex, and the microseconds of a wake time.
The specification of `Flash` is `FlashSpec` (`FlashInit`, `FlashNext`,
`FlashTypeOK`) and that of `Link` is `LinkSpec`, because their proofs share a module
with those of `Timing`.

Deadlock checking is off: a system in which every thread has ended or waits, or in
which a bound is reached, stops.

### 3.1 Bounds

* `TaskTotal`: three threads (four entries) and two priorities give a hand-off
  with a bystander and pre-emption; `sem` has four threads, so that two post
  while two wait; in `transfer` two threads share the device.
* `sched`: three births and a signal; the constraint `Bound` of `MCSched` allows
  more than two of these in one behaviour only when all threads have one priority, and
  no third birth with a signal that has gone astray.  Two births
  fill the table, the third reuses an entry.
* `mutex`: `MaxWaits = 2` and `MaxSignals = 1`, with the constraint of `MCMutex`:
  after the first of these, nobody sleeps while the mutex is locked twice; two waits
  only without sleepers, recursion and signals from then on.  `MaxLocks = 2` counts a recursive lock to its limit.
* `sem`: two posts, a timed wait and a signal; the constraint `OneMishap` stops at
  a second mishap, after which no property claims anything.
* `mqueue`: two slots, three sends, messages of two priorities and of length zero
  and one, so that the queue is full, empty and out of order; one call with a
  deadline; one receiver and two senders, of
  which one does not block.  The constraint `OneOverlap` of `MCMqueue` follows a
  behaviour in which calls have overlapped in a slot up to the next mishap.  The
  theorems about the queue have neither bound.
* `transfer`: transfers of one and two bytes over a transmitter of one byte and a
  receiver of two; three calls, two bytes received, one signal.  Behaviours end
  where the interrupt handler stores a byte through a pointer that is no longer
  valid (`Defined`).
* `process`: the first process and one child, one more thread, two signals:
  a parent with two threads that wait for one child, or one that creates a
  thread while its child looks for its threads.  The second signal comes only in
  behaviours without more threads (`Bound` of `MCProcess`).
* `Timing`: a period of two seconds of two ticks and a margin of one tick; the
  horizon of 9 ticks covers more than two periods, so that deadlines lie in this
  period, in the next and beyond, at the very end of a period and just behind
  the timer.  `usleep()`'s compensation for the time of the call itself
  (600 cycles) lies below a tick.
* `RoundRobin`: a slice of two units tells an unused, a partly used and a used
  slice apart.  `MaxNew` bounds the creation of threads: a thread that is
  created again and again in the same entry brings a fresh slice each time and
  can keep another one, whose slice is used, waiting.
* `flash`: two sections of four blocks and two scratch entries, with two files:
  seven writes fill the device more than once, so that both sections are swept
  and the scratch area is full and erased.  `FlashAssumption` asks that a sweep
  fits into the scratch area, and for more than one block and more than one scratch
  entry, as the code's geometries have them.  Two power failures: the second may interrupt
  the recovery from the first, and comes before the last write (`Bound` of
  `MCFlash`).
* `cafs_file`: two segments, three data blocks and three versions: a version is
  replaced while a third is written; two power failures.  `MaxBad`, the bad files
  that `cafs_lite_init()` cleans, is 4 in the code and 2 in the run, so that three
  versions are enough for a mount that gives up (`GiveUp`); `file_closing` has 4.
* `link`: three calls, the one that connects included, two faults, a late time-out,
  a killed host; `MaxTries` is 3 as in the host (`link.c`, line 13): the first packet of length zero, a
  repeated one and giving up.

### 3.2 Fairness

* `RoundRobin`: weak fairness of `SysTick` (the hardware timer expires) and of
  the scheduler's loop (it contains no wait while tasks are active).
* `Timing!FairSpec`: time passes, and interrupts are served.
* `Transfer`: the transmitter becomes empty again and again and its interrupt is
  served.  Nothing is assumed of the receiver or of the threads.
* `Link`: host and device each go on while they can; nothing is assumed of the
  line, of the caller, or of the time-outs but that a host which waits for a quiet
  line gives up in the end.

### 3.3 Where the properties do not hold

The passing runs leave some clients and behaviours out, by a constant or by a name in
`spoilt` (`mishaps` of `CafsFile`, `slips` of `Link`).  Each of the following is in the model and appears as a counterexample
when the exception is taken away; it bounds what the runs say.

* Sleeps (`sched_timing.c`): a sleep too short to be programmed (40us) leaves its
  wake time in the table (line 94); it wakes the next, unlimited, wait, or an
  entry that is being created, and `ExecIsTopReady` fails.  `SleepKinds` of the
  run therefore lacks `"near"`, and so do the proofs.
* Signals (`pthread_kill.c`): the id of the target is checked outside of the kernel
  (line 153), and the privileged call (line 186) runs `signal_priv_activate()`
  even if the entry has been freed since, or handed out again to a thread that is not
  activated yet (`task.c`, lines 439 and 440).  It raises `sched_current_priority` to the priority that the
  entry has left, and clears the execute flags of the tasks below, although nothing at that priority
  can run: `strayed`.
* Joins (`pthread_create.c`): after a signal the loop at line 133 joins whichever
  thread uses the entry by then (hence `sent = 0` in `JoinReturnsStatus`), and
  so does the slower of two threads that join the same one; the check at line
  120 and the blocking are two steps, so two threads that join each other can
  both pass it and sleep for ever.
* Mutexes (`pthread_mutex.c`): with the default ceiling of zero a hand-off (line
  331) lowers the new owner to the ceiling, so the run has a ceiling of one.
  A signal ends the wait of `pthread_mutex_lock()`, which returns zero (line
  118): `signal`.  Line 300 raises the owner's priority without
  raising `sched_current_priority`, so that a wake-up at the old current priority
  takes the processor from the owner; line 319 restores the base priority even
  if the thread owns another mutex.  So `RunningIsTop` is not claimed in
  `Mutex`, and `PriorityProtocol` is for one mutex.  Of three threads of one
  priority two can pass a mutex to each other for ever, because the scan of
  `sched.c` (lines 275 to 278) keeps the lowest index; no liveness is claimed.
* Conditions (`pthread_cond.c`): the thread that line 129 has looked up may wait
  for the mutex when it is woken, and believe it has got it: `woken`.  A thread
  that stops waiting for the mutex after line 205 has looked it up gets it
  unknowingly, and one that begins to wait then stays blocked: `heir`.
* Semaphores (`sem.c`): the increment at line 297 can undo a wait (`torn`); two
  posts can look up the same waiter (`twice`, line 300), one that times out
  (`late`), or one that has begun to wait when the unit was gone (`extra`); `sem_timedwait()` looks at
  an unblock type that may be older than the call (line 343), and gives a unit
  back without waking anybody (`back`).  `sem_getvalue()` (line 150) is negative
  while threads wait.
* Message queues (`mqueue.c`): a receiver can take a message that is being filled
  (`torn`), a sender a slot that is being copied (`overwritten`), and two
  messages can get one age (`age`, line 681); a message of length zero is counted
  and its slot stays free (`empty`, line 619).  The look at the queue and the
  blocking are two calls (`late`), and senders and receivers wait on one object,
  so that a sender may be woken that cannot go on when a receiver could, or the
  other way round (`wrong`, line 731).  A receiver that was woken and finds its
  buffer too small, or a message of length zero, ends its call and passes the
  wake-up on to nobody (`short`, line 501).
* Transfers: `rx_bufp` of `uart_dev.c` stays set after a read that has ended, and
  the interrupt handler stores bytes through it (`stray`, line 570); a signal that
  came before a call is taken for one that ended it, and cancels the transfers of
  other threads too (`cancelled`, `unistd_data_transfer.c`, line 169), of which readers
  are not told (`uart_dev.c`, line 356); `lio_listio()` waits for a transfer that
  was refused (`refused`, `aio.c`, line 236).
* Processes: SIGKILL reaches a process in `_exit()`, which begins again and notifies
  nobody (`again`, `_exit.c`, line 138); a signal goes to an entry that is or was freed
  since (`ghost`, SIGCHLD at line 69, any other at `pthread_kill.c`, line 118), or to one that `task_priv_new_task()` has handed out and
  the scheduler has yet to fill in, which makes it active early, as the wake time of
  the entry's last user does (`unborn`); a parent's entry is handed out again while
  children name it (`adopted`, `task.c`, line 163): they are then the children of
  the new task, which may sleep in `waitpid()` without having been told; SIGCONT counts the priorities of entries that sleep or
  are gone (`cont`, `signal_handler.c`, line 176), and the timer that of a stopped
  task (`woken`, `sched_timing.c`, line 164).  `waitpid()` without children
  sleeps until a signal comes (`_wait.c`, line 116).  The counter of process ids
  (`task_process.c`, line 41) is not protected; the model gives out different ones.
* Blocks (`cafs_lite_block.c`): a search without a hint runs one block past the
  last, into the scratch area (`stray`, line 243), and clears bits of its first two
  entries; where these were used the header that it reads back is a different one, and
  `cl_block_alloc()` goes on with its next pass; after a power failure the copy
  of the serial number list may be allocated where the scratch area has yet to be
  restored (`clash`, `cafs_lite.c`, lines 96 and 119); and a failure between the copy and the
  marking of the old list leaves two that both count (`twin`,
  `cafs_lite_serialno.c`, line 252).
* Files (`cafs_lite_file.c`): `closing` is the subject of `file_closing`;
  `cleaning` is a failure between the forgetting of an open file and the
  discarding of its blocks, which loses them (`cafs_lite.c`, line 124).  A
  closing that finds no free block leaves its item open, and the mount after that
  cleans it; with more than four of them it fails (`crowd`, `cafs_lite.c`, line
  107), but has cleaned five, so that a later one may succeed.
* Link: an acknowledgement or answer that comes after the host has given up
  (`late`), that was meant for a host that was killed (`abort`), or that is on its way
  when `link_unlink()` returns without recovery (`unreset`) may be taken for that
  of the next call; a path that did not arrive is answered with an old reply
  (`unread`); and packets lost during such a recovery prolong it (`damaged`).  `link_unlink()`,
  `link_rename()` and the end of `link_readserialno()` return errors without
  `link_handle_err()`.  Data that come where the device waits for a command, after a
  `write()` that has failed, may be taken for one (`mistaken`, `sys/link/link.c`, lines 141 and
  142).  If that is a command with two paths, it takes the packet of length zero of
  `link_handle_err()` for the first, acknowledges it, and waits for the second:
  the host believes the recovery to be complete, and no fault of the line is needed
  for that.  The same happens after a command packet that was damaged, because
  `wait_ack()` does not tell a NACK from an ACK (`link_protocol_master.c`, line 135); the
  answer of the other command is then taken for that of the write.  And a `read()` of the device that
  fails is not told to the host (`hidden`, `link_protocol_slave.c`, line 105):
  `link_read()` returns zero, where `link_protocol.h` (line 714) promises "an error code".
* Time (`sched_timing.c`): the time read at line 124 while an overflow is pending
  lies a period back, so such a sleep may end early (`NoEarlyWake` excepts
  it by `due`); a timed wait with a deadline in an earlier period waits without
  limit (line 63), and one that is closer than 40us is not programmed (line 81)
  and waits for another match or the end of the period (`Deadlines` lie ahead of
  that).  `sleep()` of a period, 2048 s, or more takes the
  seconds that remain for microseconds (`sleep.c`, line 32).

## 4. The proofs

The theorems are about the specifications that the runs check, for every value of
the constants that satisfies the modules' assumptions: any number of threads,
priorities, mutexes, slots, periods, files and sections of blocks, and any bounds.

| theorem | module | states | assumes |
|---|---|---|---|
| `TypeCorrect` | `SchedProofs` | `TypeOK` of `Sched` | `"near"` not in `SleepKinds` |
| `ExecuteFlagsAreTopReady` | `SchedProofs` | `ExecIsTopReady` | the same |
| `StrictPreemption` | `SchedProofs` | `RunningIsTop` | the same |
| `JoinsNotLost` | `SchedProofs` | `NoLostJoin` | the same |
| `JoinsReturnStatus` | `SchedProofs` | `JoinReturnsStatus` | the same |
| `NobodySleepsOnFree` | `MutexProofs` | `NoWaitOnFree` | - |
| `HoldersOwn` | `MutexProofs` | `HolderOwnsUndisturbed` | - |
| `MutexImplementsHandOffLock` | `MutexProofs` | `IsHandOffLock` | - |
| `OwnersKnow` | `MutexProofs` | `NoOrphan` | - |
| `MutexTypes` | `MutexProofs` | `TypeOK` of `Mutex` | - |
| `ProcessorUsed` | `MutexProofs` | `WorkConserving` of `Mutex` | - |
| `CeilingFollowsOwner` | `MutexProofs` | `PriorityProtocol` | `SingleMutex` |
| `UnitsNotGrantedTwice` | `SemProofs` | `NoDoubleGrant` | - |
| `PostsNotLost` | `SemProofs` | `NoLostPost` | - |
| `CounterIsRight` | `MqueueProofs` | `CountMatches` | - |
| `WakeUpsNotLost` | `MqueueProofs` | `NoForgotten` | - |
| `QueueIsPrioQueue` | `MqueueProofs` | `IsPrioQueue` | - |
| `TransfersNotLost` | `TransferProofs` | `SleeperServed` | - |
| `ReadsCountTrue` | `TransferProofs` | `TrueCount` | - |
| `CallbacksKeepRunning` | `TransferProofs` | `WorkConserving` of `Transfer` | - |
| `ChildrenNotMissed` | `ProcessProofs` | `NoMissedChild` | - |
| `ReapedAtMostOnce` | `ProcessProofs` | `ReapedOnce` | - |
| `TopTasksRun` | `ProcessProofs` | `RightTasksRun` | - |
| `TimingTypeCorrect` | `DeviceProofs` | `TypeOK` of `Timing` | `DeadlinesAhead` |
| `CompareCoversSleepers` | `DeviceProofs` | `MatchCoversSleepers` | `DeadlinesAhead` |
| `TimerNeverEarly` | `DeviceProofs` | `NoEarlyWake` | `DeadlinesAhead`, `SleepsWithinPeriod` |
| `FilesAreDurable` | `DeviceProofs` | `Durable` | - |
| `DeviceIsMountable` | `DeviceProofs` | `Mountable` of `Flash` | - |
| `NothingIsInRam` | `DeviceProofs` | `NothingInRam` | - |
| `FileIsOldOrNew` | `TransferProofs` | `OldOrNew` | - |
| `FileHasOneVersion` | `TransferProofs` | `OneVersion` | - |
| `NoBlockIsLost` | `TransferProofs` | `NoLeak` | - |
| `FilesAreMountable` | `TransferProofs` | `Mountable` of `CafsFile` | - |
| `LinkTypeCorrect` | `DeviceProofs` | - | - |
| `SidesInStep` | `DeviceProofs` | `InStep` | - |
| `SuccessIsTruthful` | `DeviceProofs` | `Truthful` | - |

The assumptions of the last column are hypotheses of the theorems and exclude
what 3.3 describes: sleeps and deadlines too close for the timer to be programmed,
and `sleep()` of a period or more; and, for the ceilings, a second mutex.  The
mishaps in `spoilt`, `mishaps` and `slips` are part of the properties.

**The table.**  `SchedTableProofs` says what each privileged function returns when
unprivileged code may run again: `Runs` (a well-formed table in which only ready
tasks have execute flags and the running task is active), `IsTop` (the caches
agree with the ready tasks), and who is awake and blocked on what afterwards (`WakeRuns`, `BlockRuns`).
`Busy` is what is left of `IsTop` where a priority was raised without a look at
the caches: some ready task has its execute flag set, unless none is ready.  The scan of
`sched.c` for the best blocked task is `HighestPriorityBlockedTask`; that there is
a best one is `BestExists`, derived like the maximum of the priorities from the
well-foundedness of the natural numbers.  The modules above the table have
one lemma per action, most of which cite these, and a temporal step.

**Threads.**  `ExecIsTopReady` is not inductive.  The caches are right after a
wake-up only if the woken task was not ready before and the wake-up is at its
priority, so `SchedInv` has to know which entries can be woken:

* `IsTop(k)`, and the running task has its execute flag set;
* `EntriesInv`: a task that has a wake time or a block object is in use and not
  active, so the timer and `AssertActive` never touch a ready or a half-created
  task;
* `CreationInv`: a thread that is between `task_priv_new_task()` and
  `priv_activate_thread()` is the only one that activates its entry;
* `TableInv`, with the types.

All but `TableInv` holds only until a signal activates an entry that holds no thread, so the
invariant is `WholeInv`: `TableInv`; `SchedInv` or `strayed`; and without signals
nothing goes astray (`SignalsInv`).  `TypeOK` and `NoLostJoin` need only `TableInv`, in
which tasks that sleep are not active and the table is well formed, and so hold without
that exception.

**Joins.**  Two further invariants, on top of `TableInv` and of `WholeInv`:

* `LinksInv`, for `NoLostJoin`: a thread that sleeps for the end of another is in
  `pthread_join()` for it, without a wake time that the timer could find; the
  other one is in the table, and when it is in `pthread_exit()` it is awake,
  because the joiner has woken it.  This is the hand-shake of two threads that
  may each come first.
* `ClaimsInv`, for `JoinReturnsStatus`: while no signal was sent, a join that is
  the only one for its entry is on its way to the thread it was called for
  (`Coming`), asleep for it (`Waiting`), or woken with that thread's status handed
  over (`Joined`).  In the last case the entry may be in use again, by a thread
  created later: what the joiner reads is its own copy.

**Mutexes.**  A mutex is decided on outside of the kernel and changed inside, so
the invariants tie a thread's place in a call to the table:

* `WaitInv`, for `NoWaitOnFree`: a thread that sleeps for a mutex is in a
  call that locks this mutex (`WaitersKnown`), so nobody else's wake-up or time-out makes
  it a waiter; and nobody is given a mutex between the look of
  `pthread_mutex_lock()` at the owner and its privileged call (`NotYetOwner`), so
  nobody goes to sleep for his own.  A hand-off picks a waiter if there is one, because
  `HighestPriorityBlockedTask` sees them all, and a mutex becomes free only
  without waiters.
* `HoldInv`, for `HolderOwnsUndisturbed`: before the first mishap a thread owns what it holds
  and what it is about to unlock (`Owns`).  `pthread_mutex_lock()` takes any end
  of its sleep for a hand-off: this is right because it sleeps without a wake
  time and on the mutex, so that neither the timer nor a condition can end it.
* `KnownInv`, for `NoOrphan` and `TypeOK`: the owner holds the mutex, has just been
  given it and sleeps or wakes in the call that will find out, or is about to
  unlock it (`Known`); and the lock count is at least one, except in between the
  two parts of `pthread_mutex_unlock()` (`Counted`).  A timed wait that has run out
  and was handed the mutex all the same is the hard case.
* `TableInv`, for `WorkConserving` and `PriorityProtocol`: a thread that owns
  nothing has its base priority (`BaseOf`), and so has one that waits for a
  condition (`WaiterOf`), which is why a broadcast may compare base priorities;
  with one mutex its owner has at least the ceiling (`Raised`).  With two mutexes this is
  false, as 3.3 says: unlocking one restores the base priority.
* `LockInv`, for `IsHandOffLock`: whoever is about to unlock a mutex owns it,
  signals or not, because `pthread_mutex_unlock()` has looked and only the owner
  gives it away.  Every step is then a step of `HandOffLock` for every mutex:
  one takes it, blocks on it, is handed it or gives up waiting; the step lemmas say that the
  threads that take no part keep sleeping on what they slept on.

**Semaphores.**  `sem_post()` adds a unit, looks for a waiter and wakes it in three
steps, and several calls are in the middle of them.  `SemInv` relates the value to
the number of threads in each place:

* `Conserved`: the value, the units acquired and the calls that have counted down
  and not returned add up to what was provided, unless an increment was `torn`;
* `TargetsInv`: posts that are about to wake a thread have different ones, each
  still in its wait;
* `OwedInv`, for `NoDoubleGrant`: what the value owes, and the posts that have yet to look, are
  covered by waiters that no post has chosen, those whose time has run out included;
* `ServedInv`, for `NoLostPost`: the other way round, sleepers that no post has
  chosen are owed a unit or will be looked for.

Each action moves a thread from one of these sets to another, so the lemmas are
about the cardinality of a set that gains or loses one member.

**Messages.**  `CountMatches` compares `mq->cur_msgs` with the slots of the
table that are in use.  `CountInv` adds the types of the table and of the calls'
locals: a slot that was reserved remains the sender's own, whatever
other calls do to its contents, and a receiver counts down exactly when it
clears one.  `NoForgotten` follows from `LooksInv`: if somebody sleeps who could go
on, then before the first mishap some thread is `Searching`, that is, it goes on to
`check_for_blocked_task()`, or will wake a thread that does.  A
search that ends without a wake-up, or with one of a thread that cannot go on,
shows that nobody asleep can.

`IsPrioQueue` is a refinement: the abstract queue of `PrioQueue` is the sequence
of the complete messages in the order of their ages, and what a thread holds is
the slot it is about to copy.  `OrderInv` is what makes the mapping one: a slot
that is being filled is in use and is one sender's only (`SlotsInv`, with the
message named once it is past `Fill`), and complete messages have different ages,
all below `mq->age` (`AgesInv`).  The rank of a slot is the number of complete slots up to it
(`UpTo`), and ranks number the slots from one (`RankOrder`, `RankTaken`).  Entering the
age makes a message complete and gives it the last rank, so the sequence is
appended to (`RankAdded`); a receiver's take lowers the rank of the messages
after the one that `Oldest` chose, so the sequence loses that element
(`RankRemoved`), which is the first of the largest priority there.
Every other step leaves the mapped state as it was.

**Transfers.**  A privileged call of `Transfer` is a chain of functions of a
record of table, calls, control blocks and device, so the invariants are
predicates of such a record and of the threads' places, and each function of the
driver and of the callbacks has a lemma that keeps them:

* `SleepInv`, for `SleeperServed`: who sleeps does so for a callback that the
  driver has, or for a transfer that was `refused`; everybody else has no block object, so a
  callback wakes none but its own;
* `DriverInv`: there is a callback exactly while its interrupt is enabled;
* `CallsInv` and `AioInv`: a callback finds its call in progress or its control
  block in use, although a signal may have woken the thread, which has then to cancel;
* `RxInv` and `CountInv`, for `TrueCount`: the buffer the receiver fills is the one
  of the call it will call back, and until it does nothing has been stored.

`priv_data_transfer_callback()` passes on a priority that may be that of a thread
it has not woken, but always that of one that is ready afterwards, so that some
execute flag is set: `WorkConserving` needs `Busy`.

**Processes.**  `ProcessInv` has two parts that hold whatever happens and two that hold
until a mishap:

* `Places` and `FamilyInv`, for `ReapedOnce`: an entry in use belongs to a process
  that nobody has reaped, and a zombie is the only entry of its process and stays
  in `_exit()`.  To reap is to free the entry, so no process is left to be
  reaped twice; no mishap is excepted here.
* `NotifyInv`, for `NoMissedChild`: a zombie that a sleeping thread waits for has a
  SIGCHLD for that thread still before it (`WillTell`): it is about to begin its loop, is in
  it at or before the thread's entry, or is sending to it.  The step that makes a
  child a zombie finds no loop begun, and `priv_wait_child()` looks and sleeps in one
  call, so nobody goes to sleep for a child that has told everyone.
* `BirthInv`: an entry between `task_priv_new_task()` and `priv_init_sched_task()` is
  not active, has one creator, and ends with it or is alone in its process.
* `Executes`, for `RightTasksRun`: the execute flags and the current priority agree
  with the ready tasks, except that stopped tasks keep theirs when nothing else is ready.
  `SIGCONT` recomputes the caches only for a priority at or above the current one, so
  `ContPriorityIsOwn` says when the maximum over the process is that of a task
  that goes on.  Deleting the other threads needs no new look at the tables,
  because the thread that calls `_exit()` has the top priority and keeps its flag.

**Timer.**  `CoverInv` adds to `MatchCoversSleepers` that without a pending
interrupt the timer has not passed the compare register, and that
everyone asleep has a period to wake in.  When `priv_usecond_match_event()` has
served those whose time has come, the register is the least time of the others
(`NextMatchAhead`).  `NoEarlyWake` needs `Promised` in addition: the wake time
that was entered is not before the time that was asked for, which is the
arithmetic of `SleepFor` and `TimedWait` about the end of a period.

**Flash.**  Power may fail before any write, so the invariant has to say of every
place in a call what a mount would find from there.  `DurableInv` does so while
nothing is `spoilt`; it has two parts:

* `Sound`, which holds at every place, so that a power failure cannot break it:
  block 0 is never allocated; a block that the scratch area is to restore is there still, or
  erased, and two entries for one block have the same contents (`Restorable`); and the
  entries of the scratch area are used one after the other (`InOrder`).
* `Place`, one disjunct for each place that the call under way can be at: what `todo` still
  holds, and what is known there.  At every place there is a list which names the last
  version of each file, in its block or in the scratch area (`Valid`), and which is the
  only one that a mount will find (`Sole`); in between the copy of the list and the marking of
  the old one there are two (`AtDiscarding`), and a failure there is the mishap `twin`.

What makes it inductive is the course of a sweep.  It begins only when no block is
free, hence when every block in the scratch area is in its place as well
(`Redundant`) and the area may be erased.  A section that is chosen has no block that is being
written and not the list itself (`Erasable`), and it is erased when each of its blocks
is in the scratch area or to be saved before (`Saved`); for a client's call the
area has room for all of them, because it was empty or has just been erased.  A mount whose
allocation finds no block goes on with its cleaning (`Ends`).  Most writes change one block that no
file and no pending entry needs, which is all that `OneBlock` asks of them (`Harmless`).
Further lemmas say what the loops of the code return: the block that
`cl_block_alloc()` finds (`AllocBlockIs`), the blocks of a section one
by one (`AscendingIs`), the next scratch entry (`NextEntry`).

**Files.**  `CafsInv` holds until power fails in the closing window.  Like the invariant of
`Flash` it has one disjunct for each place that the call under way, or the cleaning
of one bad file, can be at (`Place`): what `todo` still holds, and what the versions
of the file look like there.  At rest the file is `Settled`: there is no version, or one that
stands (`Present`), and what it reads as was promised to the client.  After a power
failure it is `Recoverable`: it may also be about to be born, on its way out, or
replaced by a complete version (`Replaced`).  The places in the order of `finish_close()`:

* a draft owns its blocks, keeps at most one current entry per segment, and has every block
  of the closed version in its list, so that no block of either is allocated (`Draft`, `Segments`);
* from `CLOSING` on the status changes of `mark_file_closed()` are left (`Marks`): the
  blocks of current entries are closed, and a block is given up only when no current
  entry of the new version has it.  The old version may lose blocks here, which is
  the closing window;
* when the new version is complete (`Whole`, which its header says), the old one is
  given up, the new one closed, and what is left of the old one struck (`R5` to `R1`);
  a mount repeats this from wherever it was.

`CleanupFile` and `MarkFileClosed` flatten a sequence with the writes of each entry.
`FlattenSeq` of the community modules is recursive; `FlattenExists` shows that its recursion has a
solution, by the least length for which it had none, and `FlattenIs` that each
element of the result is one of a part and follows the one before it there.  That
is all that `Marks` and `Discards` (the same for a removal) ask of these writes.

Three more parts of the invariant say what `Place` does not.  `KeepsClosed` and
`KeepsOpen`, for `NoLeak`: a closed block belongs to a version that stands or takes its place, an
open one to a draft, or will be discarded at the end of the mount.  `BadInv`, for `Mountable`: the bad
files cleaned so far and those still there are no more than `MaxBad`, because each cleaning that ends has
removed one.

**What the proofs changed in the model.**  `OneVersion` had no exception, and no
run found the counterexample because it needs four versions: after a failure in the closing
window a mount may meet a version whose blocks were discarded.  The limit of
`cafs_lite_init()` to four bad files was missing, and with it the mishap `crowd`; a run with
three versions cannot meet it unless `MaxBad` is smaller.

**Link.**  `InStep` speaks of the moments between calls, so `LinkInv` says for each
place of the host (`host.pc`) what may be on the line and where the device may be:

* idle: nothing, and the device waits for a command (`IdleInv`);
* waiting for an acknowledgement: at most one packet or one acknowledgement is
  under way, and after that of the last packet follow the answers (`AckInv`);
* reading: the rest of the answers and nothing else (`ReadInv`, `Answering`);
* in `link_handle_err()`: once a packet of length zero is acknowledged the device
  waits for a command and nothing but such packets is behind it (`Fresh`): every other packet
  leaves a waiting device where it is (`Inert`), and no command with two paths is
  under way, which would take a packet of length zero for one of them (`NoRename`).  If host
  and device were out of step before, it is enough that a line which is not empty ends
  in such a packet (`Arriving`), as long as no packet of the recovery is lost.

A packet lost from a recovery (`damaged`) prolongs it only where there was something
else to repair (`Reasons`); a recovery from losses alone needs one packet to
arrive, and it is sent again until its acknowledgement has.  What a loss
or damage takes from the line leaves the rest in order; the invariant of each
place allows for any element of it to be `Wasted`.

`Truthful` holds while there is no slip at all.  Then the device has as much of
the argument as the host has sent (`Position`, a part of `AckInv`); what it holds is the host's, or it
will say that it failed (`DevTruth`); a packet with a good checksum other than a reply of
failure says that the command was executed (`TruthInv`); and the data that come
before the reply of `read` are its own (`AckTruth`, `ReadTruth`,
`AnswersOfRead`).  A `read()` of the device that has failed unseen is the slip `hidden`.

**Only model-checked**: the bounds that `TypeOK` has for counters in `Sem`,
`Mqueue` and `Transfer`, which their proofs replace by numbers of any size, and
`FlashTypeOK` and `FileTypeOK`; slices; and all liveness properties, since
fairness is out of the prover's reach.

## 5. Not modelled, and the plan

Left out for good: stacks, MPU regions, CPU-time accounting, the watchdog, fault
logging, drivers other than the UART and the timer, the boot loader's own
program, the application library with its tables for signal processing.  These
make up most of the repository's lines.

Left out so far:

* changes of priority and policy (`sched_posix.c`, `pthread_schedparam.c`): every
  invariant of the proofs that speaks of priorities would have to be restated;
* opening, closing and unlinking of semaphores and message queues;
  `pthread_mutex_force_unlock()` and what else happens to objects when their
  process ends;
* signal masks, the delay mutex and queued real-time signals;
* two handles on one file (`cafs_lite_file.c`, line 510, and two creations of one
  name, `cafs_lite.c`, line 334), reading, directories;
* the application loader, sysfs, and the allocator's chunk list, which would be
  checked against a reference definition of the free space.

The order of work:

1. scheduling parameters in `Sched`; named objects and the end of their process;
2. two handles in `CafsFile`; the allocator;
3. a theorem for the slices of `RoundRobin`, as far as it needs no fairness.
