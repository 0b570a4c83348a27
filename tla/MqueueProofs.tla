---------------------------- MODULE MqueueProofs ----------------------------
(***************************************************************************)
(* Proofs about message queues: the counter and the table stay together,   *)
(* no wake-up is lost but by the mishaps that are named, and the table     *)
(* with its ages implements PrioQueue.                                     *)
(***************************************************************************)
EXTENDS Mqueue, SchedTableProofs, FiniteSetTheorems, SequenceTheorems

\* CountMatches is inductive together with the types of the tables it is about
\* and of the locals of calls; that the thread to wake is one needs the type of
\* the task table.
Call    == [slot : 0 .. Slots, id : Nat, prio : Nat, len : Nat, time : TimeKind, reg : Nat]
CallsOK == /\ pc \in [Task -> PC] /\ loc \in [Task -> Call]
           /\ \A t \in Task : pc[t] = "wake" => loc[t].reg \in Task
TableOK == /\ msg \in [1 .. Slots -> [size : Nat, id : Nat, prio : Nat, age : Nat]]
           /\ cur \in Nat /\ age \in Nat

CountInv ==
    /\ k \in Kernel
    /\ CallsOK
    /\ TableOK
    /\ sends \in Nat
    /\ CountMatches

\* The largest priority the threads start with exists.
LEMMA InitialTop ==
    Max({BasePriority[t] : t \in Task}) \in Priority
  <1> DEFINE V == {BasePriority[t] : t \in Task}
             D == {d \in Nat : HighestPriority - d \in V}
  <1>1. HighestPriority \in Nat /\ 1 \in Task
    BY TableAssumption DEF Task
  <1>2. V \subseteq Priority /\ V # {}
    BY <1>1, MqueueAssumption
  <1>3. \A p \in V : HighestPriority - p \in D
    <2> SUFFICES ASSUME NEW p \in V PROVE HighestPriority - p \in D
      OBVIOUS
    <2>1. p \in 0 .. HighestPriority
      BY <1>2 DEF Priority
    <2> HIDE DEF V
    <2>2. HighestPriority - (HighestPriority - p) = p /\ HighestPriority - p \in Nat
      BY <2>1, <1>1
    <2>3. QED
      BY <2>2
  <1> HIDE DEF V
  <1>4. D \in SUBSET Nat /\ D # {}
    BY <1>2, <1>3
  <1>5. PICK d \in D : \A e \in D : d <= e
    <2> HIDE DEF D
    <2>1. QED
      BY <1>4, LeastExists
  <1>6. HighestPriority - d \in V /\ \A p \in V : p <= HighestPriority - d
    <2>1. HighestPriority - d \in V /\ d \in Nat
      BY <1>5
    <2>2. ASSUME NEW p \in V PROVE p <= HighestPriority - d
      <3>1. d <= HighestPriority - p /\ p \in 0 .. HighestPriority
        BY <1>2, <1>3, <1>5 DEF Priority
      <3>2. QED
        BY <3>1, <2>1, <1>1
    <2>3. QED
      BY <2>1, <2>2
  <1>7. (CHOOSE x \in V : \A y \in V : x >= y) \in V
    <2>1. \E x \in V : \A y \in V : x >= y
      <3>1. \A y \in V : y \in Int
        BY <1>2 DEF Priority
      <3>2. QED
        BY <1>6, <3>1
    <2>2. QED
      BY <2>1, Zenon
  <1>8. QED
    BY <1>2, <1>7 DEF Max, V

LEMMA InitCount == Init => CountInv
  <1> SUFFICES ASSUME Init PROVE CountInv
    OBVIOUS
  <1>1. k \in Kernel
    <2> DEFINE top == Max({BasePriority[t] : t \in Task})
    <2>1. top \in Priority
      BY InitialTop
    <2>2. top \in NoPriority .. HighestPriority
      BY <2>1, TableAssumption DEF Priority, NoPriority
    <2>3. NULL \in Object /\ 0 \in 0 .. TaskTotal - 1
      BY TableAssumption DEF NULL, Object, ObjectKind
    <2>4. PICK policy \in Policies :
             k = [used |-> Task, exec |-> {t \in Task : BasePriority[t] = top},
                  fifo |-> IF policy = "fifo" THEN Task ELSE {},
                  inuse |-> Task, active |-> Task, stopped |-> {},
                  timed |-> {}, prio |-> BasePriority, base |-> BasePriority,
                  block |-> [t \in Task |-> NULL],
                  unblock |-> [t \in Task |-> "NONE"],
                  cur |-> top, current |-> 0, pend |-> FALSE]
      BY DEF Init
    <2> HIDE DEF top
    <2>5. (IF policy = "fifo" THEN Task ELSE {}) \in SUBSET Task
      OBVIOUS
    <2>6. QED
      BY <2>2, <2>3, <2>4, <2>5, MqueueAssumption DEF Kernel, UnblockType
  <1>2. CallsOK
    BY MqueueAssumption DEF Init, CallsOK, Call, NoCall, PC, TimeKind
  <1>3. TableOK
    BY DEF Init, TableOK
  <1>4. FullSlots = {} /\ cur = 0
    BY DEF Init, FullSlots
  <1>5. CountMatches
    BY <1>4, FS_EmptySet DEF CountMatches
  <1>6. QED
    BY <1>1, <1>2, <1>3, <1>5 DEF CountInv, Init

-----------------------------------------------------------------------------
LEMMA FullSlotsFinite == IsFiniteSet(FullSlots) /\ Cardinality(FullSlots) \in Nat
  <1>1. IsFiniteSet(1 .. Slots)
    BY FS_Interval, MqueueAssumption
  <1>2. FullSlots \subseteq 1 .. Slots
    BY DEF FullSlots
  <1>3. QED
    BY <1>1, <1>2, FS_Subset, FS_CardinalityType

\* A slot is chosen with Min.
LEMMA FirstFree == FreeSlots # {} => Min(FreeSlots) \in FreeSlots
  <1> SUFFICES ASSUME FreeSlots # {} PROVE Min(FreeSlots) \in FreeSlots
    OBVIOUS
  <1>1. FreeSlots \in SUBSET Nat
    BY DEF FreeSlots
  <1>2. \E d \in FreeSlots : \A e \in FreeSlots : d <= e
    BY <1>1, LeastExists
  <1>3. (CHOOSE x \in FreeSlots : \A y \in FreeSlots : x =< y) \in FreeSlots
    BY <1>2, Zenon
  <1>4. QED
    BY <1>3 DEF Min

\* priv_receive()'s loop finds a message when there is one.
LEMMA OldestIsThere ==
    ASSUME TableOK, FullSlots # {}
    PROVE  /\ Oldest(FullSlots) \in FullSlots
           /\ \A r \in FullSlots :
                 \/ msg[Oldest(FullSlots)].prio > msg[r].prio
                 \/ /\ msg[Oldest(FullSlots)].prio = msg[r].prio
                    /\ msg[Oldest(FullSlots)].age <= msg[r].age
  <1> DEFINE Before(s, r) == \/ msg[s].prio > msg[r].prio
                             \/ msg[s].prio = msg[r].prio /\ msg[s].age < msg[r].age
                             \/ msg[s].prio = msg[r].prio /\ msg[s].age = msg[r].age /\ s <= r
             R == {p \in (1 .. Slots) \X (1 .. Slots) : Before(p[1], p[2])}
  <1>1. Slots \in Nat /\ FullSlots \in SUBSET (1 .. Slots)
    BY MqueueAssumption DEF FullSlots
  <1>2. \A s \in 1 .. Slots : msg[s].prio \in Int /\ msg[s].age \in Int /\ s \in Int
    BY <1>1 DEF TableOK
  <1>3. \A x, y \in 1 .. Slots : <<x, y>> \in R <=> Before(x, y)
    OBVIOUS
  <1> HIDE DEF R
  <1>4. \A x, y \in 1 .. Slots : <<x, y>> \in R \/ <<y, x>> \in R
    <2> SUFFICES ASSUME NEW x \in 1 .. Slots, NEW y \in 1 .. Slots
                 PROVE  Before(x, y) \/ Before(y, x)
      BY <1>3
    <2>1. /\ msg[x].prio \in Int /\ msg[x].age \in Int /\ x \in Int
          /\ msg[y].prio \in Int /\ msg[y].age \in Int /\ y \in Int
      BY <1>2
    <2>2. QED
      BY <2>1
  <1>5. \A x, y, z \in 1 .. Slots : <<x, y>> \in R /\ <<y, z>> \in R => <<x, z>> \in R
    <2> SUFFICES ASSUME NEW x \in 1 .. Slots, NEW y \in 1 .. Slots, NEW z \in 1 .. Slots,
                        Before(x, y), Before(y, z)
                 PROVE  Before(x, z)
      BY <1>3
    <2>1. /\ msg[x].prio \in Int /\ msg[x].age \in Int /\ x \in Int
          /\ msg[y].prio \in Int /\ msg[y].age \in Int /\ y \in Int
          /\ msg[z].prio \in Int /\ msg[z].age \in Int /\ z \in Int
      BY <1>2
    <2>2. QED
      BY <2>1
  <1>6. \E b \in FullSlots : \A s \in FullSlots : <<b, s>> \in R
    BY <1>1, <1>4, <1>5, BestExists
  <1>7. \E b \in FullSlots : \A s \in FullSlots : Before(b, s)
    BY <1>1, <1>3, <1>6
  <1> DEFINE o == CHOOSE b \in FullSlots : \A s \in FullSlots : Before(b, s)
  <1>8. o \in FullSlots /\ \A s \in FullSlots : Before(o, s)
    <2> HIDE DEF Before
    <2>1. QED
      BY <1>7, Zenon
  <1>9. Oldest(FullSlots) = o
    BY DEF Oldest
  <1> HIDE DEF o
  <1>10. QED
    BY <1>1, <1>2, <1>8, <1>9

-----------------------------------------------------------------------------
\* Steps that neither take nor empty a slot.
LEMMA CountKept ==
    ASSUME CountMatches, cur' = cur, FullSlots' = FullSlots, spoilt \subseteq spoilt'
    PROVE  CountMatches'
  BY DEF CountMatches

\* Where a thread goes on.
LEMMA EnterCalls ==
    ASSUME CallsOK, NEW c \in Task, NEW l \in PC, NEW call \in Call, Enter(c, l, call),
           l = "wake" => call.reg \in Task
    PROVE  CallsOK'
  BY DEF Enter, Goto, CallsOK

LEMMA EmptyCall == NoCall \in Call
  BY MqueueAssumption DEF NoCall, Call, TimeKind

LEMMA DoneCalls ==
    ASSUME CallsOK, NEW c \in Task, Done(c)
    PROVE  CallsOK'
  BY EmptyCall DEF Done, Goto, CallsOK, PC

LEMMA GetsNothingCalls ==
    ASSUME CallsOK, NEW c \in Task, NEW call \in Call, GetsNothing(c, call)
    PROVE  CallsOK'
  <1>1. "block" \in PC
    BY DEF PC
  <1>2. QED
    BY <1>1, EnterCalls, DoneCalls DEF GetsNothing

\* priv_send() takes an empty slot and counts it, or does nothing.
LEMMA ReserveCount ==
    ASSUME CountInv, NEW c \in Task, NEW call \in Call, Reserve(c, call)
    PROVE  k' \in Kernel /\ CallsOK' /\ TableOK' /\ CountMatches'
  <1> DEFINE s == Min(FreeSlots)
  <1>0. CallsOK /\ TableOK /\ k' = k /\ age' = age /\ k \in Kernel
    BY DEF CountInv, Reserve
  <1>1. CASE ~HasRoom
    <2>1. GetsNothing(c, call) /\ UNCHANGED <<msg, cur, spoilt>>
      BY <1>1 DEF Reserve
    <2>2. FullSlots' = FullSlots
      BY <2>1 DEF FullSlots
    <2>3. QED
      BY <1>0, <2>1, <2>2, CountKept, GetsNothingCalls DEF CountInv, TableOK
  <1>2. CASE HasRoom
    <2>1. s \in FreeSlots
      BY <1>2, FirstFree DEF HasRoom
    <2>2. s \in 1 .. Slots /\ s \notin FullSlots
      BY <2>1 DEF FreeSlots, FullSlots
    <2>3. /\ msg' = [msg EXCEPT ![s].size = call.len]
          /\ cur' = cur + 1
          /\ spoilt \subseteq spoilt'
          /\ call.len = 0 => "empty" \in spoilt'
          /\ IF call.len > 0 THEN Enter(c, "fill", [call EXCEPT !.slot = s])
                             ELSE GetsNothing(c, call)
      BY <1>2 DEF Reserve, Spoil
    <2> HIDE DEF s
    <2>4. call.len \in Nat
      BY DEF Call
    <2>5. CallsOK'
      <3>1. [call EXCEPT !.slot = s] \in Call /\ "fill" \in PC
        BY <2>2 DEF Call, PC
      <3>2. QED
        BY <1>0, <2>3, <3>1, EnterCalls, GetsNothingCalls
    <2>6. TableOK'
      BY <1>0, <2>2, <2>3, <2>4 DEF TableOK
    <2>7. call.len # 0 => FullSlots' = FullSlots \cup {s}
      BY <1>0, <2>2, <2>3 DEF FullSlots, TableOK
    <2>8. CountMatches'
      <3>1. CASE call.len = 0
        BY <2>3, <3>1 DEF CountMatches
      <3>2. CASE call.len # 0
        <4>1. Cardinality(FullSlots \cup {s}) = Cardinality(FullSlots) + 1
          BY <2>2, FullSlotsFinite, FS_AddElement
        <4>2. QED
          BY <2>3, <2>7, <3>2, <4>1 DEF CountInv, CountMatches
      <3>3. QED
        BY <3>1, <3>2
    <2>9. QED
      BY <1>0, <2>5, <2>6, <2>8
  <1>3. QED
    BY <1>1, <1>2

\* priv_receive() empties a full slot and counts it, or does nothing.
LEMMA TakeMessageCount ==
    ASSUME CountInv, NEW c \in Task, NEW call \in Call, TakeMessage(c, call)
    PROVE  CountInv'
  <1> DEFINE s     == Oldest(FullSlots)
             error == FullSlots = {} \/ call.len < msg[s].size
  <1>0. CallsOK /\ TableOK /\ k' = k /\ age' = age /\ sends' = sends /\ k \in Kernel /\ sends \in Nat
    BY DEF CountInv, TakeMessage
  <1>1. CASE cur = 0 \/ error
    <2>1. /\ GetsNothing(c, call) \/ Done(c)
          /\ UNCHANGED <<msg, cur>> /\ spoilt \subseteq spoilt'
      BY <1>1 DEF TakeMessage
    <2>2. FullSlots' = FullSlots
      BY <2>1 DEF FullSlots
    <2>3. QED
      BY <1>0, <2>1, <2>2, CountKept, GetsNothingCalls, DoneCalls DEF CountInv, TableOK
  <1>2. CASE ~(cur = 0 \/ error)
    <2>1. s \in FullSlots /\ s \in 1 .. Slots
      <3>1. s \in FullSlots
        BY <1>0, <1>2, OldestIsThere
      <3>2. QED
        BY <3>1 DEF FullSlots
    <2>2. /\ msg' = [msg EXCEPT ![s].size = 0]
          /\ cur' = cur - 1
          /\ spoilt \subseteq spoilt'
          /\ Enter(c, "copy", [call EXCEPT !.slot = s])
      BY <1>2 DEF TakeMessage, Emptied
    <2> HIDE DEF s
    <2>3. CallsOK'
      <3>1. [call EXCEPT !.slot = s] \in Call /\ "copy" \in PC
        BY <2>1 DEF Call, PC
      <3>2. QED
        BY <1>0, <2>2, <3>1, EnterCalls
    <2>4. TableOK'
      BY <1>0, <1>2, <2>1, <2>2 DEF TableOK
    <2>5. FullSlots' = FullSlots \ {s}
      BY <1>0, <2>1, <2>2 DEF FullSlots, TableOK
    <2>6. Cardinality(FullSlots \ {s}) = Cardinality(FullSlots) - 1
      BY <2>1, FullSlotsFinite, FS_RemoveElement
    <2>7. CountMatches'
      BY <2>2, <2>5, <2>6 DEF CountInv, CountMatches
    <2>8. QED
      BY <1>0, <2>3, <2>4, <2>7 DEF CountInv
  <1>3. QED
    BY <1>1, <1>2

-----------------------------------------------------------------------------
LEMMA MqObject == MqObj \in Object
  BY DEF MqObj, Object, ObjectKind

LEMMA CallTimes ==
    ASSUME NEW c \in Task, NEW time \in Times(c)
    PROVE  time \in TimeKind
  BY MqueueAssumption DEF Times, TimeKind

\* Calls of mq_timedsend() up to the copy of the message, and after it.
LEMMA SendCount ==
    ASSUME CountInv, NEW c \in Task, Send(c) \/ SendAgain(c)
    PROVE  CountInv'
  <1>0. CallsOK /\ sends \in Nat
    BY DEF CountInv
  <1>1. CASE Send(c)
    <2>1. PICK p \in MsgPrio, n \in Lengths, time \in Times(c) :
             Reserve(c, [NoCall EXCEPT !.id = sends + 1, !.prio = p, !.len = n, !.time = time])
      BY <1>1 DEF Send
    <2>2. p \in Nat /\ n \in Nat /\ time \in TimeKind /\ sends + 1 \in Nat
      BY <1>0, CallTimes, MqueueAssumption
    <2>3. [NoCall EXCEPT !.id = sends + 1, !.prio = p, !.len = n, !.time = time] \in Call
      BY <2>2, EmptyCall DEF Call
    <2>4. sends' = sends + 1
      BY <1>1, Zenon DEF Send
    <2>5. QED
      BY <2>1, <2>2, <2>3, <2>4, ReserveCount DEF CountInv
  <1>2. CASE SendAgain(c)
    <2>1. loc[c] \in Call /\ Reserve(c, loc[c]) /\ sends' = sends
      BY <1>0, <1>2 DEF SendAgain, CallsOK
    <2>2. QED
      BY <1>0, <2>1, ReserveCount DEF CountInv
  <1>3. QED
    BY <1>1, <1>2

LEMMA FillCount ==
    ASSUME CountInv, NEW c \in Task, Fill(c) \/ FillAge(c)
    PROVE  CountInv'
  <1> DEFINE s == loc[c].slot
  <1>0. CallsOK /\ TableOK /\ sends \in Nat /\ k \in Kernel /\ loc[c] \in Call /\ CountMatches
    BY DEF CountInv, CallsOK
  <1>1. loc[c].id \in Nat /\ loc[c].prio \in Nat /\ loc[c].reg \in Nat /\ loc[c].slot \in 0 .. Slots
    BY <1>0 DEF Call
  <1>2. CASE Fill(c)
    <2>1. /\ msg' = [msg EXCEPT ![s].id = loc[c].id, ![s].prio = loc[c].prio]
          /\ UNCHANGED <<k, cur, age, sends>> /\ spoilt \subseteq spoilt'
      BY <1>2 DEF Fill, Spoil
    <2>2. TableOK'
      <3>1. \A r \in 1 .. Slots :
               msg'[r] = IF r = s THEN [msg[r] EXCEPT !.id = loc[c].id, !.prio = loc[c].prio]
                                  ELSE msg[r]
        BY <1>0, <2>1 DEF TableOK
      <3>2. \A r \in 1 .. Slots : msg'[r] \in [size : Nat, id : Nat, prio : Nat, age : Nat]
        BY <1>0, <1>1, <3>1 DEF TableOK
      <3>3. msg' \in [1 .. Slots -> [size : Nat, id : Nat, prio : Nat, age : Nat]]
        BY <1>0, <2>1, <3>2 DEF TableOK
      <3>4. QED
        BY <1>0, <2>1, <3>3 DEF TableOK
    <2>3. FullSlots' = FullSlots
      BY <1>0, <2>1 DEF FullSlots, TableOK
    <2>4. CallsOK'
      BY <1>0, <1>2 DEF Fill, Goto, CallsOK, TableOK, Call, PC
    <2>5. QED
      BY <1>0, <2>1, <2>2, <2>3, <2>4, CountKept DEF CountInv
  <1>3. CASE FillAge(c)
    <2>1. /\ msg' = [msg EXCEPT ![s].age = loc[c].reg] /\ age' = loc[c].reg + 1
          /\ UNCHANGED <<k, loc, cur, sends>> /\ spoilt \subseteq spoilt'
      BY <1>3 DEF FillAge, NextAge, Spoil
    <2>2. TableOK'
      <3>1. \A r \in 1 .. Slots :
               msg'[r] = IF r = s THEN [msg[r] EXCEPT !.age = loc[c].reg] ELSE msg[r]
        BY <1>0, <2>1 DEF TableOK
      <3>2. \A r \in 1 .. Slots : msg'[r] \in [size : Nat, id : Nat, prio : Nat, age : Nat]
        BY <1>0, <1>1, <3>1 DEF TableOK
      <3>3. msg' \in [1 .. Slots -> [size : Nat, id : Nat, prio : Nat, age : Nat]]
        BY <1>0, <2>1, <3>2 DEF TableOK
      <3>4. age' \in Nat
        BY <1>1, <2>1
      <3>5. QED
        BY <1>0, <2>1, <3>3, <3>4 DEF TableOK
    <2>3. FullSlots' = FullSlots
      BY <1>0, <2>1 DEF FullSlots, TableOK
    <2>4. CallsOK'
      BY <1>0, <1>3, <2>1 DEF FillAge, Goto, CallsOK, PC
    <2>5. QED
      BY <1>0, <2>1, <2>2, <2>3, <2>4, CountKept DEF CountInv
  <1>4. QED
    BY <1>2, <1>3

\* Calls of mq_timedreceive().
LEMMA ReceiveCount ==
    ASSUME CountInv, NEW c \in Task, Receive(c) \/ ReceiveAgain(c)
    PROVE  CountInv'
  <1>0. CallsOK
    BY DEF CountInv
  <1>1. CASE Receive(c)
    <2>1. PICK n \in Lengths, time \in Times(c) :
             TakeMessage(c, [NoCall EXCEPT !.len = n, !.time = time])
      BY <1>1 DEF Receive
    <2>2. n \in Nat /\ time \in TimeKind
      BY CallTimes, MqueueAssumption
    <2>3. [NoCall EXCEPT !.len = n, !.time = time] \in Call
      BY <2>2, EmptyCall DEF Call
    <2>4. QED
      BY <2>1, <2>3, TakeMessageCount
  <1>2. CASE ReceiveAgain(c)
    <2>1. loc[c] \in Call /\ TakeMessage(c, loc[c])
      BY <1>0, <1>2 DEF ReceiveAgain, CallsOK
    <2>2. QED
      BY <2>1, TakeMessageCount
  <1>3. QED
    BY <1>1, <1>2

\* Steps that leave the queue alone.
LEMMA QueueUntouched ==
    ASSUME CountInv, UNCHANGED <<msg, cur, age, sends>>, spoilt \subseteq spoilt',
           k' \in Kernel, CallsOK'
    PROVE  CountInv'
  <1>1. FullSlots' = FullSlots
    BY DEF FullSlots
  <1>2. QED
    BY <1>1, CountKept DEF CountInv, TableOK

LEMMA WaitCount ==
    ASSUME CountInv, NEW c \in Task,
           CopyMessage(c) \/ Block(c) \/ Woken(c) \/ Check(c) \/ Wake(c) \/ Yield(c)
    PROVE  CountInv'
  <1>0. CallsOK /\ k \in Kernel
    BY DEF CountInv
  <1>1. CASE CopyMessage(c) \/ Woken(c)
    <2>1. UNCHANGED <<k, loc, msg, cur, age, spoilt, sends>>
      BY <1>1 DEF CopyMessage, Woken
    <2>2. CallsOK'
      BY <1>0, <1>1 DEF CopyMessage, Woken, Goto, CallsOK, PC
    <2>3. QED
      BY <1>0, <2>1, <2>2, QueueUntouched
  <1>2. CASE Block(c)
    <2>1. k.current = c /\ k' \in Return(TimedBlock(k, MqObj, loc[c].time))
      BY <1>2 DEF Block, At
    <2>2. k' \in Kernel
      BY <1>0, <2>1, MqObject, TimedBlockKernel, ReturnKernel
    <2>3. CallsOK' /\ UNCHANGED <<msg, cur, age, sends>> /\ spoilt \subseteq spoilt'
      BY <1>0, <1>2 DEF Block, Goto, CallsOK, PC
    <2>4. QED
      BY <2>2, <2>3, QueueUntouched
  <1>3. CASE Check(c)
    <2>1. UNCHANGED <<k, msg, cur, age, sends>> /\ spoilt \subseteq spoilt'
      BY <1>3 DEF Check
    <2>2. CASE NewThread = -1
      BY <1>0, <1>3, <2>1, <2>2, DoneCalls, QueueUntouched DEF Check
    <2>3. CASE NewThread # -1
      <3>1. NewThread \in Task /\ NewThread \in Nat
        BY <1>0, <2>3, HighestPriorityBlockedTask DEF NewThread, BlockedOn, Kernel, Task
      <3>2. /\ [NoCall EXCEPT !.reg = NewThread] \in Call
            /\ [NoCall EXCEPT !.reg = NewThread].reg \in Task
            /\ "wake" \in PC
        BY <3>1, EmptyCall DEF Call, PC
      <3>3. Enter(c, "wake", [NoCall EXCEPT !.reg = NewThread])
        BY <1>3, <2>3 DEF Check
      <3>4. CallsOK'
        BY <1>0, <3>2, <3>3, EnterCalls
      <3>5. QED
        BY <1>0, <2>1, <3>4, QueueUntouched
    <2>4. QED
      BY <2>2, <2>3
  <1>4. CASE Wake(c)
    <2>1. loc[c].reg \in Task
      BY <1>0, <1>4 DEF Wake, At, CallsOK
    <2>2. UpdateOnWake(AssertActive(k, {loc[c].reg}, "MQ"), k.prio[loc[c].reg]) \in Kernel
      BY <1>0, <2>1, WakeOneKernel DEF UnblockType
    <2>3. k' \in Kernel
      BY <1>4, <2>2, ReturnKernel DEF Wake
    <2>4. QED
      BY <1>0, <1>4, <2>3, DoneCalls, QueueUntouched DEF Wake
  <1>5. CASE Yield(c)
    <2>1. SwitchContext(k) \in Kernel
      BY <1>0 DEF SwitchContext, Kernel
    <2>2. k' \in Kernel
      BY <1>5, <2>1, ReturnKernel DEF Yield
    <2>3. CallsOK'
      BY <1>0, <1>5 DEF Yield, CallsOK
    <2>4. QED
      BY <1>5, <2>2, <2>3, QueueUntouched DEF Yield
  <1>6. QED
    BY <1>1, <1>2, <1>3, <1>4, <1>5

LEMMA EnvironmentCount ==
    ASSUME CountInv, SysTick \/ TimerMatch
    PROVE  CountInv'
  <1>0. CallsOK /\ k \in Kernel
    BY DEF CountInv
  <1>1. k' \in Kernel
    <2>1. CASE SysTick
      <3>1. SwitchContext(k) \in Kernel
        BY <1>0 DEF SwitchContext, Kernel
      <3>2. QED
        BY <2>1, <3>1, ReturnKernel DEF SysTick
    <2>2. CASE TimerMatch
      <3>1. PICK S \in SUBSET Sleepers(k) : k' \in Return(MatchEvent(k, S))
        BY <2>2 DEF TimerMatch
      <3>2. S \in SUBSET Task
        BY <1>0 DEF Sleepers, Kernel
      <3>3. QED
        BY <1>0, <3>1, <3>2, MatchEventKernel, ReturnKernel
    <2>3. QED
      BY <2>1, <2>2
  <1>2. UNCHANGED <<pc, loc, msg, cur, age, sends, spoilt>>
    BY DEF SysTick, TimerMatch
  <1>3. QED
    BY <1>0, <1>1, <1>2, QueueUntouched DEF CallsOK

LEMMA NextCount ==
    ASSUME CountInv, [Next]_vars
    PROVE  CountInv'
  <1>1. CASE SysTick \/ TimerMatch
    BY <1>1, EnvironmentCount
  <1>2. ASSUME NEW c \in Task, ThreadStep(c) PROVE CountInv'
    BY <1>2, SendCount, FillCount, ReceiveCount, WaitCount DEF ThreadStep
  <1>3. CASE UNCHANGED vars
    <2>1. k' \in Kernel /\ CallsOK'
      BY <1>3 DEF vars, CountInv, CallsOK
    <2>2. QED
      BY <1>3, <2>1, QueueUntouched DEF vars
  <1>4. QED
    BY <1>1, <1>2, <1>3 DEF Next

\* For any number of threads, slots, messages and priorities, however calls
\* overlap, and whether or not wake-ups are lost: as long as no message of
\* length zero was sent, mq->cur_msgs is the number of messages in
\* mq->msg_table.
THEOREM CounterIsRight == Spec => []CountMatches
  <1>1. CountInv => CountMatches
    BY DEF CountInv
  <1>2. QED
    BY <1>1, InitCount, NextCount, PTL DEF Spec

-----------------------------------------------------------------------------
(* Wake-ups: whoever sleeps although it could go on has somebody who will find
   it, unless one of the mishaps has happened.                             *)
\* Thread t will go on to check_for_blocked_task(), or is about to wake a thread
\* that will.
Searching(t) ==
    \/ pc[t] \in {"fill", "age", "copy", "check"}
    \/ pc[t] = "again" /\ Able(t)
    \/ pc[t] = "woken" /\ t \in k.active /\ Able(t)
    \/ pc[t] = "wake" /\ loc[t].reg \notin k.active /\ Able(loc[t].reg)

\* Nobody sleeps but in block_on_mq().
SleepInv ==
    /\ Runs(k) /\ k.used = Task
    /\ \A t \in Task : t \notin k.active => pc[t] = "woken" /\ k.block[t] = MqObj

Forgotten == \E t \in Task : t \notin k.active /\ Able(t)
LooksInv  == spoilt \cap Mishaps = {} /\ Forgotten => \E t \in Task : Searching(t)

LEMMA Sleeping ==
    ASSUME SleepInv
    PROVE  BlockedOn(k, MqObj) = Task \ k.active
  BY DEF SleepInv, BlockedOn

\* The running thread is awake.
LEMMA RunningAwake ==
    ASSUME SleepInv, NEW c \in Task, k.current = c
    PROVE  c \in k.active /\ k \in Kernel
  BY TableAssumption DEF SleepInv, Runs, Task

\* Steps outside the kernel.
LEMMA SleepQuiet ==
    ASSUME SleepInv, NEW c \in Task, k.current = c, k' = k,
           \A t \in Task \ {c} : pc'[t] = pc[t]
    PROVE  SleepInv'
  <1>1. c \in k.active
    BY RunningAwake
  <1>2. QED
    BY <1>1 DEF SleepInv, MqObj

\* The running thread goes on, and nothing has come or gone.
LEMMA LooksQuiet ==
    ASSUME LooksInv, NEW c \in Task, k' = k, cur' = cur, spoilt \subseteq spoilt',
           \A t \in Task \ {c} : pc'[t] = pc[t] /\ loc'[t] = loc[t],
           Searching(c) /\ Forgotten => Searching(c)' \/ spoilt' \cap Mishaps # {}
    PROVE  LooksInv'
  <1> SUFFICES ASSUME spoilt' \cap Mishaps = {}, Forgotten' PROVE \E t \in Task : Searching(t)'
    BY DEF LooksInv, Mishaps
  <1>1. \A t \in Task : Able(t)' <=> Able(t)
    BY DEF Able
  <1>2. spoilt \cap Mishaps = {}
    OBVIOUS
  <1>3. Forgotten
    BY <1>1 DEF Forgotten
  <1>4. PICK t \in Task : Searching(t)
    BY <1>2, <1>3 DEF LooksInv
  <1>5. CASE t = c
    BY <1>3, <1>4, <1>5
  <1>6. CASE t # c
    <2>1. pc'[t] = pc[t] /\ loc'[t] = loc[t] /\ k'.active = k.active
      BY <1>6
    <2>2. Able(loc[t].reg)' <=> Able(loc[t].reg)
      BY <2>1 DEF Able
    <2>3. Searching(t)'
      BY <1>1, <1>4, <2>1, <2>2 DEF Searching, Able
    <2>4. QED
      BY <2>3
  <1>7. QED
    BY <1>5, <1>6

\* Threads are woken: each of them searches if it can go on.
LEMMA LooksWoken ==
    ASSUME LooksInv, SleepInv, NEW S, k'.active = k.active \cup S, cur' = cur, spoilt' = spoilt,
           \A t \in Task : t \notin k.active => pc'[t] = pc[t],
           \A t \in Task : Searching(t) =>
               \/ pc'[t] = pc[t] /\ loc'[t] = loc[t]
               \/ pc[t] = "wake" /\ loc[t].reg \in S,
           \A t \in Task : pc[t] = "wake" => loc[t].reg \in Task
    PROVE  LooksInv'
  <1> SUFFICES ASSUME spoilt \cap Mishaps = {}, Forgotten' PROVE \E t \in Task : Searching(t)'
    BY DEF LooksInv, Mishaps
  <1>1. \A t : Able(t)' <=> Able(t)
    BY DEF Able
  <1>2. Forgotten
    BY <1>1 DEF Forgotten
  <1>3. PICK t \in Task : Searching(t)
    BY <1>2 DEF LooksInv
  <1>4. CASE pc[t] = "wake" /\ loc[t].reg \in S
    <2>1. PICK n \in Task : n \notin k.active /\ Able(n) /\ n \in S
      BY <1>3, <1>4 DEF Searching
    <2>2. pc'[n] = "woken" /\ n \in k'.active /\ Able(n)'
      BY <1>1, <2>1 DEF SleepInv
    <2>3. Searching(n)'
      BY <2>2 DEF Searching
    <2>4. QED
      BY <2>1, <2>3
  <1>5. CASE ~(pc[t] = "wake" /\ loc[t].reg \in S)
    <2>1. pc'[t] = pc[t] /\ loc'[t] = loc[t]
      BY <1>3, <1>5
    <2>2. CASE pc[t] = "wake"
      <3>1. loc[t].reg \notin k.active /\ Able(loc[t].reg)
        BY <1>3, <2>2 DEF Searching
      <3>2. loc'[t].reg \notin k'.active /\ Able(loc[t].reg)'
        BY <1>1, <1>5, <2>1, <2>2, <3>1
      <3>3. Searching(t)'
        BY <2>1, <2>2, <3>2 DEF Searching, Able
      <3>4. QED
        BY <3>3
    <2>3. CASE pc[t] # "wake"
      <3>1. Searching(t)'
        BY <1>1, <1>3, <2>1, <2>3 DEF Searching
      <3>2. QED
        BY <3>1
    <2>4. QED
      BY <2>2, <2>3
  <1>6. QED
    BY <1>4, <1>5

\* A thread that begins to search does as well as any.
LEMMA LooksFound ==
    ASSUME NEW c \in Task, pc'[c] \in {"fill", "age", "copy", "check"}
    PROVE  LooksInv'
  BY DEF LooksInv, Searching

\* Where a thread goes on.
LEMMA Goes ==
    ASSUME CallsOK, NEW c \in Task, NEW call,
           GetsNothing(c, call) \/ Done(c) \/ \E l : Enter(c, l, call)
    PROVE  \A t \in Task \ {c} : pc'[t] = pc[t] /\ loc'[t] = loc[t]
  BY DEF CallsOK, GetsNothing, Done, Enter, Goto

\* priv_send() finds a slot whenever the counter says that there is one.
LEMMA RoomIsThere ==
    ASSUME CountInv, "empty" \notin spoilt, cur < Slots
    PROVE  HasRoom
  <1>1. cur = Cardinality(FullSlots)
    BY DEF CountInv, CountMatches
  <1>2. FreeSlots = (1 .. Slots) \ FullSlots
    BY DEF FreeSlots, FullSlots
  <1>3. FullSlots \in SUBSET (1 .. Slots)
    BY DEF FullSlots
  <1>4. Slots \in Nat /\ Cardinality(1 .. Slots) = Slots
    BY MqueueAssumption, FS_Interval
  <1>5. FullSlots # 1 .. Slots
    BY <1>1, <1>4
  <1>6. FreeSlots # {}
    BY <1>2, <1>3, <1>5
  <1>7. QED
    BY <1>6 DEF HasRoom

-----------------------------------------------------------------------------
\* Calls of mq_timedsend() up to their sleep: a sender that does not find a slot
\* was not one that could go on.
LEMMA ReserveLooks ==
    ASSUME CountInv, LooksInv, NEW c \in Senders, c \in Task, NEW call \in Call,
           Reserve(c, call), pc[c] \in {"run", "again"}
    PROVE  LooksInv' /\ k' = k /\ \A t \in Task \ {c} : pc'[t] = pc[t]
  <1>0. CallsOK /\ k' = k /\ call.len \in Nat
    BY DEF CountInv, Reserve, Call
  <1>1. CASE HasRoom /\ call.len > 0
    <2>1. Enter(c, "fill", [call EXCEPT !.slot = Min(FreeSlots)])
      BY <1>1 DEF Reserve
    <2>2. pc'[c] = "fill"
      BY <1>0, <2>1 DEF Enter, Goto, CallsOK
    <2>3. QED
      BY <1>0, <2>1, <2>2, LooksFound, Goes
  <1>2. CASE HasRoom /\ call.len = 0
    <2>1. GetsNothing(c, call) /\ "empty" \in spoilt'
      BY <1>2 DEF Reserve, Spoil
    <2>2. LooksInv'
      BY <2>1 DEF LooksInv, Mishaps
    <2>3. QED
      BY <1>0, <2>1, <2>2, Goes
  <1>3. CASE ~HasRoom
    <2>1. GetsNothing(c, call) /\ UNCHANGED <<msg, cur, spoilt>>
      BY <1>3 DEF Reserve
    <2>2. \A t \in Task \ {c} : pc'[t] = pc[t] /\ loc'[t] = loc[t]
      BY <1>0, <2>1, Goes
    <2>3. Searching(c) => "empty" \in spoilt
      <3>1. Searching(c) => cur < Slots
        BY DEF Searching, Able
      <3>2. QED
        BY <1>3, <3>1, RoomIsThere
    <2>4. Searching(c) => spoilt' \cap Mishaps # {}
      BY <2>1, <2>3 DEF Mishaps
    <2>5. LooksInv'
      BY <1>0, <2>1, <2>2, <2>4, LooksQuiet
    <2>6. QED
      BY <1>0, <2>2, <2>5
  <1>4. QED
    BY <1>0, <1>1, <1>2, <1>3

\* Calls of mq_timedreceive(): a receiver that could go on takes a message, or
\* gives up with an error, which is a mishap.
LEMMA TakeMessageLooks ==
    ASSUME CountInv, LooksInv, NEW c \in Task, c \notin Senders, NEW call,
           TakeMessage(c, call), pc[c] \in {"run", "again"}, k.current = c
    PROVE  LooksInv' /\ k' = k /\ \A t \in Task \ {c} : pc'[t] = pc[t]
  <1>0. CallsOK /\ k' = k
    BY DEF CountInv, TakeMessage
  <1> DEFINE s     == Oldest(FullSlots)
             error == FullSlots = {} \/ call.len < msg[s].size
  <1>1. CASE cur = 0
    <2>1. GetsNothing(c, call) /\ UNCHANGED <<msg, cur, spoilt>>
      BY <1>1 DEF TakeMessage
    <2>2. \A t \in Task \ {c} : pc'[t] = pc[t] /\ loc'[t] = loc[t]
      BY <1>0, <2>1, Goes
    <2>3. ~Searching(c)
      BY <1>1 DEF Searching, Able
    <2>4. LooksInv'
      BY <1>0, <2>1, <2>2, <2>3, LooksQuiet
    <2>5. QED
      BY <1>0, <2>2, <2>4
  <1>2. CASE cur # 0 /\ error
    <2>1. /\ Done(c) /\ UNCHANGED <<msg, cur>>
          /\ spoilt' = spoilt \cup Spoil("short", At(c, "again"))
      BY <1>2 DEF TakeMessage
    <2> HIDE DEF error
    <2>2. \A t \in Task \ {c} : pc'[t] = pc[t] /\ loc'[t] = loc[t]
      BY <1>0, <2>1, Goes
    <2>3. Searching(c) => "short" \in spoilt'
      BY <2>1 DEF Searching, At, Spoil
    <2>4. Searching(c) => spoilt' \cap Mishaps # {}
      BY <2>3 DEF Mishaps
    <2>5. spoilt \subseteq spoilt'
      BY <2>1
    <2>6. LooksInv'
      BY <1>0, <2>1, <2>2, <2>4, <2>5, LooksQuiet
    <2>7. QED
      BY <1>0, <2>2, <2>6
  <1>3. CASE cur # 0 /\ ~error
    <2>1. Enter(c, "copy", [call EXCEPT !.slot = s])
      BY <1>3 DEF TakeMessage
    <2> HIDE DEF error, s
    <2>2. pc'[c] = "copy"
      BY <1>0, <2>1 DEF Enter, Goto, CallsOK
    <2>3. QED
      BY <1>0, <2>1, <2>2, LooksFound, Goes
  <1>4. QED
    BY <1>1, <1>2, <1>3

LEMMA CallLooks ==
    ASSUME CountInv, SleepInv, LooksInv, NEW c \in Task,
           Send(c) \/ SendAgain(c) \/ Receive(c) \/ ReceiveAgain(c)
    PROVE  SleepInv' /\ LooksInv'
  <1>0. CallsOK /\ sends \in Nat /\ k.current = c
    BY DEF CountInv, Send, SendAgain, Receive, ReceiveAgain, At
  <1>1. LooksInv' /\ k' = k /\ \A t \in Task \ {c} : pc'[t] = pc[t]
    <2>1. CASE Send(c)
      <3>1. PICK p \in MsgPrio, n \in Lengths, time \in Times(c) :
               Reserve(c, [NoCall EXCEPT !.id = sends + 1, !.prio = p, !.len = n, !.time = time])
        BY <2>1 DEF Send
      <3>2. p \in Nat /\ n \in Nat /\ time \in TimeKind /\ sends + 1 \in Nat
        BY <1>0, CallTimes, MqueueAssumption
      <3>3. [NoCall EXCEPT !.id = sends + 1, !.prio = p, !.len = n, !.time = time] \in Call
        BY <3>2, EmptyCall DEF Call
      <3>4. c \in Senders /\ pc[c] = "run"
        BY <2>1 DEF Send, At
      <3>5. QED
        BY <3>1, <3>3, <3>4, ReserveLooks
    <2>2. CASE SendAgain(c)
      <3>1. c \in Senders /\ pc[c] = "again" /\ loc[c] \in Call /\ Reserve(c, loc[c])
        BY <1>0, <2>2 DEF SendAgain, At, CallsOK
      <3>2. QED
        BY <3>1, ReserveLooks
    <2>3. CASE Receive(c)
      <3>1. PICK n \in Lengths, time \in Times(c) :
               TakeMessage(c, [NoCall EXCEPT !.len = n, !.time = time])
        BY <2>3 DEF Receive
      <3>2. c \notin Senders /\ pc[c] = "run"
        BY <2>3 DEF Receive, At
      <3>3. QED
        BY <1>0, <3>1, <3>2, TakeMessageLooks
    <2>4. CASE ReceiveAgain(c)
      <3>1. c \notin Senders /\ pc[c] = "again" /\ TakeMessage(c, loc[c])
        BY <2>4 DEF ReceiveAgain, At
      <3>2. QED
        BY <1>0, <3>1, TakeMessageLooks
    <2>5. QED
      BY <2>1, <2>2, <2>3, <2>4
  <1>2. QED
    BY <1>0, <1>1, SleepQuiet

\* The copies, and the return from the sleep.
LEMMA CopyLooks ==
    ASSUME CountInv, SleepInv, LooksInv, NEW c \in Task,
           Fill(c) \/ FillAge(c) \/ CopyMessage(c) \/ Woken(c)
    PROVE  SleepInv' /\ LooksInv'
  <1>0. CallsOK /\ k' = k /\ k.current = c /\ \A t \in Task \ {c} : pc'[t] = pc[t] /\ loc'[t] = loc[t]
    BY DEF CountInv, CallsOK, Fill, FillAge, CopyMessage, Woken, At, Goto
  <1>1. CASE Fill(c) \/ FillAge(c) \/ CopyMessage(c)
    <2>1. pc'[c] \in {"age", "check"}
      BY <1>0, <1>1 DEF Fill, FillAge, CopyMessage, Goto, CallsOK
    <2>2. QED
      BY <1>0, <2>1, SleepQuiet, LooksFound
  <1>2. CASE Woken(c)
    <2>1. /\ pc[c] = "woken" /\ pc'[c] \in {"check", "again"}
          /\ UNCHANGED <<k, loc, cur, spoilt>>
      BY <1>0, <1>2 DEF Woken, At, Goto, CallsOK
    <2>2. Searching(c) => Searching(c)'
      BY <2>1 DEF Searching, Able
    <2>3. LooksInv'
      BY <1>0, <2>1, <2>2, LooksQuiet
    <2>4. QED
      BY <1>0, <2>3, SleepQuiet
  <1>3. QED
    BY <1>1, <1>2

\* check_for_blocked_task() finds somebody if anybody sleeps.
LEMMA CheckLooks ==
    ASSUME CountInv, SleepInv, LooksInv, NEW c \in Task, Check(c)
    PROVE  SleepInv' /\ LooksInv'
  <1>0. /\ CallsOK /\ k' = k /\ k.current = c /\ k \in Kernel /\ cur' = cur
        /\ spoilt \subseteq spoilt'
    BY DEF CountInv, Check, At
  <1>1. BlockedOn(k, MqObj) = Task \ k.active
    BY Sleeping
  <1>2. \A t \in Task \ {c} : pc'[t] = pc[t] /\ loc'[t] = loc[t]
    BY <1>0, Goes DEF Check
  <1>3. LooksInv'
    <2>1. CASE NewThread = -1
      <3>1. BlockedOn(k, MqObj) = {}
        BY <1>0, <1>1, <2>1, HighestPriorityBlockedTask DEF NewThread, Task
      <3>2. ~Forgotten'
        BY <1>0, <1>1, <3>1 DEF Forgotten
      <3>3. QED
        BY <3>2 DEF LooksInv
    <2>2. CASE NewThread # -1
      <3>1. NewThread \in Task \ k.active
        BY <1>0, <1>1, <2>2, HighestPriorityBlockedTask DEF NewThread
      <3>2. PICK n \in Task \ k.active : n = NewThread
        BY <3>1
      <3>3. Enter(c, "wake", [NoCall EXCEPT !.reg = n])
        BY <2>2, <3>2 DEF Check
      <3>4. pc'[c] = "wake" /\ loc'[c].reg = n
        BY <1>0, <3>3 DEF Enter, Goto, CallsOK, NoCall
      <3>5. CASE Able(n)
        <4>1. Searching(c)'
          BY <1>0, <3>2, <3>4, <3>5 DEF Searching, Able
        <4>2. QED
          BY <4>1 DEF LooksInv
      <3>6. CASE ~Able(n) /\ Forgotten
        <4>1. \E t \in BlockedOn(k, MqObj) : Able(t)
          BY <1>1, <3>6 DEF Forgotten
        <4>2. "wrong" \in spoilt'
          BY <2>2, <3>2, <3>6, <4>1 DEF Check, Spoil
        <4>3. QED
          BY <4>2 DEF LooksInv, Mishaps
      <3>7. CASE ~Forgotten
        <4>1. ~Forgotten'
          BY <1>0, <3>7 DEF Forgotten, Able
        <4>2. QED
          BY <4>1 DEF LooksInv
      <3>8. QED
        BY <3>5, <3>6, <3>7
    <2>3. QED
      BY <2>1, <2>2
  <1>4. QED
    BY <1>0, <1>2, <1>3, SleepQuiet

\* The tick and the timer wake threads, or nobody.
LEMMA EnvironmentLooks ==
    ASSUME CountInv, SleepInv, LooksInv,
           SysTick \/ TimerMatch \/ \E c \in Task : Yield(c)
    PROVE  SleepInv' /\ LooksInv'
  <1>0. /\ k \in Kernel /\ Runs(k) /\ k.used = Task
        /\ UNCHANGED <<pc, loc, cur, spoilt>>
        /\ \A t \in Task : pc[t] = "wake" => loc[t].reg \in Task
    BY DEF SleepInv, CountInv, CallsOK, SysTick, TimerMatch, Yield
  <1>1. PICK S \in SUBSET Task :
           /\ Runs(k') /\ k'.used = Task /\ k'.active = k.active \cup S
           /\ \A t \in Task \ S : k'.block[t] = k.block[t]
    <2>1. CASE TimerMatch
      <3>1. PICK S \in SUBSET Sleepers(k) : k' \in Return(MatchEvent(k, S))
        BY <2>1 DEF TimerMatch
      <3>2. S \in SUBSET Task
        BY <1>0 DEF Sleepers, Kernel
      <3>3. TopPriority(k, S) \in NoPriority .. HighestPriority /\ "SLEEP" \in UnblockType
        BY <1>0, <3>2, TopPriorityRange DEF UnblockType
      <3>4. /\ Runs(k') /\ k'.used = k.used /\ k'.active = k.active \cup S
            /\ \A t \in Task : k'.block[t] = IF t \in S THEN NULL ELSE k.block[t]
        BY <1>0, <3>1, <3>2, <3>3, WakeRuns DEF MatchEvent
      <3>5. QED
        BY <1>0, <3>2, <3>4
    <2>2. CASE SysTick \/ \E c \in Task : Yield(c)
      <3>1. k' \in Return(SwitchContext(k))
        BY <2>2 DEF SysTick, Yield
      <3>2. /\ SwitchContext(k) \in Kernel /\ SwitchContext(k).pend
            /\ SwitchContext(k).exec \subseteq Ready(SwitchContext(k))
            /\ Entries(SwitchContext(k)) = Entries(k)
        BY <1>0 DEF SwitchContext, Kernel, Runs, Ready, Entries
      <3>3. Runs(k') /\ Entries(k') = Entries(k)
        BY <3>1, <3>2, ReturnRuns
      <3> DEFINE S == {}
      <3>4. /\ S \in SUBSET Task /\ k'.used = Task /\ k'.active = k.active \cup S
            /\ \A t \in Task \ S : k'.block[t] = k.block[t]
        BY <1>0, <3>3 DEF Entries
      <3> HIDE DEF S
      <3>5. QED
        BY <3>3, <3>4
    <2>3. QED
      BY <2>1, <2>2
  <1>2. SleepInv'
    BY <1>0, <1>1 DEF SleepInv, MqObj
  <1>3. LooksInv'
    BY <1>0, <1>1, LooksWoken
  <1>4. QED
    BY <1>2, <1>3

\* priv_wake_blocked(): the thread may be awake already.
LEMMA WakeLooks ==
    ASSUME CountInv, SleepInv, LooksInv, NEW c \in Task, Wake(c)
    PROVE  SleepInv' /\ LooksInv'
  <1>0. /\ CallsOK /\ Runs(k) /\ k.used = Task /\ k.current = c /\ pc[c] = "wake" /\ Done(c)
        /\ UNCHANGED <<cur, spoilt>> /\ c \in k.active /\ k \in Kernel
    BY RunningAwake DEF CountInv, SleepInv, Wake, At
  <1>1. PICK n \in Task : n = loc[c].reg
    BY <1>0 DEF CallsOK
  <1> DEFINE S == {n}
  <1>2. k' \in Return(UpdateOnWake(AssertActive(k, S, "MQ"), k.prio[n]))
    BY <1>1 DEF Wake
  <1>3. k.prio[n] \in NoPriority .. HighestPriority /\ "MQ" \in UnblockType /\ S \in SUBSET Task
    BY <1>0, TableAssumption DEF Kernel, Priority, NoPriority, UnblockType
  <1>4. n \in S
    OBVIOUS
  <1> HIDE DEF S
  <1>5. /\ Runs(k') /\ k'.used = Task /\ k'.active = k.active \cup S
        /\ \A t \in Task : k'.block[t] = IF t \in S THEN NULL ELSE k.block[t]
    BY <1>0, <1>2, <1>3, WakeRuns
  <1>6. \A t \in Task \ {c} : pc'[t] = pc[t] /\ loc'[t] = loc[t]
    BY <1>0, Goes
  <1>7. SleepInv'
    BY <1>0, <1>5, <1>6 DEF SleepInv, MqObj
  <1>8. /\ \A t \in Task : t \notin k.active => pc'[t] = pc[t]
        /\ \A t \in Task : pc[t] = "wake" => loc[t].reg \in Task
        /\ \A t \in Task : Searching(t) => \/ pc'[t] = pc[t] /\ loc'[t] = loc[t]
                                           \/ pc[t] = "wake" /\ loc[t].reg \in S
    BY <1>0, <1>1, <1>4, <1>6 DEF CallsOK
  <1>9. LooksInv'
    BY <1>0, <1>5, <1>8, LooksWoken
  <1>10. QED
    BY <1>7, <1>9

\* block_on_mq(): a thread that could go on and sleeps is a mishap.
LEMMA BlockLooks ==
    ASSUME CountInv, SleepInv, LooksInv, NEW c \in Task, Block(c)
    PROVE  SleepInv' /\ LooksInv'
  <1>0. /\ CallsOK /\ Runs(k) /\ k.used = Task /\ k.current = c /\ pc[c] = "block"
        /\ UNCHANGED <<cur, loc>> /\ spoilt' = spoilt \cup Spoil("late", Able(c))
        /\ k' \in Return(TimedBlock(k, MqObj, loc[c].time)) /\ Goto(c, "woken")
    BY DEF CountInv, SleepInv, Block, At
  <1>1. MqObj # NULL /\ MqObj \in Object
    BY MqObject DEF MqObj, NULL
  <1>2. /\ Runs(k') /\ k'.used = k.used /\ k'.active = k.active \ {c}
        /\ k'.block = [k.block EXCEPT ![c] = MqObj]
    BY <1>0, <1>1, BlockRuns
  <1>3. /\ \A t \in Task \ {c} : pc'[t] = pc[t] /\ loc'[t] = loc[t]
        /\ pc'[c] = "woken" /\ k.block \in [Task -> Object]
    BY <1>0 DEF Goto, CallsOK, Runs, Kernel
  <1>4. SleepInv'
    <2>1. \A t \in Task : t \notin k'.active => pc'[t] = "woken" /\ k'.block[t] = MqObj
      BY <1>2, <1>3 DEF SleepInv
    <2>2. QED
      BY <1>0, <1>2, <2>1 DEF SleepInv, MqObj
  <1>5. LooksInv'
    <2> SUFFICES ASSUME spoilt' \cap Mishaps = {}, Forgotten' PROVE \E t \in Task : Searching(t)'
      BY DEF LooksInv, Mishaps
    <2>1. ~Able(c) /\ spoilt \cap Mishaps = {}
      BY <1>0 DEF Spoil, Mishaps
    <2>2. \A t : Able(t)' <=> Able(t)
      BY <1>0 DEF Able
    <2>3. Forgotten
      BY <1>2, <2>1, <2>2 DEF Forgotten
    <2>4. PICK t \in Task : Searching(t)
      BY <2>1, <2>3 DEF LooksInv
    <2>5. t # c
      BY <1>0, <2>4 DEF Searching
    <2>6. Able(loc[t].reg)' <=> Able(loc[t].reg)
      BY <1>0 DEF Able
    <2>7. Searching(t)'
      BY <1>0, <1>2, <1>3, <2>2, <2>4, <2>5, <2>6 DEF Searching
    <2>8. QED
      BY <2>7
  <1>6. QED
    BY <1>4, <1>5

LEMMA InitLooks == Init => SleepInv /\ LooksInv
  <1> SUFFICES ASSUME Init PROVE SleepInv /\ LooksInv
    OBVIOUS
  <1>1. k \in Kernel
    BY InitCount DEF CountInv
  <1>2. k.used = Task /\ k.active = Task /\ k.stopped = {} /\ k.current = 0 /\ k.exec \subseteq Task
    BY DEF Init
  <1>3. QED
    BY <1>1, <1>2 DEF SleepInv, Runs, Ready, LooksInv, Forgotten

LEMMA NextLooks ==
    ASSUME CountInv, SleepInv, LooksInv, [Next]_vars
    PROVE  SleepInv' /\ LooksInv'
  <1>1. CASE SysTick \/ TimerMatch
    BY <1>1, EnvironmentLooks
  <1>2. ASSUME NEW c \in Task, ThreadStep(c) PROVE SleepInv' /\ LooksInv'
    BY <1>2, EnvironmentLooks, CallLooks, CopyLooks, CheckLooks, WakeLooks, BlockLooks
       DEF ThreadStep
  <1>3. CASE UNCHANGED vars
    <2>1. SleepInv'
      BY <1>3 DEF vars, SleepInv, MqObj
    <2>2. Forgotten' <=> Forgotten
      BY <1>3 DEF vars, Forgotten, Able
    <2>3. \A t \in Task : Searching(t)' <=> Searching(t)
      BY <1>3 DEF vars, Searching, Able
    <2>4. LooksInv'
      BY <1>3, <2>2, <2>3 DEF vars, LooksInv, Mishaps
    <2>5. QED
      BY <2>1, <2>4
  <1>4. QED
    BY <1>1, <1>2, <1>3 DEF Next

\* For any number of senders, receivers, slots and priorities: as long as no
\* thread blocks too late, wakes the wrong one or gives up with EMSGSIZE after it
\* was woken, and no message is empty, no thread sleeps in block_on_mq() for what
\* is there while nobody is about to find out (check_for_blocked_task()).
THEOREM WakeUpsNotLost == Spec => []NoForgotten
  <1>1. SleepInv /\ LooksInv => NoForgotten
    <2> SUFFICES ASSUME SleepInv, LooksInv, spoilt \cap Mishaps = {}, WillLook = {},
                        NEW t \in BlockedOn(k, MqObj), Able(t)
                 PROVE  FALSE
      BY DEF NoForgotten
    <2>1. t \in Task \ k.active
      BY Sleeping
    <2>2. PICK s \in Task : Searching(s)
      BY <2>1 DEF LooksInv, Forgotten
    <2>3. s \in WillLook
      BY <2>2 DEF Searching, WillLook
    <2>4. QED
      BY <2>3
  <1>2. CountInv /\ SleepInv /\ LooksInv /\ [Next]_vars => SleepInv' /\ LooksInv'
    BY NextLooks
  <1>3. QED
    BY <1>1, <1>2, InitCount, InitLooks, NextCount, PTL DEF Spec

-----------------------------------------------------------------------------
(* The order of the ages.                                                  *)

\* How many slots of S are as old as slot s or older, by the ages a.
Rank(S, a, s) == Cardinality(UpTo(S, a, s))
Ordered(S, a) ==
    /\ IsFiniteSet(S) /\ S \subseteq Nat
    /\ \A s \in S : a[s] \in Nat
    /\ \A s, r \in S : a[s] = a[r] => s = r

\* Slot x is none of S, whose ages b leaves, and younger.
Youngest(S, a, b, x) ==
    x \in Nat \ S /\ b[x] \in Nat /\ \A s \in S : b[s] = a[s] /\ a[s] < b[x]

LEMMA UpToIs ==
    ASSUME NEW S, NEW a, Ordered(S, a), NEW s \in S
    PROVE  UpTo(S, a, s) = {r \in S : a[r] <= a[s]}
  <1>1. \A r \in S : a[r] \in Nat /\ r \in Nat /\ (a[r] = a[s] => r = s)
    BY DEF Ordered
  <1>2. \A r \in S : (a[r] < a[s] \/ (a[r] = a[s] /\ r <= s)) <=> a[r] <= a[s]
    BY <1>1
  <1>3. QED
    BY <1>2 DEF UpTo

\* The ranks are in the order of the ages.
LEMMA RankOrder ==
    ASSUME NEW S, NEW a, Ordered(S, a), NEW s \in S, NEW r \in S
    PROVE  /\ Rank(S, a, s) \in 1 .. Cardinality(S)
           /\ Rank(S, a, s) <= Rank(S, a, r) <=> a[s] <= a[r]
           /\ Rank(S, a, s) = Rank(S, a, r) => s = r
  <1>1. \A x \in S : /\ UpTo(S, a, x) \in SUBSET S /\ x \in UpTo(S, a, x)
                     /\ IsFiniteSet(UpTo(S, a, x)) /\ Rank(S, a, x) \in Nat
                     /\ Rank(S, a, x) <= Cardinality(S) /\ Rank(S, a, x) # 0
    <2> TAKE x \in S
    <2>1. UpTo(S, a, x) \in SUBSET S /\ x \in UpTo(S, a, x)
      <3>1. a[x] \in Nat
        BY DEF Ordered
      <3>2. QED
        BY <3>1, UpToIs
    <2>2. IsFiniteSet(UpTo(S, a, x)) /\ Cardinality(UpTo(S, a, x)) <= Cardinality(S)
      BY <2>1, FS_Subset DEF Ordered
    <2>3. Cardinality(UpTo(S, a, x)) \in Nat /\ Cardinality(UpTo(S, a, x)) # 0
      BY <2>1, <2>2, FS_CardinalityType, FS_EmptySet
    <2>4. QED
      BY <2>1, <2>2, <2>3 DEF Rank
  <1>2. Cardinality(S) \in Nat
    BY FS_CardinalityType DEF Ordered
  <1>3. \A x, y \in S : a[x] <= a[y] => Rank(S, a, x) <= Rank(S, a, y)
    <2> SUFFICES ASSUME NEW x \in S, NEW y \in S, a[x] <= a[y]
                 PROVE  Rank(S, a, x) <= Rank(S, a, y)
      OBVIOUS
    <2>1. \A z \in S : a[z] \in Nat
      BY DEF Ordered
    <2>2. UpTo(S, a, x) \in SUBSET UpTo(S, a, y)
      BY <2>1, UpToIs
    <2>3. QED
      BY <1>1, <2>2, FS_Subset DEF Rank
  <1>4. \A x, y \in S : a[x] < a[y] => Rank(S, a, x) < Rank(S, a, y)
    <2> SUFFICES ASSUME NEW x \in S, NEW y \in S, a[x] < a[y]
                 PROVE  Rank(S, a, x) < Rank(S, a, y)
      OBVIOUS
    <2>1. \A z \in S : a[z] \in Nat
      BY DEF Ordered
    <2>2. UpTo(S, a, x) \in SUBSET UpTo(S, a, y)
      BY <2>1, UpToIs
    <2>3. y \in UpTo(S, a, y) /\ y \notin UpTo(S, a, x)
      BY <2>1, UpToIs
    <2>4. Cardinality(UpTo(S, a, x)) # Cardinality(UpTo(S, a, y))
      BY <1>1, <2>2, <2>3, FS_Subset
    <2>5. QED
      BY <1>1, <1>3, <2>1, <2>4 DEF Rank
  <1>5. a[s] \in Nat /\ a[r] \in Nat /\ (a[s] = a[r] => s = r)
    BY DEF Ordered
  <1>6. QED
    BY <1>1, <1>2, <1>3, <1>4, <1>5

\* Every place is taken by exactly one slot.
LEMMA RankTaken ==
    ASSUME NEW S, NEW a, Ordered(S, a)
    PROVE  /\ \A i \in 1 .. Cardinality(S) : Nth(S, a, i) \in S /\ Rank(S, a, Nth(S, a, i)) = i
           /\ \A s \in S : Nth(S, a, Rank(S, a, s)) = s
  <1> DEFINE n == Cardinality(S)
             f == [s \in S |-> Rank(S, a, s)]
  <1>1. n \in Nat /\ IsFiniteSet(S) /\ IsFiniteSet(1 .. n) /\ Cardinality(1 .. n) = n
    BY FS_CardinalityType, FS_Interval DEF Ordered
  <1>2. f \in Injection(S, 1 .. n)
    BY RankOrder DEF Injection, IsInjective
  <1>3. f \in Surjection(S, 1 .. n)
    BY <1>1, <1>2, FS_Injection
  <1>4. \A i \in 1 .. n : \E s \in S : Rank(S, a, s) = i
    BY <1>3 DEF Surjection
  <1>5. ASSUME NEW i \in 1 .. n
        PROVE  Nth(S, a, i) \in S /\ Rank(S, a, Nth(S, a, i)) = i
    <2>1. \E s \in S : Rank(S, a, s) = i
      BY <1>4
    <2>2. QED
      BY <2>1, Zenon DEF Nth, Rank
  <1>6. ASSUME NEW s \in S PROVE Nth(S, a, Rank(S, a, s)) = s
    <2>1. Rank(S, a, s) \in 1 .. n
      BY RankOrder
    <2>2. Nth(S, a, Rank(S, a, s)) \in S /\ Rank(S, a, Nth(S, a, Rank(S, a, s))) = Rank(S, a, s)
      BY <1>5, <2>1
    <2>3. QED
      BY <2>2, RankOrder
  <1>7. QED
    BY <1>5, <1>6

\* A slot that is younger than all others comes last.
LEMMA RankAdded ==
    ASSUME NEW S, NEW a, NEW b, NEW x, Ordered(S, a), Youngest(S, a, b, x)
    PROVE  /\ Ordered(S \cup {x}, b)
           /\ Cardinality(S \cup {x}) = Cardinality(S) + 1
           /\ \A i \in 1 .. Cardinality(S) : Nth(S \cup {x}, b, i) = Nth(S, a, i)
           /\ Nth(S \cup {x}, b, Cardinality(S) + 1) = x
  <1> DEFINE T == S \cup {x}
  <1> USE DEF Youngest
  <1>1. /\ IsFiniteSet(S) /\ IsFiniteSet(T) /\ Cardinality(T) = Cardinality(S) + 1
        /\ Cardinality(S) \in Nat
    BY FS_AddElement, FS_CardinalityType DEF Ordered
  <1>2. Ordered(T, b)
    BY <1>1 DEF Ordered
  <1>3. \A s \in S : UpTo(S, a, s) = {r \in S : a[r] <= a[s]} /\ a[s] \in Nat
    <2>1. \A s \in S : a[s] \in Nat
      BY DEF Ordered
    <2>2. QED
      BY <2>1, UpToIs
  <1>4. \A s \in T : UpTo(T, b, s) = {r \in T : b[r] <= b[s]}
    BY <1>2, UpToIs
  <1>5. \A s \in S : UpTo(T, b, s) = UpTo(S, a, s)
    BY <1>3, <1>4
  <1>6. \A s \in S : Rank(T, b, s) = Rank(S, a, s)
    BY <1>5 DEF Rank
  <1>7. UpTo(T, b, x) = T
    BY <1>3, <1>4
  <1>8. Rank(T, b, x) = Cardinality(S) + 1
    BY <1>1, <1>7 DEF Rank
  <1>9. Nth(T, b, Cardinality(S) + 1) = x
    BY <1>2, <1>8, RankTaken
  <1>10. ASSUME NEW i \in 1 .. Cardinality(S)
        PROVE  Nth(T, b, i) = Nth(S, a, i)
    <2>1. Nth(S, a, i) \in S /\ Rank(S, a, Nth(S, a, i)) = i
      BY RankTaken
    <2>2. Rank(T, b, Nth(S, a, i)) = i
      BY <1>6, <2>1
    <2>3. QED
      BY <1>2, <2>1, <2>2, RankTaken
  <1>11. QED
    BY <1>1, <1>2, <1>9, <1>10

\* When a slot is taken out, those behind it move up.
LEMMA RankRemoved ==
    ASSUME NEW S, NEW a, NEW x \in S, Ordered(S, a)
    PROVE  /\ Ordered(S \ {x}, a)
           /\ Cardinality(S \ {x}) = Cardinality(S) - 1
           /\ \A i \in 1 .. Cardinality(S) - 1 :
                 Nth(S \ {x}, a, i) = Nth(S, a, IF i < Rank(S, a, x) THEN i ELSE i + 1)
  <1> DEFINE T == S \ {x}
             n == Cardinality(S)
             m == Rank(S, a, x)
  <1>1. IsFiniteSet(S) /\ IsFiniteSet(T) /\ Cardinality(T) = n - 1 /\ n \in Nat
    BY FS_RemoveElement, FS_CardinalityType DEF Ordered
  <1>2. Ordered(T, a)
    BY <1>1 DEF Ordered
  <1>3. m \in 1 .. n
    BY RankOrder
  <1>4. ASSUME NEW s \in T, Rank(S, a, s) < m
        PROVE  Rank(T, a, s) = Rank(S, a, s)
    <2>1. a[s] \in Nat /\ a[x] \in Nat /\ ~(a[x] <= a[s])
      <3>1. Rank(S, a, s) \in 1 .. n /\ ~(m <= Rank(S, a, s))
        BY <1>3, <1>4, RankOrder
      <3>2. a[s] \in Nat /\ a[x] \in Nat
        BY DEF Ordered
      <3>3. QED
        BY <3>1, <3>2, RankOrder
    <2>2. UpTo(T, a, s) = UpTo(S, a, s)
      BY <1>2, <2>1, UpToIs
    <2>3. QED
      BY <2>2 DEF Rank
  <1>5. ASSUME NEW s \in T, Rank(S, a, s) > m
        PROVE  Rank(T, a, s) = Rank(S, a, s) - 1
    <2>1. Rank(S, a, s) \in 1 .. n
      BY RankOrder
    <2>2. m <= Rank(S, a, s)
      BY <1>3, <1>5, <2>1
    <2>3. a[x] <= a[s]
      BY <2>2, RankOrder
    <2>4. x \in UpTo(S, a, s) /\ UpTo(T, a, s) = UpTo(S, a, s) \ {x} /\ UpTo(S, a, s) \in SUBSET S
      BY <1>2, <2>3, UpToIs
    <2>5. IsFiniteSet(UpTo(S, a, s))
      BY <1>1, <2>4, FS_Subset
    <2>6. Cardinality(UpTo(S, a, s) \ {x}) = Cardinality(UpTo(S, a, s)) - 1
      BY <2>4, <2>5, FS_RemoveElement
    <2>7. QED
      BY <2>4, <2>6 DEF Rank
  <1>6. ASSUME NEW i \in 1 .. n - 1
        PROVE  Nth(T, a, i) = Nth(S, a, IF i < m THEN i ELSE i + 1)
    <2> DEFINE j == IF i < m THEN i ELSE i + 1
               s == Nth(S, a, j)
    <2>1. j \in 1 .. n /\ j # m
      BY <1>1, <1>3
    <2> HIDE DEF j
    <2>2. s \in S /\ Rank(S, a, s) = j
      BY <2>1, RankTaken
    <2>3. s \in T
      BY <2>1, <2>2
    <2> HIDE DEF s
    <2>4. Rank(T, a, s) = i
      <3>1. CASE i < m
        <4>1. Rank(S, a, s) = i
          BY <2>2, <3>1 DEF j
        <4>2. QED
          BY <1>4, <2>3, <3>1, <4>1
      <3>2. CASE ~(i < m)
        <4>1. Rank(S, a, s) = i + 1 /\ i + 1 > m
          BY <1>3, <2>2, <3>2 DEF j
        <4>2. QED
          BY <1>5, <2>3, <4>1
      <3>3. QED
        BY <3>1, <3>2
    <2>5. QED
      BY <1>2, <2>3, <2>4, RankTaken DEF s, j
  <1>7. QED
    BY <1>1, <1>2, <1>6

-----------------------------------------------------------------------------
(* The queue implements PrioQueue.                                         *)
\* Thread t has a slot and has not yet entered its message ...
Adding(t) == pc[t] \in {"fill", "age"}

\* ... whose number and priority its caller has passed.  A message is copied
\* from a slot.
Named(m) == m.id \in 1 .. MaxSends /\ m.prio \in MsgPrio

SentInv ==
    \A t \in Task :
        /\ Adding(t) => t \in Senders
        /\ t \in Senders /\ pc[t] \in {"fill", "again", "block", "woken"} => Named(loc[t])
        /\ pc[t] = "copy" => loc[t].slot \in 1 .. Slots

\* A slot that is being filled is full, and one sender's only ...
SlotsInv ==
    Undisturbed =>
        \A t \in Task : Adding(t) =>
            /\ loc[t].slot \in FullSlots
            /\ pc[t] = "age" => Named(msg[loc[t].slot])
            /\ \A u \in Task : Adding(u) /\ loc[u].slot = loc[t].slot => u = t

\* ... and the messages have different ages, all of them less than mq->age.
AgesInv ==
    Undisturbed =>
        \A s \in Complete :
            /\ msg[s].age < age
            /\ \A r \in Complete : msg[r].age = msg[s].age => r = s

OrderInv == SentInv /\ SlotsInv /\ AgesInv

Body == [id : Nat, prio : Nat]

LEMMA CompleteSlots ==
    Complete \subseteq FullSlots /\ FullSlots \subseteq 1 .. Slots /\ IsFiniteSet(Complete)
  BY FullSlotsFinite, FS_Subset DEF Complete, FullSlots

\* The queue is a sequence in the order of the ages.
LEMMA QueueOrdered ==
    ASSUME TableOK, AgesInv, Undisturbed
    PROVE  /\ Ordered(Complete, Ages)
           /\ Queue \in Seq(Body) /\ Len(Queue) = Cardinality(Complete)
           /\ \A i \in 1 .. Cardinality(Complete) :
                 Queue[i] = Contents(Nth(Complete, Ages, i)) /\ Queue[i] \in Body
           /\ Cardinality(Complete) \in Nat
  <1>1. \A s \in 1 .. Slots : Ages[s] = msg[s].age /\ Ages[s] \in Nat /\ Contents(s) \in Body
    BY DEF Ages, TableOK, Contents, Body
  <1>2. Ordered(Complete, Ages)
    BY <1>1, CompleteSlots DEF Ordered, AgesInv
  <1>3. Cardinality(Complete) \in Nat
    BY CompleteSlots, FS_CardinalityType
  <1>4. \A i \in 1 .. Cardinality(Complete) : Contents(Nth(Complete, Ages, i)) \in Body
    BY <1>1, <1>2, CompleteSlots, RankTaken
  <1>5. Queue \in Seq(Body) /\ Len(Queue) = Cardinality(Complete)
    BY <1>3, <1>4 DEF Queue
  <1>6. QED
    BY <1>2, <1>3, <1>4, <1>5 DEF Queue

-----------------------------------------------------------------------------
\* What is delivered of slot s of table M.
BodyOf(M, s) == [id |-> M[s].id, prio |-> M[s].prio]

LEMMA SameHeld ==
    ASSUME \A t \in Task :
              /\ pc'[t] = "copy" <=> pc[t] = "copy"
              /\ pc[t] = "copy" => BodyOf(msg', loc'[t].slot) = BodyOf(msg, loc[t].slot)
    PROVE  Held' = Held
  <1> DEFINE H(p, l, M, t) == IF p[t] = "copy" THEN <<BodyOf(M, l[t].slot)>> ELSE <<>>
  <1>1. Held = [t \in Task |-> H(pc, loc, msg, t)] /\ Held' = [t \in Task |-> H(pc', loc', msg', t)]
    BY DEF Held, Contents, BodyOf
  <1>2. \A t \in Task : H(pc', loc', msg', t) = H(pc, loc, msg, t)
    OBVIOUS
  <1>3. QED
    BY <1>1, <1>2

\* A step that leaves the complete messages as they are, and those that are
\* being copied.
LEMMA SameQueue ==
    ASSUME TableOK, AgesInv, TableOK', Undisturbed, Complete' = Complete,
           \A s \in Complete : BodyOf(msg', s) = BodyOf(msg, s), Ages' = Ages
    PROVE  Queue' = Queue
  <1>1. \A i \in 1 .. Cardinality(Complete) : Nth(Complete, Ages, i) \in Complete
    BY QueueOrdered, RankTaken
  <1> DEFINE N(i) == Nth(Complete, Ages, i)
             D    == 1 .. Cardinality(Complete)
  <1>2. /\ Queue = [i \in D |-> BodyOf(msg, N(i))]
        /\ Queue' = [i \in D |-> BodyOf(msg', N(i))]
    BY DEF Queue, Contents, BodyOf
  <1>3. \A i \in D : BodyOf(msg', N(i)) = BodyOf(msg, N(i))
    BY <1>1
  <1> HIDE DEF N, D
  <1>4. QED
    BY <1>2, <1>3

\* Thread c alone moves.
Moves(c) == \A t \in Task \ {c} : pc'[t] = pc[t] /\ loc'[t] = loc[t]

LEMMA SentKept ==
    ASSUME SentInv, NEW c \in Task, Moves(c), Adding(c)' => c \in Senders,
           c \in Senders /\ pc'[c] \in {"fill", "again", "block", "woken"} => Named(loc'[c]),
           pc'[c] = "copy" => loc'[c].slot \in 1 .. Slots
    PROVE  SentInv'
  BY DEF SentInv, Moves, Adding, Named

\* Thread c moves outside of the code that fills and copies messages.
LEMMA QuietStep ==
    ASSUME TableOK, OrderInv, TableOK', SentInv', NEW c \in Task, Moves(c),
           pc[c] \notin {"fill", "age", "copy"}, pc'[c] \notin {"fill", "age", "copy"},
           msg' = msg, age' = age, spoilt \subseteq spoilt'
    PROVE  OrderInv' /\ QueueStep
  <1>1. \A t \in Task : /\ Adding(t)' <=> Adding(t)
                        /\ Adding(t) => pc'[t] = pc[t] /\ loc'[t] = loc[t]
                        /\ pc'[t] = "copy" <=> pc[t] = "copy"
                        /\ pc[t] = "copy" => loc'[t] = loc[t]
    BY DEF Moves, Adding
  <1>2. FullSlots' = FullSlots /\ Ages' = Ages
    BY DEF FullSlots, Ages
  <1>3. Complete' = Complete
    BY <1>1, <1>2 DEF Complete, Adding
  <1>4. Undisturbed' => Undisturbed
    BY DEF Undisturbed
  <1>5. SlotsInv'
    BY <1>1, <1>2, <1>4 DEF OrderInv, SlotsInv, Named
  <1>6. AgesInv'
    BY <1>3, <1>4 DEF OrderInv, AgesInv
  <1>7. Undisturbed' => Queue' = Queue
    BY <1>2, <1>3, <1>4, SameQueue DEF OrderInv
  <1>8. Held' = Held
    BY <1>1, SameHeld
  <1>9. QED
    BY <1>5, <1>6, <1>7, <1>8 DEF OrderInv, QueueStep, Q!vars

\* A step of nobody's.
LEMMA StillStep ==
    ASSUME OrderInv, UNCHANGED <<pc, loc, msg, age, spoilt>>
    PROVE  OrderInv' /\ QueueStep
  <1>1. FullSlots' = FullSlots /\ \A t \in Task : Adding(t)' <=> Adding(t)
    BY DEF FullSlots, Adding
  <1>2. Complete' = Complete
    BY <1>1 DEF Complete
  <1>3. SentInv' /\ SlotsInv' /\ AgesInv'
    BY <1>1, <1>2 DEF OrderInv, SentInv, SlotsInv, AgesInv, Named, Undisturbed
  <1>4. Queue' = Queue /\ Held' = Held
    BY <1>2 DEF Queue, Held, Contents, Ages
  <1>5. QED
    BY <1>3, <1>4 DEF OrderInv, QueueStep, Q!vars

-----------------------------------------------------------------------------
\* A call that goes to sleep or returns.
LEMMA NothingStep ==
    ASSUME CallsOK, TableOK, OrderInv, TableOK', NEW c \in Task, NEW call \in Call,
           c \in Senders => Named(call), pc[c] \in {"run", "again"},
           GetsNothing(c, call) \/ Done(c), msg' = msg, age' = age, spoilt \subseteq spoilt'
    PROVE  OrderInv' /\ QueueStep
  <1>1. /\ Moves(c)
        /\ pc'[c] \in {"run", "block"} /\ (pc'[c] = "block" => loc'[c] = call)
    BY DEF GetsNothing, Done, Enter, Goto, Moves, CallsOK
  <1>2. SentInv'
    BY <1>1, SentKept DEF OrderInv, Adding, Named
  <1>3. QED
    BY <1>1, <1>2, QuietStep

\* priv_send(): the slot that is taken is not seen before it is filled.
LEMMA ReserveStep ==
    ASSUME CallsOK, TableOK, OrderInv, TableOK', NEW c \in Task, NEW call \in Call, c \in Senders,
           Named(call), pc[c] \in {"run", "again"}, Reserve(c, call)
    PROVE  OrderInv' /\ QueueStep
  <1> DEFINE s == Min(FreeSlots)
  <1>1. CASE ~HasRoom
    BY <1>1, NothingStep DEF Reserve
  <1>2. CASE HasRoom /\ call.len = 0
    <2>1. s \in 1 .. Slots /\ msg[s].size = 0
      BY <1>2, FirstFree DEF HasRoom, FreeSlots
    <2>2. msg' = [msg EXCEPT ![s].size = 0]
      BY <1>2 DEF Reserve
    <2>3. msg[s] \in [size : Nat, id : Nat, prio : Nat, age : Nat]
      BY <2>1 DEF TableOK
    <2> HIDE DEF s
    <2>4. [msg[s] EXCEPT !.size = 0] = msg[s]
      BY <2>1, <2>3
    <2>5. msg' = msg
      BY <2>1, <2>2, <2>4 DEF TableOK
    <2>6. GetsNothing(c, call) /\ age' = age /\ spoilt \subseteq spoilt'
      BY <1>2 DEF Reserve
    <2>7. QED
      BY <2>5, <2>6, NothingStep
  <1>3. CASE HasRoom /\ call.len # 0
    <2>1. s \in 1 .. Slots /\ s \notin FullSlots
      BY <1>3, FirstFree DEF HasRoom, FreeSlots, FullSlots
    <2>2. call.len \in Nat /\ call.len > 0
      BY <1>3 DEF Call
    <2>3. /\ msg' = [msg EXCEPT ![s].size = call.len] /\ age' = age /\ spoilt \subseteq spoilt'
          /\ Enter(c, "fill", [call EXCEPT !.slot = s])
      BY <1>3, <2>2 DEF Reserve
    <2> HIDE DEF s
    <2>4. /\ pc'[c] = "fill" /\ loc'[c] = [call EXCEPT !.slot = s] /\ loc'[c].slot = s
          /\ loc'[c].id = call.id /\ loc'[c].prio = call.prio /\ Moves(c)
      BY <2>3 DEF Enter, Goto, Moves, CallsOK, Call
    <2>5. SentInv'
      BY <2>4, SentKept DEF OrderInv, Adding, Named
    <2>6. /\ FullSlots' = FullSlots \cup {s} /\ Ages' = Ages
          /\ \A r \in 1 .. Slots : BodyOf(msg', r) = BodyOf(msg, r) /\ msg'[r].age = msg[r].age
      <3>1. /\ msg \in [1 .. Slots -> [size : Nat, id : Nat, prio : Nat, age : Nat]]
            /\ msg' = [msg EXCEPT ![s].size = call.len]
        BY <2>3 DEF TableOK
      <3>2. \A r \in 1 .. Slots : /\ msg'[r].size = IF r = s THEN call.len ELSE msg[r].size
                                  /\ msg'[r].id = msg[r].id /\ msg'[r].prio = msg[r].prio
                                  /\ msg'[r].age = msg[r].age
        BY <2>1, <3>1
      <3>3. FullSlots' = FullSlots \cup {s}
        BY <2>1, <2>2, <3>2 DEF FullSlots
      <3>4. Ages' = Ages
        BY <2>3, <3>2 DEF Ages
      <3>5. \A r \in 1 .. Slots : BodyOf(msg', r) = BodyOf(msg, r)
        BY <3>2 DEF BodyOf
      <3>6. QED
        BY <3>2, <3>3, <3>4, <3>5
    <2>7. Undisturbed' => Undisturbed
      BY <2>3 DEF Undisturbed
    <2>8. \A t \in Task \ {c} : /\ Adding(t)' <=> Adding(t)
                                /\ loc'[t] = loc[t] /\ pc'[t] = pc[t]
      BY <2>4 DEF Moves, Adding
    <2>9. Adding(c)' /\ ~Adding(c) /\ pc[c] # "copy"
      BY <2>4 DEF Adding
    <2>10. Complete' = Complete
      <3> DEFINE Open(r)  == \E t \in Task : Adding(t) /\ loc[t].slot = r
                 Open2(r) == \E t \in Task : Adding(t)' /\ loc'[t].slot = r
      <3>1. /\ Complete = {r \in FullSlots : ~Open(r)}
            /\ Complete' = {r \in FullSlots' : ~Open2(r)}
        BY DEF Complete, Adding
      <3>2. Open2(s)
        BY <2>4, <2>9
      <3>3. ASSUME NEW r, r # s PROVE Open2(r) <=> Open(r)
        <4>1. \A t \in Task : (Adding(t)' /\ loc'[t].slot = r) <=> (Adding(t) /\ loc[t].slot = r)
          <5>1. ~(Adding(c)' /\ loc'[c].slot = r) /\ ~(Adding(c) /\ loc[c].slot = r)
            BY <2>4, <2>9, <3>3
          <5>2. QED
            BY <2>8, <5>1
        <4>2. QED
          BY <4>1
      <3> HIDE DEF Open, Open2
      <3>4. QED
        BY <2>1, <2>6, <3>1, <3>2, <3>3
    <2>11. SlotsInv'
      <3> SUFFICES ASSUME Undisturbed', NEW t \in Task, Adding(t)'
                   PROVE  /\ loc'[t].slot \in FullSlots'
                          /\ pc'[t] = "age" => Named(msg'[loc'[t].slot])
                          /\ \A u \in Task : Adding(u)' /\ loc'[u].slot = loc'[t].slot => u = t
        BY DEF SlotsInv, Named
      <3>1. \A u \in Task \ {c} : Adding(u) =>
               /\ loc[u].slot \in FullSlots /\ loc[u].slot # s
               /\ pc[u] = "age" => Named(msg[loc[u].slot])
               /\ \A v \in Task : Adding(v) /\ loc[v].slot = loc[u].slot => v = u
        <4>1. SlotsInv /\ Undisturbed
          BY <2>7 DEF OrderInv
        <4>2. QED
          BY <2>1, <4>1 DEF SlotsInv
      <3>2. CASE t = c
        <4>1. loc'[t].slot = s /\ s \in FullSlots' /\ pc'[t] # "age"
          BY <2>4, <2>6, <3>2
        <4>2. \A u \in Task \ {c} : ~(Adding(u)' /\ loc'[u].slot = s)
          BY <2>8, <3>1
        <4>3. QED
          BY <3>2, <4>1, <4>2
      <3>3. CASE t # c
        <4>1. loc[t].slot \in FullSlots /\ loc[t].slot # s /\ loc'[t] = loc[t] /\ Adding(t)
          BY <2>8, <3>1, <3>3
        <4>2. BodyOf(msg', loc[t].slot) = BodyOf(msg, loc[t].slot)
          BY <2>6, <4>1, CompleteSlots
        <4>3. pc'[t] = "age" => Named(msg'[loc'[t].slot])
          BY <2>8, <3>1, <3>3, <4>1, <4>2 DEF BodyOf, Named
        <4>4. loc'[t].slot \in FullSlots' /\ ~(Adding(c)' /\ loc'[c].slot = loc'[t].slot)
          BY <2>4, <2>6, <4>1
        <4>5. \A u \in Task \ {c} : Adding(u)' /\ loc'[u].slot = loc'[t].slot => u = t
          BY <2>8, <3>1, <3>3, <4>1
        <4>6. QED
          BY <4>3, <4>4, <4>5
      <3>4. QED
        BY <3>2, <3>3
    <2>12. AgesInv'
      BY <2>3, <2>6, <2>7, <2>10, CompleteSlots DEF OrderInv, AgesInv
    <2>13. Undisturbed' => Queue' = Queue
      BY <2>6, <2>7, <2>10, CompleteSlots, SameQueue DEF OrderInv
    <2>14. \A t \in Task : pc[t] = "copy" => loc[t].slot \in 1 .. Slots
      BY DEF OrderInv, SentInv
    <2>15. Held' = Held
      BY <2>4, <2>6, <2>8, <2>9, <2>14, SameHeld
    <2>16. QED
      BY <2>5, <2>11, <2>12, <2>13, <2>15 DEF OrderInv, QueueStep, Q!vars
  <1>4. QED
    BY <1>1, <1>2, <1>3

-----------------------------------------------------------------------------
LEMMA RemovedSeq ==
    ASSUME NEW B, NEW q \in Seq(B), NEW p \in Seq(B), NEW i \in 1 .. Len(q),
           Len(p) = Len(q) - 1,
           \A j \in 1 .. Len(q) - 1 : p[j] = q[IF j < i THEN j ELSE j + 1]
    PROVE  p = RemoveAt(q, i)
  <1> DEFINE n == Len(q)
             u == SubSeq(q, 1, i - 1)
             v == SubSeq(q, i + 1, n)
  <1>1. n \in Nat /\ \A j \in 1 .. n : q[j] \in B
    OBVIOUS
  <1>2. /\ u \in Seq(B) /\ Len(u) = i - 1
        /\ \A j \in 1 .. i - 1 : u[j] = q[j]
    <2>1. \A j \in 1 .. i - 1 : q[j] \in B
      BY <1>1
    <2>2. QED
      BY <1>1, <2>1, SubSeqProperties
  <1>3. /\ v \in Seq(B) /\ Len(v) = n - i
        /\ \A j \in 1 .. n - i : v[j] = q[j + i]
    <2>1. \A j \in i + 1 .. n : q[j] \in B
      BY <1>1
    <2>2. QED
      BY <1>1, <2>1, SubSeqProperties
  <1> HIDE DEF u, v
  <1>4. /\ u \o v \in Seq(B) /\ Len(u \o v) = Len(u) + Len(v)
        /\ \A j \in 1 .. Len(u) + Len(v) :
              (u \o v)[j] = IF j <= Len(u) THEN u[j] ELSE v[j - Len(u)]
    BY <1>2, <1>3, ConcatProperties
  <1>5. Len(u \o v) = n - 1 /\ \A j \in 1 .. n - 1 : (u \o v)[j] = p[j]
    <2>1. Len(u) + Len(v) = n - 1
      BY <1>1, <1>2, <1>3
    <2>2. ASSUME NEW j \in 1 .. n - 1 PROVE (u \o v)[j] = p[j]
      <3>1. (u \o v)[j] = IF j <= i - 1 THEN u[j] ELSE v[j - (i - 1)]
        BY <1>2, <1>4, <2>1
      <3>2. p[j] = q[IF j < i THEN j ELSE j + 1]
        OBVIOUS
      <3>3. CASE j < i
        <4>1. j \in 1 .. i - 1
          BY <3>3
        <4>2. QED
          BY <1>2, <3>1, <3>2, <3>3, <4>1
      <3>4. CASE ~(j < i)
        <4>1. j - (i - 1) \in 1 .. n - i /\ (j - (i - 1)) + i = j + 1
          BY <1>1, <3>4
        <4>2. v[j - (i - 1)] = q[j + 1]
          BY <1>3, <4>1
        <4>3. QED
          BY <3>1, <3>2, <3>4, <4>2
      <3>5. QED
        BY <3>3, <3>4
    <2>3. QED
      BY <1>4, <2>1, <2>2
  <1>6. p = u \o v
    BY <1>4, <1>5, SeqEqual
  <1>7. QED
    BY <1>6 DEF RemoveAt, u, v

\* A full slot that nobody is filling is emptied: its message leaves the queue.
LEMMA QueueTaken ==
    ASSUME TableOK, AgesInv, Undisturbed, NEW s \in Complete,
           Complete' = Complete \ {s}, Ages' = Ages, \A r \in 1 .. Slots : BodyOf(msg', r) = BodyOf(msg, r)
    PROVE  LET i == Rank(Complete, Ages, s)
           IN  /\ i \in 1 .. Len(Queue) /\ Queue[i] = BodyOf(msg, s)
               /\ Queue' = RemoveAt(Queue, i)
  <1> DEFINE i == Rank(Complete, Ages, s)
             n == Cardinality(Complete)
  <1>1. /\ Ordered(Complete, Ages) /\ Queue \in Seq(Body) /\ Len(Queue) = n /\ n \in Nat
        /\ \A j \in 1 .. n : /\ Queue[j] = BodyOf(msg, Nth(Complete, Ages, j))
                              /\ Queue[j] \in Body
    BY QueueOrdered DEF Contents, BodyOf
  <1>2. i \in 1 .. n /\ Nth(Complete, Ages, i) = s
    BY <1>1, RankOrder, RankTaken
  <1>3. /\ Ordered(Complete \ {s}, Ages) /\ Cardinality(Complete \ {s}) = n - 1
        /\ \A j \in 1 .. n - 1 :
              Nth(Complete \ {s}, Ages, j) = Nth(Complete, Ages, IF j < i THEN j ELSE j + 1)
    BY <1>1, RankRemoved
  <1> HIDE DEF i
  <1>4. Queue' = [j \in 1 .. n - 1 |-> BodyOf(msg', Nth(Complete \ {s}, Ages, j))]
    BY <1>3 DEF Queue, Contents, BodyOf
  <1> HIDE DEF n
  <1>5. ASSUME NEW j \in 1 .. n - 1
        PROVE  Queue'[j] = Queue[IF j < i THEN j ELSE j + 1] /\ Queue'[j] \in Body
    <2> DEFINE h == IF j < i THEN j ELSE j + 1
    <2>1. h \in 1 .. n
      BY <1>1, <1>2
    <2>2. Queue'[j] = BodyOf(msg, Nth(Complete \ {s}, Ages, j))
      <3>1. Nth(Complete \ {s}, Ages, j) \in Complete
        BY <1>3, RankTaken
      <3>2. QED
        BY <1>4, <3>1, CompleteSlots
    <2>3. Queue'[j] = BodyOf(msg, Nth(Complete, Ages, h))
      BY <1>3, <2>2
    <2> HIDE DEF h
    <2>4. Queue'[j] = Queue[h] /\ Queue[h] \in Body
      BY <1>1, <2>1, <2>3
    <2>5. QED
      BY <2>4 DEF h
  <1>6. Queue' = RemoveAt(Queue, i)
    <2>1. Queue' \in Seq(Body) /\ Len(Queue') = n - 1
      <3>1. DOMAIN Queue' = 1 .. n - 1 /\ Queue' \in [1 .. n - 1 -> Body]
        BY <1>4, <1>5
      <3>2. n - 1 \in Nat
        BY <1>1, <1>2
      <3>3. QED
        BY <3>1, <3>2
    <2>2. QED
      BY <1>1, <1>2, <1>5, <2>1, RemovedSeq
  <1>7. QED
    BY <1>1, <1>2, <1>6 DEF i, n

-----------------------------------------------------------------------------
\* When calls have met in a slot nothing is promised any more.
LEMMA DisturbedStep ==
    ASSUME SentInv', ~Undisturbed'
    PROVE  OrderInv' /\ QueueStep
  BY DEF OrderInv, SlotsInv, AgesInv, QueueStep

\* A message leaves the queue for a thread.
LEMMA TakenIsTake ==
    ASSUME TableOK, AgesInv, Undisturbed, NEW c \in Task, NEW s \in Complete,
           \A r \in Complete : \/ msg[s].prio > msg[r].prio
                               \/ msg[s].prio = msg[r].prio /\ msg[s].age <= msg[r].age,
           Complete' = Complete \ {s}, Ages' = Ages, \A r \in 1 .. Slots : BodyOf(msg', r) = BodyOf(msg, r),
           Held[c] = <<>>, Held' = [Held EXCEPT ![c] = <<BodyOf(msg, s)>>]
    PROVE  Q!Take(c)
  <1> DEFINE i == Rank(Complete, Ages, s)
             n == Cardinality(Complete)
  <1>1. /\ i \in 1 .. Len(Queue) /\ Queue[i] = BodyOf(msg, s)
        /\ Queue' = RemoveAt(Queue, i)
    BY QueueTaken
  <1>2. /\ Ordered(Complete, Ages) /\ Queue \in Seq(Body) /\ Len(Queue) = n
        /\ \A j \in 1 .. n : Queue[j] = BodyOf(msg, Nth(Complete, Ages, j))
    BY QueueOrdered DEF Contents, BodyOf
  <1>3. ASSUME NEW j \in 1 .. n
        PROVE  \/ Queue[i].prio > Queue[j].prio
               \/ Queue[i].prio = Queue[j].prio /\ i <= j
    <2> DEFINE r == Nth(Complete, Ages, j)
    <2>1. r \in Complete /\ Rank(Complete, Ages, r) = j
      BY <1>2, RankTaken
    <2>2. Queue[j].prio = msg[r].prio /\ Queue[i].prio = msg[s].prio
      BY <1>1, <1>2 DEF BodyOf
    <2> HIDE DEF r
    <2>3. Ages[r] = msg[r].age /\ Ages[s] = msg[s].age
      BY <2>1, CompleteSlots DEF Ages
    <2>4. msg[s].age <= msg[r].age => i <= j
      BY <1>2, <2>1, <2>3, RankOrder
    <2>5. QED
      BY <2>1, <2>2, <2>4
  <1>4. DOMAIN Queue = 1 .. n
    BY <1>2
  <1> HIDE DEF i, n
  <1>5. Q!IsNext(i)
    BY <1>3, <1>4 DEF Q!IsNext
  <1>6. Q!RemoveAt(Queue, i) = RemoveAt(Queue, i)
    BY DEF Q!RemoveAt, RemoveAt
  <1>7. Queue' = Q!RemoveAt(Queue, i) /\ i \in DOMAIN Queue
    BY <1>1, <1>2, <1>4, <1>6
  <1>8. Held' = [Held EXCEPT ![c] = <<Queue[i]>>]
    BY <1>1
  <1>9. QED
    BY <1>5, <1>7, <1>8, Zenon DEF Q!Take

\* priv_receive()
LEMMA TakeMessageStep ==
    ASSUME CallsOK, TableOK, OrderInv, TableOK', NEW c \in Task, NEW call \in Call, c \notin Senders,
           pc[c] \in {"run", "again"}, TakeMessage(c, call)
    PROVE  OrderInv' /\ QueueStep
  <1> DEFINE s     == Oldest(FullSlots)
             error == FullSlots = {} \/ call.len < msg[s].size
  <1>1. CASE cur = 0 \/ error
    <2>1. /\ GetsNothing(c, call) \/ Done(c)
          /\ msg' = msg /\ age' = age /\ spoilt \subseteq spoilt'
      BY <1>1 DEF TakeMessage
    <2>2. QED
      BY <2>1, NothingStep
  <1>2. CASE ~(cur = 0 \/ error)
    <2>1. /\ s \in FullSlots
          /\ \A r \in FullSlots : \/ msg[s].prio > msg[r].prio
                                  \/ msg[s].prio = msg[r].prio /\ msg[s].age <= msg[r].age
      BY <1>2, OldestIsThere
    <2>2. /\ msg' = [msg EXCEPT ![s].size = 0] /\ age' = age
          /\ spoilt' = spoilt \cup Spoil("torn", \E r \in FullSlots : Filling(r, c))
          /\ Enter(c, "copy", [call EXCEPT !.slot = s])
      BY <1>2 DEF TakeMessage, Emptied
    <2> HIDE DEF s
    <2>3. pc' = [pc EXCEPT ![c] = "copy"] /\ loc' = [loc EXCEPT ![c] = [call EXCEPT !.slot = s]]
      BY <2>2 DEF Enter, Goto
    <2>4. pc'[c] = "copy" /\ loc'[c].slot = s /\ Moves(c)
      BY <2>3 DEF Moves, CallsOK, Call
    <2>5. SentInv' /\ s \in 1 .. Slots
      <3>1. s \in 1 .. Slots
        BY <2>1, CompleteSlots
      <3>2. QED
        BY <2>4, <3>1, SentKept DEF OrderInv, Adding
    <2>6. CASE ~Undisturbed'
      BY <2>5, <2>6, DisturbedStep
    <2>7. CASE Undisturbed'
      <3>1. Undisturbed /\ ~ \E r \in FullSlots : Filling(r, c)
        BY <2>2, <2>7 DEF Undisturbed, Spoil
      <3>2. \A t \in Task : ~Adding(t)
        BY <3>1 DEF OrderInv, SlotsInv, Adding, Filling
      <3>3. \A t \in Task : ~Adding(t)'
        BY <2>4, <3>2 DEF Moves, Adding
      <3>4. Complete = FullSlots /\ Complete' = FullSlots'
        BY <3>2, <3>3 DEF Complete, Adding
      <3>5. /\ FullSlots' = FullSlots \ {s} /\ Ages' = Ages
            /\ \A r \in 1 .. Slots : BodyOf(msg', r) = BodyOf(msg, r)
            /\ \A r \in 1 .. Slots : msg'[r].age = msg[r].age
        BY <2>1, <2>2, <2>5 DEF FullSlots, TableOK, Ages, BodyOf
      <3>6. Held[c] = <<>> /\ Held' = [Held EXCEPT ![c] = <<BodyOf(msg, s)>>]
        <4> DEFINE H(p, l, M, t) == IF p[t] = "copy" THEN <<BodyOf(M, l[t].slot)>> ELSE <<>>
        <4>1. Held = [t \in Task |-> H(pc, loc, msg, t)] /\ Held' = [t \in Task |-> H(pc', loc', msg', t)]
          BY DEF Held, Contents, BodyOf
        <4>2. H(pc, loc, msg, c) = <<>> /\ H(pc', loc', msg', c) = <<BodyOf(msg, s)>>
          BY <2>4, <2>5, <3>5
        <4>3. \A t \in Task \ {c} : H(pc', loc', msg', t) = H(pc, loc, msg, t)
          BY <2>4, <3>5 DEF Moves, OrderInv, SentInv
        <4> HIDE DEF H
        <4>4. QED
          BY <4>1, <4>2, <4>3
      <3>7. Q!Take(c)
        BY <2>1, <3>1, <3>4, <3>5, <3>6, TakenIsTake DEF OrderInv
      <3>8. SlotsInv'
        BY <3>3 DEF SlotsInv
      <3>9. AgesInv'
        BY <2>2, <3>1, <3>4, <3>5, CompleteSlots DEF OrderInv, AgesInv
      <3>10. QED
        BY <2>5, <3>7, <3>8, <3>9 DEF OrderInv, QueueStep, Q!Next
    <2>8. QED
      BY <2>6, <2>7
  <1>3. QED
    BY <1>1, <1>2

\* A message that was taken is delivered.
LEMMA CopyStep ==
    ASSUME CallsOK, TableOK, OrderInv, TableOK', NEW c \in Task, CopyMessage(c)
    PROVE  OrderInv' /\ QueueStep
  <1>1. /\ pc[c] = "copy" /\ pc' = [pc EXCEPT ![c] = "check"]
        /\ UNCHANGED <<loc, msg, age, spoilt>>
    BY DEF CopyMessage, At, Goto
  <1>2. pc'[c] = "check" /\ Moves(c)
    BY <1>1 DEF Moves, CallsOK
  <1>3. SentInv'
    BY <1>2, SentKept DEF OrderInv, Adding
  <1>4. \A t \in Task : (Adding(t)' <=> Adding(t)) /\ (Adding(t) => pc'[t] = pc[t])
    BY <1>1, <1>2 DEF Adding, Moves
  <1>5. FullSlots' = FullSlots /\ Complete' = Complete /\ Ages' = Ages
    <2>1. FullSlots' = FullSlots /\ Ages' = Ages
      BY <1>1 DEF FullSlots, Ages
    <2>2. QED
      BY <1>1, <1>4, <2>1 DEF Complete, Adding
  <1>6. SlotsInv' /\ AgesInv'
    BY <1>1, <1>4, <1>5 DEF OrderInv, SlotsInv, AgesInv, Undisturbed, Named
  <1>7. Queue' = Queue
    BY <1>1, <1>5 DEF Queue, Contents
  <1>8. Held[c] # <<>> /\ Held' = [Held EXCEPT ![c] = <<>>]
    <2> DEFINE H(p, t) == IF p[t] = "copy" THEN <<BodyOf(msg, loc[t].slot)>> ELSE <<>>
    <2>1. Held = [t \in Task |-> H(pc, t)] /\ Held' = [t \in Task |-> H(pc', t)]
      BY <1>1 DEF Held, Contents, BodyOf
    <2>2. H(pc, c) # <<>> /\ H(pc', c) = <<>>
      BY <1>1, <1>2
    <2>3. \A t \in Task \ {c} : H(pc', t) = H(pc, t)
      BY <1>2 DEF Moves
    <2> HIDE DEF H
    <2>4. QED
      BY <2>1, <2>2, <2>3
  <1>9. Q!Deliver(c)
    BY <1>7, <1>8 DEF Q!Deliver
  <1>10. QED
    BY <1>3, <1>6, <1>9 DEF OrderInv, QueueStep, Q!Next

-----------------------------------------------------------------------------
\* The message is copied into its slot, which is not seen yet.
LEMMA FillStep ==
    ASSUME CallsOK, TableOK, OrderInv, TableOK', NEW c \in Task, Fill(c)
    PROVE  OrderInv' /\ QueueStep
  <1> DEFINE s == loc[c].slot
  <1>1. /\ pc[c] = "fill" /\ pc' = [pc EXCEPT ![c] = "age"] /\ age' = age
        /\ loc' = [loc EXCEPT ![c].reg = age]
        /\ msg' = [msg EXCEPT ![s].id = loc[c].id, ![s].prio = loc[c].prio]
        /\ spoilt' = spoilt \cup Spoil("torn", Copying(s, c))
    BY DEF Fill, At, Goto
  <1>2. /\ pc'[c] = "age" /\ Moves(c) /\ c \in Senders /\ Named(loc[c])
        /\ \A t \in Task : loc'[t].slot = loc[t].slot
    BY <1>1 DEF Moves, CallsOK, Call, OrderInv, SentInv, Adding
  <1>3. SentInv'
    BY <1>2, SentKept DEF OrderInv
  <1>4. CASE ~Undisturbed'
    BY <1>3, <1>4, DisturbedStep
  <1>5. CASE Undisturbed'
    <2>1. Undisturbed /\ ~Copying(s, c)
      BY <1>1, <1>5 DEF Undisturbed, Spoil
    <2>2. \A t \in Task : Adding(t)' <=> Adding(t)
      BY <1>1, <1>2 DEF Adding, Moves
    <2>3. /\ s \in FullSlots /\ Adding(c)
          /\ \A u \in Task : Adding(u) /\ loc[u].slot = s => u = c
      BY <1>1, <2>1 DEF OrderInv, SlotsInv, Adding
    <2> HIDE DEF s
    <2>4. /\ FullSlots' = FullSlots /\ Ages' = Ages
          /\ \A r \in 1 .. Slots : r # s => BodyOf(msg', r) = BodyOf(msg, r)
          /\ \A r \in 1 .. Slots : msg'[r].age = msg[r].age
          /\ msg'[s].id = loc[c].id /\ msg'[s].prio = loc[c].prio
      <3>1. s \in 1 .. Slots /\ DOMAIN msg = 1 .. Slots
        BY <2>3, CompleteSlots DEF TableOK
      <3>2. msg[s] \in [size : Nat, id : Nat, prio : Nat, age : Nat]
        BY <3>1 DEF TableOK
      <3>3. \A r \in 1 .. Slots : r # s => msg'[r] = msg[r]
        BY <1>1, <3>1
      <3>4. /\ msg'[s].id = loc[c].id /\ msg'[s].prio = loc[c].prio
            /\ msg'[s].size = msg[s].size /\ msg'[s].age = msg[s].age
        BY <1>1, <3>1, <3>2
      <3>5. \A r \in 1 .. Slots : msg'[r].size = msg[r].size /\ msg'[r].age = msg[r].age
        BY <3>3, <3>4
      <3>6. QED
        BY <3>3, <3>4, <3>5 DEF FullSlots, Ages, BodyOf
    <2>5. Complete' = Complete /\ s \notin Complete
      <3>1. /\ Complete = {r \in FullSlots : ~ \E t \in Task : Adding(t) /\ loc[t].slot = r}
            /\ Complete' = {r \in FullSlots' : ~ \E t \in Task : Adding(t)' /\ loc'[t].slot = r}
        BY DEF Complete, Adding
      <3>2. QED
        BY <1>2, <2>2, <2>3, <2>4, <3>1 DEF s
    <2>6. SlotsInv'
      <3> SUFFICES ASSUME NEW t \in Task, Adding(t)'
                   PROVE  /\ loc'[t].slot \in FullSlots'
                          /\ pc'[t] = "age" => Named(msg'[loc'[t].slot])
                          /\ \A u \in Task : Adding(u)' /\ loc'[u].slot = loc'[t].slot => u = t
        BY DEF SlotsInv, Named
      <3>1. /\ Adding(t) /\ loc[t].slot \in FullSlots
            /\ pc[t] = "age" => Named(msg[loc[t].slot])
            /\ \A u \in Task : Adding(u) /\ loc[u].slot = loc[t].slot => u = t
        BY <2>1, <2>2 DEF OrderInv, SlotsInv
      <3>2. pc'[t] = "age" => Named(msg'[loc[t].slot])
        <4>1. CASE t = c
          BY <1>2, <2>4, <4>1 DEF Named, s
        <4>2. CASE t # c
          <5>1. loc[t].slot # s /\ pc'[t] = pc[t] /\ loc[t].slot \in 1 .. Slots
            BY <1>2, <2>3, <3>1, <4>2, CompleteSlots DEF Moves
          <5>2. BodyOf(msg', loc[t].slot) = BodyOf(msg, loc[t].slot)
            BY <2>4, <5>1
          <5>3. QED
            BY <3>1, <5>1, <5>2 DEF BodyOf, Named
        <4>3. QED
          BY <4>1, <4>2
      <3>3. QED
        BY <1>2, <2>2, <2>4, <3>1, <3>2
    <2>7. AgesInv'
      <3>1. \A r \in Complete : msg'[r].age = msg[r].age
        BY <2>4, CompleteSlots
      <3>2. age' = age
        BY <1>1
      <3>3. \A r \in Complete : /\ msg[r].age < age
                                /\ \A q \in Complete : msg[q].age = msg[r].age => q = r
        BY <2>1 DEF OrderInv, AgesInv
      <3>4. QED
        BY <2>5, <3>1, <3>2, <3>3 DEF AgesInv
    <2>8. Queue' = Queue
      <3>1. \A r \in Complete : BodyOf(msg', r) = BodyOf(msg, r)
        BY <2>4, <2>5, CompleteSlots
      <3>2. QED
        BY <2>1, <2>4, <2>5, <3>1, SameQueue DEF OrderInv
    <2>9. Held' = Held
      <3>1. \A t \in Task : pc[t] = "copy" => t # c /\ loc[t].slot # s /\ loc[t].slot \in 1 .. Slots
        BY <1>1, <2>1 DEF Copying, OrderInv, SentInv
      <3>2. \A t \in Task :
               /\ pc'[t] = "copy" <=> pc[t] = "copy"
               /\ pc[t] = "copy" => BodyOf(msg', loc'[t].slot) = BodyOf(msg, loc[t].slot)
        BY <1>1, <1>2, <2>4, <3>1 DEF Moves
      <3>3. QED
        BY <3>2, SameHeld
    <2>10. QED
      BY <1>3, <2>6, <2>7, <2>8, <2>9 DEF OrderInv, QueueStep, Q!vars
  <1>6. QED
    BY <1>4, <1>5

\* A slot whose age is the largest joins the queue at its end.
LEMMA AddedIsSend ==
    ASSUME TableOK, AgesInv, Undisturbed, NEW s \in (1 .. Slots) \ Complete, Named(msg[s]),
           Complete' = Complete \cup {s}, Ages'[s] = age, \A r \in Complete : Ages'[r] = Ages[r],
           \A r \in 1 .. Slots : BodyOf(msg', r) = BodyOf(msg, r), Held' = Held
    PROVE  \E m \in [id : 1 .. MaxSends, prio : MsgPrio] : Q!Send(m)
  <1> DEFINE n == Cardinality(Complete)
             m == BodyOf(msg, s)
  <1>1. m \in [id : 1 .. MaxSends, prio : MsgPrio] /\ m \in Body
    BY DEF BodyOf, Named, TableOK, Body
  <1>2. /\ Ordered(Complete, Ages) /\ Queue \in Seq(Body) /\ Len(Queue) = n /\ n \in Nat
        /\ \A j \in 1 .. n : /\ Queue[j] = BodyOf(msg, Nth(Complete, Ages, j))
                              /\ Queue[j] \in Body
    BY QueueOrdered DEF Contents, BodyOf
  <1>3. /\ Cardinality(Complete \cup {s}) = n + 1
        /\ \A j \in 1 .. n : Nth(Complete \cup {s}, Ages', j) = Nth(Complete, Ages, j)
        /\ Nth(Complete \cup {s}, Ages', n + 1) = s
    <2>1. \A r \in Complete : Ages'[r] = Ages[r] /\ Ages[r] < Ages'[s]
      BY CompleteSlots DEF AgesInv, Ages
    <2>2. Ages'[s] \in Nat /\ s \notin Complete
      BY DEF TableOK
    <2>3. Youngest(Complete, Ages, Ages', s)
      BY <2>1, <2>2 DEF Youngest
    <2>4. PICK b : b = Ages'
      OBVIOUS
    <2>5. Ordered(Complete, Ages) /\ Youngest(Complete, Ages, b, s)
      BY <1>2, <2>3, <2>4
    <2> HIDE DEF n
    <2>6. /\ Cardinality(Complete \cup {s}) = Cardinality(Complete) + 1
          /\ \A j \in 1 .. Cardinality(Complete) :
                Nth(Complete \cup {s}, b, j) = Nth(Complete, Ages, j)
          /\ Nth(Complete \cup {s}, b, Cardinality(Complete) + 1) = s
      BY ONLY <2>5, RankAdded, SMTT(30)
    <2>7. QED
      BY <2>4, <2>6 DEF n
  <1>4. n < Slots
    <2>1. IsFiniteSet(1 .. Slots) /\ Cardinality(1 .. Slots) = Slots /\ Slots \in Nat
      BY FS_Interval, MqueueAssumption
    <2>2. Complete \cup {s} \in SUBSET (1 .. Slots)
      BY CompleteSlots
    <2>3. QED
      BY <1>2, <1>3, <2>1, <2>2, FS_Subset
  <1>5. Queue' = [j \in 1 .. n + 1 |-> BodyOf(msg', Nth(Complete \cup {s}, Ages', j))]
    BY <1>3 DEF Queue, Contents, BodyOf
  <1> HIDE DEF n
  <1>6. /\ \A j \in 1 .. n : Queue'[j] = Queue[j]
        /\ Queue'[n + 1] = m
    <2>1. n + 1 \in 1 .. n + 1 /\ \A j \in 1 .. n : j \in 1 .. n + 1
      BY <1>2
    <2>2. \A j \in 1 .. n + 1 : Queue'[j] = BodyOf(msg', Nth(Complete \cup {s}, Ages', j))
      BY <1>5
    <2>3. \A j \in 1 .. n : Nth(Complete, Ages, j) \in 1 .. Slots
      BY <1>2, CompleteSlots, RankTaken DEF n
    <2>4. QED
      BY <1>2, <1>3, <2>1, <2>2, <2>3
  <1>7. Queue' \in Seq(Body) /\ Len(Queue') = n + 1
    <2>1. \A j \in 1 .. n + 1 : Queue'[j] \in Body
      BY <1>1, <1>2, <1>6
    <2> DEFINE F(j) == BodyOf(msg', Nth(Complete \cup {s}, Ages', j))
    <2>2. Queue' = [j \in 1 .. n + 1 |-> F(j)] /\ n + 1 \in Nat
      BY <1>2, <1>5
    <2> HIDE DEF F
    <2>3. \A j \in 1 .. n + 1 : F(j) \in Body
      BY <2>1, <2>2
    <2>4. QED
      BY <2>2, <2>3
  <1> HIDE DEF m
  <1>8. /\ Append(Queue, m) \in Seq(Body) /\ Len(Append(Queue, m)) = n + 1
        /\ \A j \in 1 .. n : Append(Queue, m)[j] = Queue[j]
        /\ Append(Queue, m)[n + 1] = m
    BY <1>1, <1>2, AppendProperties
  <1>9. \A j \in 1 .. n + 1 : Queue'[j] = Append(Queue, m)[j]
    BY <1>2, <1>6, <1>8
  <1>10. Queue' = Append(Queue, m)
    BY <1>7, <1>8, <1>9, SeqEqual
  <1>11. QED
    BY <1>1, <1>2, <1>4, <1>10 DEF Q!Send

\* The age is entered: the message is in the queue.
LEMMA FillAgeStep ==
    ASSUME CallsOK, TableOK, OrderInv, TableOK', NEW c \in Task, FillAge(c)
    PROVE  OrderInv' /\ QueueStep
  <1> DEFINE s == loc[c].slot
  <1>1. /\ pc[c] = "age" /\ pc' = [pc EXCEPT ![c] = "check"] /\ loc' = loc
        /\ msg' = [msg EXCEPT ![s].age = loc[c].reg] /\ age' = loc[c].reg + 1
        /\ spoilt' = spoilt \cup Spoil("age", age # loc[c].reg)
    BY DEF FillAge, At, Goto, NextAge
  <1>2. pc'[c] = "check" /\ Moves(c)
    BY <1>1 DEF Moves, CallsOK
  <1>3. SentInv'
    BY <1>2, SentKept DEF OrderInv, Adding
  <1>4. CASE ~Undisturbed'
    BY <1>3, <1>4, DisturbedStep
  <1>5. CASE Undisturbed'
    <2>1. Undisturbed /\ loc[c].reg = age
      BY <1>1, <1>5 DEF Undisturbed, Spoil
    <2>2. /\ ~Adding(c)' /\ Adding(c)
          /\ \A t \in Task \ {c} : (Adding(t)' <=> Adding(t)) /\ pc'[t] = pc[t]
      BY <1>1, <1>2 DEF Adding, Moves
    <2>3. /\ s \in FullSlots /\ s \in 1 .. Slots /\ Named(msg[s])
          /\ \A u \in Task : Adding(u) /\ loc[u].slot = s => u = c
      BY <1>1, <2>1, <2>2, CompleteSlots DEF OrderInv, SlotsInv
    <2> HIDE DEF s
    <2>4. /\ \A r \in 1 .. Slots : r # s => msg'[r] = msg[r]
          /\ msg'[s].age = age /\ msg'[s].size = msg[s].size
          /\ msg'[s].id = msg[s].id /\ msg'[s].prio = msg[s].prio
      <3>1. DOMAIN msg = 1 .. Slots /\ msg[s] \in [size : Nat, id : Nat, prio : Nat, age : Nat]
        BY <2>3 DEF TableOK
      <3>2. QED
        BY <1>1, <2>1, <2>3, <3>1
    <2>5. /\ FullSlots' = FullSlots
          /\ \A r \in 1 .. Slots : BodyOf(msg', r) = BodyOf(msg, r)
          /\ Ages'[s] = age /\ \A r \in 1 .. Slots : r # s => Ages'[r] = Ages[r]
      BY <2>3, <2>4 DEF FullSlots, BodyOf, Ages
    <2>6. Complete' = Complete \cup {s} /\ s \notin Complete
      <3>1. /\ Complete = {r \in FullSlots : ~ \E t \in Task : Adding(t) /\ loc[t].slot = r}
            /\ Complete' = {r \in FullSlots' : ~ \E t \in Task : Adding(t)' /\ loc'[t].slot = r}
        BY DEF Complete, Adding
      <3>2. loc[c].slot = s /\ loc' = loc
        BY <1>1 DEF s
      <3>3. QED
        BY <2>2, <2>3, <2>5, <3>1, <3>2
    <2>7. SlotsInv'
      <3> SUFFICES ASSUME NEW t \in Task, Adding(t)'
                   PROVE  /\ loc'[t].slot \in FullSlots'
                          /\ pc'[t] = "age" => Named(msg'[loc'[t].slot])
                          /\ \A u \in Task : Adding(u)' /\ loc'[u].slot = loc'[t].slot => u = t
        BY DEF SlotsInv, Named
      <3>1. t # c /\ Adding(t) /\ pc'[t] = pc[t] /\ loc' = loc
        BY <1>1, <2>2
      <3>2. /\ loc[t].slot \in FullSlots /\ loc[t].slot # s
            /\ pc[t] = "age" => Named(msg[loc[t].slot])
            /\ \A u \in Task : Adding(u) /\ loc[u].slot = loc[t].slot => u = t
        BY <2>1, <2>3, <3>1 DEF OrderInv, SlotsInv
      <3>3. msg'[loc[t].slot] = msg[loc[t].slot]
        BY <2>4, <3>2, CompleteSlots
      <3>4. QED
        BY <2>2, <2>5, <3>1, <3>2, <3>3
    <2>8. AgesInv'
      <3>1. \A r \in Complete : msg'[r].age = msg[r].age /\ msg[r].age \in Nat
        BY <2>4, <2>6, CompleteSlots DEF TableOK
      <3>2. \A r \in Complete : /\ msg[r].age < age
                                /\ \A q \in Complete : msg[q].age = msg[r].age => q = r
        BY <2>1 DEF OrderInv, AgesInv
      <3>3. age' = age + 1 /\ age \in Nat /\ msg'[s].age = age
        BY <1>1, <2>1, <2>4 DEF TableOK
      <3>4. QED
        BY <2>6, <3>1, <3>2, <3>3 DEF AgesInv
    <2>9. Held' = Held
      <3>1. \A t \in Task : pc[t] = "copy" => t # c /\ loc[t].slot \in 1 .. Slots
        BY <1>1 DEF OrderInv, SentInv
      <3>2. \A t \in Task : pc'[t] = "copy" <=> pc[t] = "copy"
        BY <1>1, <1>2, <2>2
      <3>3. QED
        BY <1>1, <2>5, <3>1, <3>2, SameHeld
    <2>10. \E m \in [id : 1 .. MaxSends, prio : MsgPrio] : Q!Send(m)
      <3>1. \A r \in Complete : Ages'[r] = Ages[r]
        BY <2>5, <2>6, CompleteSlots
      <3>2. QED
        BY <2>1, <2>3, <2>5, <2>6, <2>9, <3>1, AddedIsSend DEF OrderInv
    <2>11. QED
      BY <1>3, <2>7, <2>8, <2>10 DEF OrderInv, QueueStep, Q!Next
  <1>6. QED
    BY <1>4, <1>5

-----------------------------------------------------------------------------
\* Calls of mq_timedsend() and mq_timedreceive() that look at the queue.
LEMMA CallStep ==
    ASSUME CountInv, CountInv', OrderInv, NEW c \in Task,
           Send(c) \/ SendAgain(c) \/ Receive(c) \/ ReceiveAgain(c)
    PROVE  OrderInv' /\ QueueStep
  <1>0. CallsOK /\ TableOK /\ TableOK' /\ sends \in Nat
    BY DEF CountInv
  <1>1. CASE Send(c)
    <2>1. PICK p \in MsgPrio, n \in Lengths, time \in Times(c) :
             Reserve(c, [NoCall EXCEPT !.id = sends + 1, !.prio = p, !.len = n, !.time = time])
      BY <1>1 DEF Send
    <2> DEFINE call == [NoCall EXCEPT !.id = sends + 1, !.prio = p, !.len = n, !.time = time]
    <2>2. p \in Nat /\ n \in Nat /\ time \in TimeKind /\ sends + 1 \in Nat
      BY <1>0, CallTimes, MqueueAssumption
    <2>3. call \in Call
      BY <2>2, EmptyCall DEF Call
    <2>4. c \in Senders /\ sends < MaxSends /\ pc[c] = "run"
      BY <1>1 DEF Send, At
    <2>5. Named(call)
      BY <1>0, <2>4, MqueueAssumption DEF Named, NoCall
    <2> HIDE DEF call
    <2>6. QED
      BY <1>0, <2>1, <2>3, <2>4, <2>5, ReserveStep DEF call
  <1>2. CASE SendAgain(c)
    <2>1. c \in Senders /\ pc[c] = "again" /\ loc[c] \in Call /\ Reserve(c, loc[c])
      BY <1>0, <1>2 DEF SendAgain, At, CallsOK
    <2>2. Named(loc[c])
      BY <2>1 DEF OrderInv, SentInv
    <2>3. QED
      BY <1>0, <2>1, <2>2, ReserveStep
  <1>3. CASE Receive(c)
    <2>1. PICK n \in Lengths, time \in Times(c) :
             TakeMessage(c, [NoCall EXCEPT !.len = n, !.time = time])
      BY <1>3 DEF Receive
    <2>2. n \in Nat /\ time \in TimeKind
      BY CallTimes, MqueueAssumption
    <2>3. [NoCall EXCEPT !.len = n, !.time = time] \in Call
      BY <2>2, EmptyCall DEF Call
    <2>4. c \notin Senders /\ pc[c] = "run"
      BY <1>3 DEF Receive, At
    <2>5. QED
      BY <1>0, <2>1, <2>3, <2>4, TakeMessageStep
  <1>4. CASE ReceiveAgain(c)
    <2>1. c \notin Senders /\ pc[c] = "again" /\ loc[c] \in Call /\ TakeMessage(c, loc[c])
      BY <1>0, <1>4 DEF ReceiveAgain, At, CallsOK
    <2>2. QED
      BY <1>0, <2>1, TakeMessageStep
  <1>5. QED
    BY <1>1, <1>2, <1>3, <1>4

\* Sleeping, waking and looking for threads to wake.
LEMMA WaitStep ==
    ASSUME CountInv, CountInv', OrderInv, NEW c \in Task,
           Block(c) \/ Woken(c) \/ Check(c) \/ Wake(c)
    PROVE  OrderInv' /\ QueueStep
  <1>0. CallsOK /\ TableOK /\ TableOK'
    BY DEF CountInv
  <1>1. /\ pc[c] \in {"block", "woken", "check", "wake"}
        /\ msg' = msg /\ age' = age /\ spoilt \subseteq spoilt' /\ Moves(c)
    BY <1>0 DEF Block, Woken, Check, Wake, At, Goto, Done, Enter, Moves, CallsOK
  <1>2. /\ pc'[c] \in {"woken", "again", "check", "run", "wake"}
        /\ pc'[c] \in {"woken", "again"} => pc[c] \in {"block", "woken"} /\ loc'[c] = loc[c]
    BY <1>0 DEF Block, Woken, Check, Wake, At, Goto, Done, Enter, CallsOK
  <1>3. SentInv'
    <2>1. c \in Senders /\ pc'[c] \in {"woken", "again"} => Named(loc'[c])
      BY <1>2 DEF OrderInv, SentInv
    <2>2. QED
      BY <1>1, <1>2, <2>1, SentKept DEF OrderInv, Adding
  <1>4. QED
    BY <1>0, <1>1, <1>2, <1>3, QuietStep

LEMMA NextOrder ==
    ASSUME CountInv, CountInv', OrderInv, [Next]_vars
    PROVE  OrderInv' /\ [QueueStep]_vars
  <1>0. CallsOK /\ TableOK /\ TableOK'
    BY DEF CountInv
  <1>1. CASE SysTick \/ TimerMatch \/ \E c \in Task : Yield(c)
    <2>1. UNCHANGED <<pc, loc, msg, age, spoilt>>
      BY <1>1 DEF SysTick, TimerMatch, Yield
    <2>2. QED
      BY <2>1, StillStep
  <1>2. CASE UNCHANGED vars
    <2>1. UNCHANGED <<pc, loc, msg, age, spoilt>>
      BY <1>2 DEF vars
    <2>2. QED
      BY <2>1, StillStep
  <1>3. ASSUME NEW c \in Task, ThreadStep(c), ~Yield(c)
        PROVE  OrderInv' /\ QueueStep
    BY <1>0, <1>3, CallStep, WaitStep, CopyStep, FillStep, FillAgeStep DEF ThreadStep
  <1>4. QED
    BY <1>1, <1>2, <1>3 DEF Next, ThreadStep

LEMMA InitOrder == Init => OrderInv /\ Q!Init
  <1> SUFFICES ASSUME Init PROVE OrderInv /\ Q!Init
    OBVIOUS
  <1>1. FullSlots = {} /\ \A t \in Task : pc[t] = "run"
    BY DEF Init, FullSlots
  <1>2. Complete = {} /\ Cardinality(Complete) = 0
    BY <1>1, FS_EmptySet DEF Complete
  <1>3. OrderInv
    BY <1>1, <1>2 DEF OrderInv, SentInv, SlotsInv, AgesInv, Adding
  <1>4. Queue = <<>>
    BY <1>2 DEF Queue
  <1>5. Held = [t \in Task |-> <<>>]
    BY <1>1 DEF Held
  <1>6. QED
    BY <1>3, <1>4, <1>5 DEF Q!Init

\* For any number of threads, slots, messages and priorities: until two calls
\* meet in the slot they work on, or in mq->age, the table of mqueue.c with its
\* ages is a priority queue: a message enters it complete, the one that
\* priv_receive() takes is the oldest of the largest priority, and it reaches the
\* receiver unchanged although its slot is free before it is copied.
THEOREM QueueIsPrioQueue == Spec => IsPrioQueue
  <1>1. Init => OrderInv /\ Q!Init
    BY InitOrder
  <1>2. CountInv /\ CountInv' /\ OrderInv /\ [Next]_vars => OrderInv' /\ [QueueStep]_vars
    BY NextOrder
  <1>3. QED
    BY <1>1, <1>2, InitCount, NextCount, PTL DEF Spec, IsPrioQueue
=============================================================================
