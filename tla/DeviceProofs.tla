---------------------------- MODULE DeviceProofs ----------------------------
(***************************************************************************)
(* Proofs about the parts that do not use the task table: the microsecond  *)
(* timer and its sleepers, the blocks of the flash file system, and the    *)
(* link between a host and the device.                                     *)
(***************************************************************************)
EXTENDS Timing, Flash, Link, TLAPS, WellFoundedInduction, NaturalsInduction, FiniteSetTheorems,
        SequenceTheorems

\* The least element of a non-empty set of times exists.
LEMMA MinIsLeast ==
    ASSUME NEW S \in SUBSET Nat, S # {}
    PROVE  Min(S) \in S /\ \A y \in S : Min(S) <= y
  <1>1. \E d \in S : \A e \in S : d <= e
    <2>1. IsWellFoundedOn(OpToRel(<, Nat), Nat)
      BY NatLessThanWellFounded
    <2> DEFINE R == {ss \in Nat \X Nat : ss[1] < ss[2]}
    <2>2. OpToRel(<, Nat) = R
      BY Zenon DEF OpToRel
    <2>3. PICK d \in S : \A e \in S : ~(<<e, d>> \in OpToRel(<, Nat))
      BY <2>1, WFMin, Zenon
    <2>4. \A e \in S : ~(<<e, d>> \in R)
      BY <2>2, <2>3, Zenon
    <2>5. \A e, f \in Nat : e < f => <<e, f>> \in R
      OBVIOUS
    <2> HIDE DEF R
    <2>6. \A e \in S : ~(e < d)
      BY <2>4, <2>5
    <2>7. QED
      BY <2>6
  <1> DEFINE L == CHOOSE x \in S : \A y \in S : x =< y
  <1>2. L \in S /\ \A y \in S : L <= y
    BY <1>1, Zenon
  <1>3. QED
    BY <1>2 DEF Min

-----------------------------------------------------------------------------
(* The timer and the sleepers.                                             *)

\* Deadlines of timed waits that the timer can be programmed for.
DeadlinesAhead == \A d \in Deadlines : d > Margin

LEMMA PeriodFacts ==
    /\ Period \in Nat \ {0}
    /\ Second <= Period /\ Seconds <= Period
    /\ \A s \in Nat : s < Seconds => s * Second \in 0 .. Period
  <1>1. \A a, b \in Nat \ {0} : a * b \in Nat \ {0} /\ a <= a * b /\ b <= a * b
    OBVIOUS
  <1>2. \A s, a, b \in Nat : s <= a => s * b <= a * b /\ s * b \in Nat
    OBVIOUS
  <1>3. QED
    BY <1>1, <1>2, TimingAssumption DEF Period

\* The timer starts again after a period.
LEMMA Wrap ==
    ASSUME NEW x \in 0 .. Period - 1
    PROVE  (x + 1) % Period = IF x + 1 = Period THEN 0 ELSE x + 1
  BY PeriodFacts

\* priv_usecond_match_event() leaves the compare register at the first wake
\* time of the period that has not come.
LEMMA NextMatchAhead ==
    ASSUME TypeOK, NEW n \in Nat
    PROVE  /\ NextMatch(n) \in 0 .. NoMatch
           /\ tmr < NextMatch(n)
           /\ \A t \in asleep \ Expired(n) :
                 wake[t].sec = n /\ wake[t].usec < Period
                    => NextMatch(n) <= wake[t].usec
  <1> DEFINE U == {wake[t].usec : t \in {s \in asleep \ Expired(n) : wake[s].sec = n}}
             V == {u \in U : u < Period}
  <1>1. Period \in Nat \ {0} /\ NoMatch = Period + 1
    BY PeriodFacts DEF NoMatch
  <1>2. \A t \in asleep : wake[t].sec \in {-1} \cup Nat /\ wake[t].usec \in 0 .. Period
    BY DEF TypeOK
  <1>3. \A u \in V : u \in 0 .. Period - 1 /\ tmr < u
    <2> SUFFICES ASSUME NEW t \in asleep \ Expired(n), wake[t].sec = n, wake[t].usec < Period
                 PROVE  wake[t].usec \in 0 .. Period - 1 /\ tmr < wake[t].usec
      OBVIOUS
    <2>1. wake[t] # INVALID
      BY DEF INVALID
    <2>2. ~(wake[t].usec <= tmr)
      BY <2>1 DEF Expired
    <2>3. QED
      BY <1>1, <1>2, <2>2 DEF TypeOK
  <1>4. \A t \in asleep \ Expired(n) :
           wake[t].sec = n /\ wake[t].usec < Period => wake[t].usec \in V
    OBVIOUS
  <1>5. NextMatch(n) = IF V = {} THEN NoMatch ELSE Min(V)
    BY DEF NextMatch
  <1> HIDE DEF V
  <1>6. CASE V = {}
    BY <1>1, <1>4, <1>5, <1>6 DEF TypeOK
  <1>7. CASE V # {}
    <2>1. V \in SUBSET Nat
      BY <1>1, <1>3
    <2>2. Min(V) \in V /\ \A y \in V : Min(V) <= y
      BY <1>7, <2>1, MinIsLeast
    <2>3. QED
      BY <1>1, <1>3, <1>4, <1>5, <1>7, <2>2
  <1>8. QED
    BY <1>6, <1>7

\* The smaller of two times.
LEMMA NewMatchLeast ==
    ASSUME NEW u \in Nat, oc \in Nat
    PROVE  NewMatch(u) = IF u < oc THEN u ELSE oc
  <1>1. {oc, u} \in SUBSET Nat /\ {oc, u} # {}
    OBVIOUS
  <1>2. Min({oc, u}) \in {oc, u} /\ \A y \in {oc, u} : Min({oc, u}) <= y
    BY <1>1, MinIsLeast
  <1>3. QED
    BY <1>2 DEF NewMatch

-----------------------------------------------------------------------------
\* MatchCoversSleepers is inductive together with two facts: the compare
\* register lies ahead, too, when nobody sleeps, and every sleeper has a valid
\* wake time.
CoverInv ==
    /\ TypeOK
    /\ pending = {} => tmr < oc
    /\ \A t \in asleep : wake[t].sec \in Nat
    /\ MatchCoversSleepers

LEMMA InitCover == Init => CoverInv
  BY PeriodFacts, TimingAssumption
  DEF Init, CoverInv, TypeOK, MatchCoversSleepers, NoMatch, INVALID

LEMMA TickCover ==
    ASSUME CoverInv, Tick
    PROVE  CoverInv'
  <1>1. Period \in Nat \ {0}
    BY PeriodFacts
  <1>2. tmr' = IF tmr + 1 = Period THEN 0 ELSE tmr + 1
    BY Wrap DEF Tick, CoverInv, TypeOK
  <1>3. TypeOK'
    BY <1>1, <1>2 DEF Tick, CoverInv, TypeOK, NoMatch
  <1>4. pending' = {} => pending = {} /\ tmr' = tmr + 1 /\ tmr' # oc
    BY <1>1, <1>2 DEF Tick, CoverInv, TypeOK
  <1>5. pending' = {} => tmr' < oc
    BY <1>4 DEF CoverInv, TypeOK, NoMatch, Tick
  <1>6. MatchCoversSleepers'
    BY <1>1, <1>4, <1>5 DEF Tick, CoverInv, TypeOK, MatchCoversSleepers
  <1>7. QED
    BY <1>3, <1>5, <1>6 DEF CoverInv, Tick

\* Both interrupts look at every sleeper, so nothing that was wrong before
\* matters.
LEMMA ServeCover ==
    ASSUME CoverInv, NEW n \in Nat, Serve(n), counter' = n,
           pending' \subseteq pending
    PROVE  CoverInv'
  <1>1. Period \in Nat \ {0}
    BY PeriodFacts
  <1>2. /\ NextMatch(n) \in 0 .. NoMatch
        /\ tmr < NextMatch(n)
        /\ \A t \in asleep \ Expired(n) :
              wake[t].sec = n /\ wake[t].usec < Period
                 => NextMatch(n) <= wake[t].usec
    BY NextMatchAhead DEF CoverInv
  <1>3. TypeOK'
    <2>1. INVALID \in [sec : {-1} \cup Nat, usec : 0 .. Period]
      BY <1>1 DEF INVALID
    <2>2. wake' \in [Thread -> [sec : {-1} \cup Nat, usec : 0 .. Period]]
      BY <2>1 DEF Serve, CoverInv, TypeOK
    <2>3. QED
      BY <1>2, <2>2 DEF Serve, CoverInv, TypeOK
  <1>4. \A t \in asleep' : t \in asleep \ Expired(n) /\ wake'[t] = wake[t]
    BY DEF Serve, CoverInv, TypeOK
  <1>5. \A t \in asleep \ Expired(n) :
           \/ wake[t].sec > n
           \/ wake[t].sec = n /\ tmr < wake[t].usec
    <2> SUFFICES ASSUME NEW t \in asleep \ Expired(n)
                 PROVE  \/ wake[t].sec > n
                        \/ wake[t].sec = n /\ tmr < wake[t].usec
      OBVIOUS
    <2>1. wake[t].sec \in Nat /\ wake[t].usec \in 0 .. Period /\ tmr \in Nat
      BY <1>1 DEF CoverInv, TypeOK
    <2>2. wake[t] # INVALID
      BY <2>1 DEF INVALID
    <2>3. QED
      BY <2>1, <2>2 DEF Expired
  <1>6. MatchCoversSleepers'
    <2> SUFFICES ASSUME NEW t \in asleep'
                 PROVE  \/ wake'[t].sec > n
                        \/ /\ wake'[t].sec = n
                           /\ \/ wake'[t].usec >= Period
                              \/ tmr' < oc' /\ oc' <= wake'[t].usec
      BY DEF MatchCoversSleepers
    <2>1. t \in asleep \ Expired(n) /\ wake'[t] = wake[t] /\ tmr' = tmr /\ oc' = NextMatch(n)
      BY <1>4 DEF Serve
    <2>2. wake[t].usec \in 0 .. Period
      BY <2>1 DEF CoverInv, TypeOK
    <2>3. QED
      BY <1>1, <1>2, <1>5, <2>1, <2>2
  <1>7. QED
    BY <1>2, <1>3, <1>4, <1>6 DEF CoverInv, Serve

\* sched_priv_timedblock(), when the time is not in an earlier period and, for
\* a task that blocks on an object, far enough ahead to be programmed.
LEMMA TimedBlockCover ==
    ASSUME CoverInv, NEW t \in Thread, t \notin asleep, NEW obj \in BOOLEAN,
           NEW sec \in Nat, sec >= counter, NEW usec \in 0 .. Period,
           obj /\ sec = counter => usec > tmr + Margin,
           TimedBlock(t, obj, sec, usec), due' \in [Thread -> 0 .. Horizon]
    PROVE  CoverInv'
  <1> DEFINE this == sec = counter
             ahead == usec > tmr + Margin
             sleep == this => ahead
  <1>1. Period \in Nat \ {0} /\ NoMatch = Period + 1 /\ Margin \in Nat
    BY PeriodFacts, TimingAssumption DEF NoMatch
  <1>2. /\ wake' = [wake EXCEPT ![t] = [sec |-> sec, usec |-> usec]]
        /\ oc' = IF this /\ ahead THEN NewMatch(usec) ELSE oc
        /\ UNCHANGED <<counter, tmr, pending>>
    BY DEF TimedBlock
  <1>3. /\ asleep' = IF sleep THEN asleep \cup {t} ELSE asleep
        /\ object' = object \/ (object' = object \cup {t} /\ t \in asleep')
    BY DEF TimedBlock
  <1>4. NewMatch(usec) = IF usec < oc THEN usec ELSE oc
    BY <1>1, NewMatchLeast DEF CoverInv, TypeOK
  <1>5. TypeOK'
    <2>1. [sec |-> sec, usec |-> usec] \in [sec : {-1} \cup Nat, usec : 0 .. Period]
      OBVIOUS
    <2>2. wake' \in [Thread -> [sec : {-1} \cup Nat, usec : 0 .. Period]]
      BY <1>2, <2>1 DEF CoverInv, TypeOK
    <2>3. oc' \in 0 .. NoMatch
      BY <1>1, <1>2, <1>4 DEF CoverInv, TypeOK
    <2>4. object' \subseteq asleep' /\ asleep' \subseteq Thread
      BY <1>3 DEF CoverInv, TypeOK
    <2>5. QED
      BY <1>2, <2>2, <2>3, <2>4 DEF CoverInv, TypeOK
  <1>6. pending' = {} => tmr' < oc'
    BY <1>1, <1>2, <1>4 DEF CoverInv, TypeOK
  <1>7. \A s \in asleep' : wake'[s] = IF s = t THEN [sec |-> sec, usec |-> usec] ELSE wake[s]
    BY <1>2, <1>3 DEF CoverInv, TypeOK
  <1>8. \A s \in asleep' : wake'[s].sec \in Nat
    BY <1>3, <1>7 DEF CoverInv
  <1>9. MatchCoversSleepers'
    <2> SUFFICES ASSUME NEW s \in asleep', pending = {}
                 PROVE  \/ wake'[s].sec > counter
                        \/ /\ wake'[s].sec = counter
                           /\ wake'[s].usec >= Period \/ (tmr < oc' /\ oc' <= wake'[s].usec)
      BY <1>2 DEF MatchCoversSleepers
    <2>1. tmr < oc /\ oc \in Nat /\ tmr \in Nat /\ counter \in Nat
      BY <1>1 DEF CoverInv, TypeOK
    <2>2. CASE s = t
      <3>1. sleep /\ wake'[s].sec = sec /\ wake'[s].usec = usec
        BY <1>3, <1>7, <2>2
      <3>2. QED
        BY <1>1, <1>2, <1>4, <2>1, <3>1
    <2>3. CASE s # t
      <3>1. s \in asleep /\ wake'[s] = wake[s]
        BY <1>3, <1>7, <2>3
      <3>2. wake[s].sec \in Nat /\ wake[s].usec \in 0 .. Period
        BY <3>1 DEF CoverInv, TypeOK
      <3>3. \/ wake[s].sec > counter
            \/ /\ wake[s].sec = counter
               /\ wake[s].usec >= Period \/ (tmr < oc /\ oc <= wake[s].usec)
        BY <3>1 DEF CoverInv, MatchCoversSleepers
      <3>4. oc' <= oc /\ tmr < oc'
        BY <1>1, <1>2, <1>4, <2>1
      <3>5. oc' \in Nat
        BY <1>2, <1>4, <2>1
      <3>6. QED
        BY <1>1, <2>1, <3>1, <3>2, <3>3, <3>4, <3>5
    <2>4. QED
      BY <2>2, <2>3
  <1>10. QED
    BY <1>5, <1>6, <1>8, <1>9 DEF CoverInv

\* usleep() and sleep(): an interval without an object.
LEMMA SleepForCover ==
    ASSUME CoverInv, NEW t \in Thread, t \notin asleep,
           NEW sec \in Nat, NEW usec \in 0 .. Period,
           SleepFor(t, sec, usec), due' \in [Thread -> 0 .. Horizon]
    PROVE  CoverInv'
  <1> DEFINE u == tmr + usec
  <1>1. counter \in Nat /\ tmr \in 0 .. Period - 1 /\ Period \in Nat
    BY PeriodFacts DEF CoverInv, TypeOK
  <1>2. CASE u > Period
    <2>1. counter + sec + 1 \in Nat /\ counter + sec + 1 >= counter /\ u - Period \in 0 .. Period
      BY <1>1, <1>2
    <2>2. TimedBlock(t, FALSE, counter + sec + 1, u - Period)
      BY <1>2 DEF SleepFor
    <2>3. QED
      BY <2>1, <2>2, TimedBlockCover
  <1>3. CASE ~(u > Period)
    <2>1. counter + sec \in Nat /\ counter + sec >= counter /\ u \in 0 .. Period
      BY <1>1, <1>3
    <2>2. TimedBlock(t, FALSE, counter + sec, u)
      BY <1>3 DEF SleepFor
    <2>3. QED
      BY <2>1, <2>2, TimedBlockCover
  <1>4. QED
    BY <1>2, <1>3

\* Products of numbers that are not known.
LEMMA Product ==
    ASSUME NEW a \in Nat, NEW b \in Nat, NEW p \in Nat
    PROVE  /\ a * p \in Nat
           /\ (a + 1) * p = a * p + p
           /\ a < b => a * p + p <= b * p
  <1>1. (a + 1) * p = a * p + p /\ a * p \in Nat
    OBVIOUS
  <1>2. a < b => (a + 1) * p <= b * p
    OBVIOUS
  <1>3. QED
    BY <1>1, <1>2

\* The true time is a number of ticks; the division of a time into a period and
\* a time in it.
LEMMA NowNat ==
    ASSUME TypeOK
    PROVE  /\ Now \in Nat
           /\ pending = {} => Now = counter * Period + tmr
           /\ Now >= counter * Period + tmr
           /\ "overflow" \notin pending => Now = counter * Period + tmr
           /\ "overflow" \in pending => Now = (counter + 1) * Period + tmr
  <1>1. \A a, b \in Nat : a * b \in Nat /\ (a + 1) * b = a * b + b
    OBVIOUS
  <1>2. counter \in Nat /\ Period \in Nat /\ tmr \in Nat
    BY PeriodFacts DEF TypeOK
  <1>3. counter * Period \in Nat /\ (counter + 1) * Period = counter * Period + Period
    BY <1>1, <1>2
  <1>4. QED
    BY <1>2, <1>3 DEF Now

LEMMA Division ==
    ASSUME NEW x \in Nat, NEW p \in Nat \ {0}
    PROVE  /\ x \div p \in Nat /\ x % p \in 0 .. p - 1
           /\ x = (x \div p) * p + (x % p)
  <1>1. x \div p \in Int /\ x % p \in 0 .. p - 1 /\ x = p * (x \div p) + (x % p)
    OBVIOUS
  <1>2. \A q \in Int : p * q = q * p /\ (q <= -1 => p * q <= -p)
    OBVIOUS
  <1>3. QED
    BY <1>1, <1>2

\* A time that lies at least d behind the current one is in this period, and
\* then at least d behind the timer, or in a later one.
LEMMA DeadlinePeriod ==
    ASSUME TypeOK, NEW d \in Nat, NEW abs \in Nat, abs = Now + d
    PROVE  /\ abs \div Period \in Nat /\ abs % Period \in 0 .. Period
           /\ abs \div Period >= counter
           /\ abs \div Period = counter => abs % Period >= tmr + d
  <1> DEFINE q == abs \div Period
             r == abs % Period
  <1>1. Period \in Nat \ {0} /\ counter \in Nat /\ tmr \in 0 .. Period - 1
    BY PeriodFacts DEF TypeOK
  <1>2. q \in Nat /\ r \in 0 .. Period - 1 /\ abs = q * Period + r
    BY <1>1, Division
  <1>3. Now \in Nat /\ Now >= counter * Period + tmr
    BY NowNat
  <1> HIDE DEF q, r
  <1>4. \A a, b \in Nat : \A p \in Nat : a < b => a * p + p <= b * p
    BY Product
  <1>5. q * Period \in Nat /\ counter * Period \in Nat
    BY <1>1, <1>2
  <1>6. q >= counter
    <2>1. q < counter => q * Period + Period <= counter * Period
      BY <1>1, <1>2, <1>4
    <2>2. QED
      BY <1>1, <1>2, <1>3, <1>5, <2>1
  <1>7. q = counter => r >= tmr + d
    BY <1>1, <1>2, <1>3, <1>5
  <1>8. QED
    BY <1>1, <1>2, <1>6, <1>7 DEF q, r

LEMMA USleepCover ==
    ASSUME CoverInv, NEW t \in Thread, NEW d \in USleeps, USleep(t, d)
    PROVE  CoverInv'
  <1>1. d \in Nat /\ d \in 0 .. Period /\ Horizon \in Nat
    BY PeriodFacts, TimingAssumption
  <1>2. due' \in [Thread -> 0 .. Horizon]
    BY <1>1, NowNat DEF USleep, Ask, CoverInv, TypeOK
  <1>3. QED
    BY <1>1, <1>2, SleepForCover DEF USleep

LEMMA SleepCover ==
    ASSUME CoverInv, NEW t \in Thread, NEW s \in Sleeps, Sleep(t, s)
    PROVE  CoverInv'
  <1>1. s \in Nat /\ Second \in Nat /\ Seconds \in Nat \ {0} /\ Horizon \in Nat
    BY TimingAssumption
  <1>2. \A a, b \in Nat : a * b \in Nat
    OBVIOUS
  <1>3. due' \in [Thread -> 0 .. Horizon]
    <2>1. Now + s * Second \in 0 .. Horizon
      BY <1>1, <1>2, NowNat DEF Sleep, CoverInv
    <2>2. QED
      BY <1>1, <2>1 DEF Sleep, Ask, CoverInv, TypeOK
  <1>4. CASE s < Seconds
    <2>1. s * Second \in 0 .. Period
      BY <1>1, <1>4, PeriodFacts
    <2>2. QED
      BY <1>3, <1>4, <2>1, SleepForCover DEF Sleep
  <1>5. CASE ~(s < Seconds)
    <2>1. s \div Seconds \in Nat /\ s % Seconds \in 0 .. Seconds - 1
      BY <1>1, Division
    <2>2. s % Seconds \in 0 .. Period
      BY <1>1, <2>1, PeriodFacts
    <2>3. QED
      BY <1>3, <1>5, <2>1, <2>2, SleepForCover DEF Sleep
  <1>6. QED
    BY <1>4, <1>5

LEMMA TimedWaitCover ==
    ASSUME DeadlinesAhead, CoverInv,
           NEW t \in Thread, NEW d \in Deadlines, TimedWait(t, d)
    PROVE  CoverInv'
  <1> DEFINE abs == Now + d
  <1>1. d \in Nat /\ d > Margin /\ Margin \in Nat /\ Horizon \in Nat
    BY TimingAssumption DEF DeadlinesAhead
  <1>2. abs \in 0 .. Horizon /\ t \notin asleep
    BY DEF TimedWait
  <1>3. /\ abs \div Period \in Nat /\ abs % Period \in 0 .. Period
        /\ abs \div Period >= counter
        /\ abs \div Period = counter => abs % Period >= tmr + d
    BY <1>1, <1>2, DeadlinePeriod DEF CoverInv
  <1>4. due' \in [Thread -> 0 .. Horizon]
    BY <1>1, <1>2 DEF TimedWait, Ask, CoverInv, TypeOK
  <1>5. TimedBlock(t, TRUE, abs \div Period, abs % Period)
    BY DEF TimedWait
  <1> HIDE DEF abs
  <1>6. abs \div Period = counter => abs % Period > tmr + Margin
    BY <1>1, <1>3, PeriodFacts DEF CoverInv, TypeOK
  <1>7. QED
    BY <1>2, <1>3, <1>4, <1>5, <1>6, TimedBlockCover

LEMMA UnblockCover ==
    ASSUME CoverInv, NEW t \in Thread, Unblock(t)
    PROVE  CoverInv'
  <1>1. INVALID \in [sec : {-1} \cup Nat, usec : 0 .. Period]
    BY PeriodFacts DEF INVALID
  <1>2. TypeOK'
    BY <1>1 DEF Unblock, CoverInv, TypeOK
  <1>3. \A s \in asleep' : s \in asleep /\ wake'[s] = wake[s]
    BY DEF Unblock, CoverInv, TypeOK
  <1>4. UNCHANGED <<counter, tmr, oc, pending, Period>>
    BY DEF Unblock
  <1>5. MatchCoversSleepers'
    BY <1>3, <1>4 DEF CoverInv, MatchCoversSleepers
  <1>6. QED
    BY <1>2, <1>3, <1>4, <1>5 DEF CoverInv

LEMMA NextCover ==
    ASSUME DeadlinesAhead, CoverInv, [Next]_vars
    PROVE  CoverInv'
  <1>1. CASE Tick
    BY <1>1, TickCover
  <1>2. CASE MatchEvent
    <2>1. counter \in Nat /\ Serve(counter) /\ counter' = counter
      BY <1>2 DEF MatchEvent, CoverInv, TypeOK
    <2>2. pending' \subseteq pending
      BY <1>2 DEF MatchEvent
    <2>3. QED
      BY <2>1, <2>2, ServeCover
  <1>3. CASE OverflowEvent
    <2>1. counter + 1 \in Nat /\ Serve(counter + 1) /\ counter' = counter + 1
      BY <1>3 DEF OverflowEvent, CoverInv, TypeOK
    <2>2. pending' \subseteq pending
      BY <1>3 DEF OverflowEvent
    <2>3. QED
      BY <2>1, <2>2, ServeCover
  <1>4. ASSUME NEW t \in Thread, NEW d \in USleeps, USleep(t, d) PROVE CoverInv'
    BY <1>4, USleepCover
  <1>5. ASSUME NEW t \in Thread, NEW s \in Sleeps, Sleep(t, s) PROVE CoverInv'
    BY <1>5, SleepCover
  <1>6. ASSUME NEW t \in Thread, NEW d \in Deadlines, TimedWait(t, d) PROVE CoverInv'
    BY <1>6, TimedWaitCover
  <1>7. ASSUME NEW t \in Thread, Unblock(t) PROVE CoverInv'
    BY <1>7, UnblockCover
  <1>8. CASE UNCHANGED vars
    BY <1>8 DEF vars, CoverInv, TypeOK, MatchCoversSleepers
  <1>9. QED
    BY <1>1, <1>2, <1>3, <1>4, <1>5, <1>6, <1>7, <1>8 DEF Next

\* For any number of tasks, any period, margin and horizon, and also when the
\* timer's interrupts are served late: the timer's state keeps its types.
THEOREM TimingTypeCorrect ==
    ASSUME DeadlinesAhead
    PROVE  Spec => []TypeOK
  <1>1. CoverInv => TypeOK
    BY DEF CoverInv
  <1>2. QED
    BY <1>1, InitCover, NextCover, PTL DEF Spec

\* Under the same conditions the compare register that
\* priv_usecond_match_event() and sched_priv_timedblock() maintain never passes
\* over a sleeper of the current period.
THEOREM CompareCoversSleepers ==
    ASSUME DeadlinesAhead
    PROVE  Spec => []MatchCoversSleepers
  <1>1. CoverInv => MatchCoversSleepers
    BY DEF CoverInv
  <1>2. QED
    BY <1>1, InitCover, NextCover, PTL DEF Spec

-----------------------------------------------------------------------------
\* NoEarlyWake needs to know that no sleeper's wake time lies before the time it
\* has asked for.
Promised ==
    \A t \in asleep : due[t] <= wake[t].sec * Period + wake[t].usec

\* sleep() of less than a period.
SleepsWithinPeriod == \A s \in Sleeps : s < Seconds

LEMMA TimedBlockPromised ==
    ASSUME CoverInv, Promised, NEW t \in Thread, NEW obj \in BOOLEAN,
           NEW sec \in Nat, sec >= counter, NEW usec \in 0 .. Period,
           TimedBlock(t, obj, sec, usec),
           NEW x \in Nat, x <= sec * Period + usec,
           due' = [due EXCEPT ![t] = x]
    PROVE  Promised'
  <1>1. /\ wake' = [wake EXCEPT ![t] = [sec |-> sec, usec |-> usec]]
        /\ asleep' \subseteq asleep \cup {t}
    BY DEF TimedBlock
  <1>2. Period' = Period
    BY DEF Period
  <1>3. ASSUME NEW s \in asleep'
        PROVE  due'[s] <= wake'[s].sec * Period + wake'[s].usec
    <2>1. CASE s = t
      BY <1>1, <2>1 DEF CoverInv, TypeOK
    <2>2. CASE s # t
      <3>1. s \in asleep /\ s \in Thread
        BY <1>1, <2>2 DEF CoverInv, TypeOK
      <3>2. due'[s] = due[s] /\ wake'[s] = wake[s]
        BY <1>1, <2>2, <3>1 DEF CoverInv, TypeOK
      <3>3. QED
        BY <3>1, <3>2 DEF Promised
    <2>3. QED
      BY <2>1, <2>2
  <1>4. QED
    BY <1>2, <1>3 DEF Promised

\* An interval that is within the period or carried to the next one ends when
\* it should.
LEMMA SleepForPromised ==
    ASSUME CoverInv, Promised, NEW t \in Thread, NEW d \in 0 .. Period,
           SleepFor(t, 0, d), Ask(t, Now + d)
    PROVE  Promised'
  <1> DEFINE u == tmr + d
             x == IF "overflow" \in pending THEN 0 ELSE Now + d
  <1>1. counter \in Nat /\ tmr \in 0 .. Period - 1 /\ Period \in Nat /\ Now \in Nat
    BY PeriodFacts, NowNat DEF CoverInv, TypeOK
  <1>2. counter * Period \in Nat /\ (counter + 1) * Period = counter * Period + Period
    BY <1>1, Product
  <1>3. x \in Nat /\ x <= counter * Period + u
    BY <1>1, <1>2, NowNat DEF CoverInv
  <1>4. due' = [due EXCEPT ![t] = x]
    BY DEF Ask
  <1>5. CASE u > Period
    <2>1. TimedBlock(t, FALSE, counter + 0 + 1, u - Period)
      BY <1>5 DEF SleepFor
    <2>2. /\ counter + 0 + 1 \in Nat /\ counter + 0 + 1 >= counter
          /\ u - Period \in 0 .. Period
      BY <1>1, <1>5
    <2>3. counter + 0 + 1 = counter + 1
      BY <1>1
    <2>4. x <= (counter + 0 + 1) * Period + (u - Period)
      BY <1>1, <1>2, <1>3, <2>3
    <2> HIDE DEF x
    <2>5. QED
      BY <1>3, <1>4, <2>1, <2>2, <2>4, TimedBlockPromised
  <1>6. CASE ~(u > Period)
    <2>1. TimedBlock(t, FALSE, counter + 0, u)
      BY <1>6 DEF SleepFor
    <2>2. /\ counter + 0 \in Nat /\ counter + 0 >= counter /\ counter + 0 = counter
          /\ u \in 0 .. Period
      BY <1>1, <1>6
    <2>3. x <= (counter + 0) * Period + u
      BY <1>3, <2>2
    <2> HIDE DEF x
    <2>4. QED
      BY <1>3, <1>4, <2>1, <2>2, <2>3, TimedBlockPromised
  <1>7. QED
    BY <1>5, <1>6

LEMMA TimedWaitPromised ==
    ASSUME DeadlinesAhead, CoverInv, Promised,
           NEW t \in Thread, NEW d \in Deadlines, TimedWait(t, d)
    PROVE  Promised'
  <1> DEFINE abs == Now + d
             x   == IF "overflow" \in pending THEN 0 ELSE abs
  <1>1. d \in Nat /\ Horizon \in Nat /\ Period \in Nat \ {0}
    BY TimingAssumption, PeriodFacts DEF DeadlinesAhead
  <1>2. abs \in Nat
    BY <1>1 DEF TimedWait
  <1>3. /\ abs \div Period \in Nat /\ abs % Period \in 0 .. Period
        /\ abs \div Period >= counter
    BY <1>1, <1>2, DeadlinePeriod DEF CoverInv
  <1>4. abs = (abs \div Period) * Period + (abs % Period)
    BY <1>1, <1>2, Division
  <1>5. TimedBlock(t, TRUE, abs \div Period, abs % Period)
    BY DEF TimedWait
  <1>6. due' = [due EXCEPT ![t] = x]
    BY DEF TimedWait, Ask
  <1>7. x \in Nat /\ x <= (abs \div Period) * Period + (abs % Period)
    BY <1>2, <1>4
  <1> HIDE DEF abs, x
  <1>8. QED
    BY <1>3, <1>5, <1>6, <1>7, TimedBlockPromised

LEMMA NextPromised ==
    ASSUME DeadlinesAhead, SleepsWithinPeriod, CoverInv, Promised, [Next]_vars
    PROVE  Promised'
  <1>1. CASE Tick
    BY <1>1 DEF Tick, Promised, Period
  <1>2. ASSUME NEW n \in Nat, Serve(n) PROVE Promised'
    <2>1. \A t \in asleep' : t \in asleep /\ wake'[t] = wake[t] /\ due'[t] = due[t]
      BY <1>2 DEF Serve, CoverInv, TypeOK
    <2>2. QED
      BY <2>1 DEF Promised, Period
  <1>3. CASE MatchEvent \/ OverflowEvent
    <2>1. counter \in Nat /\ counter + 1 \in Nat
      BY DEF CoverInv, TypeOK
    <2>2. QED
      BY <1>2, <1>3, <2>1 DEF MatchEvent, OverflowEvent
  <1>4. ASSUME NEW t \in Thread, NEW d \in USleeps, USleep(t, d) PROVE Promised'
    <2>1. d \in 0 .. Period
      BY PeriodFacts, TimingAssumption
    <2>2. QED
      BY <1>4, <2>1, SleepForPromised DEF USleep
  <1>5. ASSUME NEW t \in Thread, NEW s \in Sleeps, Sleep(t, s) PROVE Promised'
    <2>1. s \in Nat /\ s < Seconds
      BY TimingAssumption DEF SleepsWithinPeriod
    <2>2. s * Second \in 0 .. Period
      BY <2>1, PeriodFacts
    <2>3. SleepFor(t, 0, s * Second) /\ Ask(t, Now + s * Second)
      BY <1>5, <2>1 DEF Sleep
    <2>4. QED
      BY <2>2, <2>3, SleepForPromised
  <1>6. ASSUME NEW t \in Thread, NEW d \in Deadlines, TimedWait(t, d) PROVE Promised'
    BY <1>6, TimedWaitPromised
  <1>7. ASSUME NEW t \in Thread, Unblock(t) PROVE Promised'
    <2>1. \A s \in asleep' : s \in asleep /\ wake'[s] = wake[s] /\ due'[s] = due[s]
      BY <1>7 DEF Unblock, CoverInv, TypeOK
    <2>2. QED
      BY <2>1 DEF Promised, Period
  <1>8. CASE UNCHANGED vars
    BY <1>8 DEF vars, Promised, Period
  <1>9. QED
    BY <1>1, <1>3, <1>4, <1>5, <1>6, <1>7, <1>8 DEF Next

\* A handler wakes only sleepers whose time has come.
LEMMA ServeWakesDue ==
    ASSUME CoverInv, Promised, NEW n \in Nat, Serve(n), Now >= n * Period + tmr,
           NEW t \in asleep \ asleep'
    PROVE  Now >= due[t]
  <1>1. t \in Expired(n)
    BY DEF Serve
  <1>2. /\ wake[t].sec \in Nat /\ wake[t].usec \in 0 .. Period
        /\ due[t] \in Nat /\ tmr \in Nat /\ Period \in Nat /\ Now \in Nat
    BY PeriodFacts, NowNat, TimingAssumption DEF CoverInv, TypeOK
  <1>3. due[t] <= wake[t].sec * Period + wake[t].usec
    BY DEF Promised
  <1>4. wake[t].sec * Period \in Nat /\ n * Period \in Nat
    BY <1>2, Product
  <1>5. CASE wake[t].sec < n
    <2>1. wake[t].sec * Period + Period <= n * Period
      BY <1>2, <1>5, Product
    <2>2. QED
      BY <1>2, <1>3, <1>4, <2>1
  <1>6. CASE wake[t].sec = n /\ wake[t].usec <= tmr
    BY <1>2, <1>3, <1>4, <1>6
  <1>7. QED
    BY <1>1, <1>5, <1>6 DEF Expired

\* For any number of tasks, any period and horizon, and late interrupts: usleep(),
\* sleep() of less than a period and timed waits are not ended by the timer
\* before their time, unless they began while an overflow was not yet counted.
THEOREM TimerNeverEarly ==
    ASSUME DeadlinesAhead, SleepsWithinPeriod
    PROVE  Spec => NoEarlyWake
  <1> DEFINE I == CoverInv /\ Promised
             NoStepEarly == \A t \in asleep \ asleep' :
                               MatchEvent \/ OverflowEvent => Now >= due[t]
  <1>1. Init => I
    BY InitCover DEF Init, Promised
  <1>2. I /\ [Next]_vars => I'
    BY NextCover, NextPromised
  <1>3. I /\ [Next]_vars => NoStepEarly
    <2> SUFFICES ASSUME I, NEW t \in asleep \ asleep', MatchEvent \/ OverflowEvent
                 PROVE  Now >= due[t]
      OBVIOUS
    <2>1. CASE MatchEvent
      <3>1. counter \in Nat /\ Serve(counter)
        BY <2>1 DEF MatchEvent, CoverInv, TypeOK
      <3>2. Now >= counter * Period + tmr
        BY NowNat DEF CoverInv
      <3>3. QED
        BY <3>1, <3>2, ServeWakesDue
    <2>2. CASE OverflowEvent
      <3>1. counter + 1 \in Nat /\ Serve(counter + 1)
        BY <2>2 DEF OverflowEvent, CoverInv, TypeOK
      <3>2. Now >= (counter + 1) * Period + tmr
        <4>1. Now = (counter + 1) * Period + tmr
          BY <2>2, NowNat DEF OverflowEvent, CoverInv
        <4>2. (counter + 1) * Period \in Nat /\ tmr \in Nat
          BY <3>1, PeriodFacts, Product DEF CoverInv, TypeOK
        <4>3. QED
          BY <4>1, <4>2
      <3>3. QED
        BY <3>1, <3>2, ServeWakesDue
    <2>3. QED
      BY <2>1, <2>2
  <1>4. I /\ [Next]_vars => [NoStepEarly]_vars
    BY <1>3
  <1> HIDE DEF I
  <1>5. QED
    BY <1>1, <1>2, <1>4, PTL DEF Spec, NoEarlyWake

-----------------------------------------------------------------------------
(* The flash file system.                                                  *)

-----------------------------------------------------------------------------
(* The shapes of todo.  A call is a sequence of steps; what a call has still *)
(* to do is written from its first step on.                                 *)

Word  == {"alloc", "mark", "sweep", "save", "entry", "erase", "erase_scratch", "restore",
          "strike", "append", "commit", "find", "zero", "copy", "discarding", "close",
          "discard", "switch", "clean", "discardopen"}
Step  == Seq(Word \cup Int)
Steps == Seq(Step)

\* A client's call after it has got a block, and a mount.
Writing(f) == Cons(<<"append", f>>, Cons(<<"commit", f>>, <<>>))
Cleaning   == Cons(<<"clean">>, Cons(<<"restore", 1>>, <<>>))
Switching  == Cons(<<"switch">>, Cleaning)
Dropping   == Cons(<<"discard">>, Switching)
Closing    == Cons(<<"close">>, Dropping)
Discarding == Cons(<<"discarding">>, Closing)
Mounting   == Cons(<<"copy">>, Discarding)

\* What follows when serial number sn has got its block; the list is number 0.
After(sn) == IF sn = 0 THEN Mounting ELSE Writing(sn)
Serials   == Files \cup {0}

IsAlloc(A, sn) ==
    \E h \in {NONE} \cup 0 .. Total - 1, p \in 0 .. Len(Limit) :
        A = Cons(<<"alloc", sn, h, p>>, After(sn))

\* What follows when a section is erased: its blocks go back, from entry n on,
\* then the sweep goes on, and the block is allocated.
IsReturn(R, sn, n) ==
    \E A \in Steps, q \in 1 .. Len(Limit), s \in Nat :
        IsAlloc(A, sn) /\ R = Cons(<<"restore", n>>, Cons(<<"sweep", q, s>>, A))

\* The sweep of section x: its blocks B are saved, and it is erased.
Blocks == Seq(1 .. Total - 1)
Saves(B) == [i \in 1 .. Len(B) |-> <<"save", B[i]>>]
Saving(B, x, R) == Saves(B) \o Cons(<<"erase", x>>, R)

LEMMA ConsIs ==
    ASSUME NEW x \in Step, NEW K \in Steps
    PROVE  /\ Cons(x, K) \in Steps /\ Cons(x, K) # <<>>
           /\ Head(Cons(x, K)) = x /\ Tail(Cons(x, K)) = K
  BY DEF Cons, Steps

LEMMA ConsMore ==
    ASSUME NEW K \in Steps
    PROVE  /\ <<>> \o K = K
           /\ \A x \in Step : <<x>> \o K = Cons(x, K)
           /\ \A x, y \in Step : <<x, y>> \o K = Cons(x, Cons(y, K))
  <1>1. <<>> \o K = K
    BY DEF Steps
  <1>2. ASSUME NEW x \in Step, NEW y \in Step
        PROVE  <<x, y>> \o K = Cons(x, Cons(y, K))
    <2>1. <<x>> \in Steps /\ <<y>> \in Steps /\ <<x, y>> \in Steps
      BY DEF Steps
    <2>2. <<x>> \o <<y>> = <<x, y>>
      <3>1. <<x>> \o <<y>> \in Steps /\ Len(<<x>> \o <<y>>) = 2
        BY <2>1 DEF Steps
      <3>2. \A i \in 1 .. 2 : (<<x>> \o <<y>>)[i] = <<x, y>>[i]
        BY <2>1 DEF Steps
      <3>3. QED
        BY <2>1, <3>1, <3>2, SeqEqual DEF Steps
    <2>3. (<<x>> \o <<y>>) \o K = <<x>> \o (<<y>> \o K)
      BY <2>1, ConcatAssociative DEF Steps
    <2>4. QED
      BY <2>2, <2>3 DEF Cons
  <1>3. QED
    BY <1>1, <1>2 DEF Cons

LEMMA HeadTailConcat ==
    ASSUME NEW S, NEW s \in Seq(S), NEW t \in Seq(S), s # <<>>
    PROVE  Head(s \o t) = s[1] /\ Tail(s \o t) = Tail(s) \o t
  <1>1. s \o t \in Seq(S) /\ Len(s \o t) = Len(s) + Len(t) /\ Len(s) \in Nat \ {0} /\ Len(t) \in Nat
    OBVIOUS
  <1>2. Tail(s) \in Seq(S) /\ Len(Tail(s)) = Len(s) - 1
    BY HeadTailProperties
  <1>3. Tail(s \o t) \in Seq(S) /\ Len(Tail(s \o t)) = Len(s) + Len(t) - 1
    BY <1>1
  <1>4. Tail(s) \o t \in Seq(S) /\ Len(Tail(s) \o t) = Len(s) + Len(t) - 1
    BY <1>1, <1>2
  <1>5. \A i \in 1 .. Len(s) + Len(t) - 1 : Tail(s \o t)[i] = (Tail(s) \o t)[i]
    BY <1>1, <1>2, <1>3, <1>4
  <1>6. Tail(s \o t) = Tail(s) \o t
    BY <1>3, <1>4, <1>5, SeqEqual
  <1>7. QED
    BY <1>1, <1>6

LEMMA TuplesAreSeqs ==
    ASSUME NEW S, NEW a \in S, NEW b \in S, NEW c \in S, NEW d \in S, NEW e \in S
    PROVE  /\ <<a>> \in Seq(S) /\ <<a, b>> \in Seq(S) /\ <<a, b, c>> \in Seq(S)
           /\ <<a, b, c, d>> \in Seq(S) /\ <<a, b, c, d, e>> \in Seq(S)
  OBVIOUS

\* Words and numbers make steps.
LEMMA StepIs ==
    \A w \in Word :
        /\ <<w>> \in Step
        /\ \A i \in Int : <<w, i>> \in Step
        /\ \A i, j \in Int : <<w, i, j>> \in Step
        /\ \A i, j, l \in Int : <<w, i, j, l>> \in Step
        /\ \A i, j, l, m \in Int : <<w, i, j, l, m>> \in Step
  <1> DEFINE S == Word \cup Int
  <1>1. (\A w \in Word : w \in S) /\ (\A i \in Int : i \in S)
    BY Zenon
  <1> HIDE DEF S
  <1>2. \A a, b, c, d, e \in S :
            /\ <<a>> \in Seq(S) /\ <<a, b>> \in Seq(S) /\ <<a, b, c>> \in Seq(S)
            /\ <<a, b, c, d>> \in Seq(S) /\ <<a, b, c, d, e>> \in Seq(S)
    BY TuplesAreSeqs, Zenon
  <1>3. QED
    BY <1>1, <1>2, Zenon DEF S, Step

LEMMA Shapes ==
    /\ <<>> \in Steps
    /\ {Cleaning, Switching, Dropping, Closing, Discarding, Mounting} \subseteq Steps
    /\ Cons(<<"discardopen">>, <<>>) \in Steps
    /\ \A n \in Int : /\ <<"restore", n>> \in Step
                      /\ Cons(<<"restore", n>>, <<>>) \in Steps
                      /\ Cons(<<"restore", n>>, Cons(<<"discardopen">>, <<>>)) \in Steps
    /\ \A f \in Int : Writing(f) \in Steps /\ Cons(<<"commit", f>>, <<>>) \in Steps
    /\ \A sn \in Serials : sn \in Nat /\ After(sn) \in Steps
  <1>1. <<>> \in Steps
    BY DEF Steps
  <1>2. {<<"discardopen">>, <<"clean">>, <<"switch">>, <<"discard">>, <<"close">>,
         <<"discarding">>, <<"copy">>} \subseteq Step
    BY StepIs DEF Word
  <1>3. Cons(<<"discardopen">>, <<>>) \in Steps
    BY <1>1, <1>2, ConsIs
  <1>4. /\ \A n \in Int : /\ <<"restore", n>> \in Step
                          /\ Cons(<<"restore", n>>, <<>>) \in Steps
                          /\ Cons(<<"restore", n>>, Cons(<<"discardopen">>, <<>>)) \in Steps
        /\ Cleaning \in Steps
    <2>1. \A n \in Int : <<"restore", n>> \in Step
      BY StepIs DEF Word
    <2>2. \A n \in Int : /\ Cons(<<"restore", n>>, <<>>) \in Steps
                        /\ Cons(<<"restore", n>>, Cons(<<"discardopen">>, <<>>)) \in Steps
      BY <1>1, <1>3, <2>1, ConsIs
    <2>3. Cleaning \in Steps
      BY <1>2, <2>2, ConsIs DEF Cleaning
    <2>4. QED
      BY <2>1, <2>2, <2>3
  <1>5. Switching \in Steps /\ Dropping \in Steps /\ Closing \in Steps
    BY <1>2, <1>4, ConsIs DEF Switching, Dropping, Closing
  <1>6. Discarding \in Steps /\ Mounting \in Steps
    BY <1>2, <1>5, ConsIs DEF Discarding, Mounting
  <1>7. ASSUME NEW f \in Int
        PROVE  Writing(f) \in Steps /\ Cons(<<"commit", f>>, <<>>) \in Steps
    <2>1. <<"append", f>> \in Step /\ <<"commit", f>> \in Step
      BY StepIs DEF Word
    <2>2. QED
      BY <1>1, <2>1, ConsIs DEF Writing
  <1>8. \A sn \in Serials : sn \in Nat /\ After(sn) \in Steps
    <2>1. \A sn \in Serials : sn \in Nat
      BY FlashAssumption DEF Serials
    <2>2. ASSUME NEW sn \in Serials PROVE After(sn) \in Steps
      <3>1. CASE sn = 0
        BY <1>6, <3>1 DEF After
      <3>2. CASE sn # 0
        <4>1. sn \in Int
          BY <2>1
        <4>2. Writing(sn) \in Steps
          BY <1>7, <4>1
        <4>3. QED
          BY <3>2, <4>2 DEF After
      <3>3. QED
        BY <3>1, <3>2
    <2>3. QED
      BY <2>1, <2>2
  <1>9. QED
    BY <1>1, <1>3, <1>4, <1>5, <1>6, <1>7, <1>8

LEMMA AllocShape ==
    ASSUME NEW sn \in Serials, NEW A, IsAlloc(A, sn)
    PROVE  /\ A \in Steps /\ A # <<>> /\ Tail(A) = After(sn)
           /\ Head(A)[1] = "alloc" /\ Head(A)[2] = sn
           /\ Head(A)[3] \in {NONE} \cup 0 .. Total - 1 /\ Head(A)[4] \in 0 .. 5
  <1>1. PICK h \in {NONE} \cup 0 .. Total - 1, p \in 0 .. Len(Limit) :
            A = Cons(<<"alloc", sn, h, p>>, After(sn))
    BY DEF IsAlloc
  <1>2. Len(Limit) = 5 /\ sn \in Int /\ h \in Int /\ p \in Int /\ Total \in Int
    BY Shapes, FlashAssumption DEF Limit, NONE, Total
  <1>3. <<"alloc", sn, h, p>> \in Step
    BY <1>2, StepIs DEF Word
  <1>4. After(sn) \in Steps
    BY Shapes
  <1>5. A \in Steps /\ A # <<>> /\ Tail(A) = After(sn) /\ Head(A) = <<"alloc", sn, h, p>>
    BY <1>1, <1>3, <1>4, ConsIs
  <1>6. QED
    BY <1>2, <1>5

LEMMA ReturnShape ==
    ASSUME NEW sn \in Serials, NEW R, NEW n \in Nat, IsReturn(R, sn, n)
    PROVE  /\ R \in Steps /\ R # <<>> /\ Head(R) = <<"restore", n>>
           /\ \E A \in Steps, q \in 1 .. 5, s \in Nat :
                 IsAlloc(A, sn) /\ Tail(R) = Cons(<<"sweep", q, s>>, A)
  <1>1. PICK A \in Steps, q \in 1 .. Len(Limit), s \in Nat :
            IsAlloc(A, sn) /\ R = Cons(<<"restore", n>>, Cons(<<"sweep", q, s>>, A))
    BY DEF IsReturn
  <1>2. Len(Limit) = 5
    BY DEF Limit
  <1>3. <<"restore", n>> \in Step /\ <<"sweep", q, s>> \in Step
    BY <1>2, StepIs DEF Word
  <1>4. Cons(<<"sweep", q, s>>, A) \in Steps
    BY <1>3, ConsIs
  <1>5. /\ R \in Steps /\ R # <<>> /\ Head(R) = <<"restore", n>>
        /\ Tail(R) = Cons(<<"sweep", q, s>>, A)
    BY <1>1, <1>3, <1>4, ConsIs
  <1>6. q \in 1 .. 5
    BY <1>2
  <1>7. QED
    BY <1>1, <1>5, <1>6, Zenon

\* A sweep that has a block to save, and one that has not.
LEMMA SavingShape ==
    ASSUME NEW B \in Blocks, NEW x \in Nat, NEW R \in Steps
    PROVE  /\ Saving(B, x, R) \in Steps
           /\ Saving(B, x, R) # <<>>
           /\ B = <<>> => /\ Head(Saving(B, x, R)) = <<"erase", x>>
                          /\ Tail(Saving(B, x, R)) = R
           /\ B # <<>> => /\ Tail(B) \in Blocks /\ Len(Tail(B)) = Len(B) - 1
                          /\ B[1] \in 1 .. Total - 1 /\ Len(B) \in Nat \ {0}
                          /\ \A i \in DOMAIN Tail(B) : i + 1 \in DOMAIN B /\ Tail(B)[i] = B[i + 1]
                          /\ \A i \in DOMAIN B : i = 1 \/ (i - 1 \in DOMAIN Tail(B) /\ B[i] = Tail(B)[i - 1])
                          /\ Head(Saving(B, x, R)) = <<"save", B[1]>>
                          /\ Tail(Saving(B, x, R)) = Saving(Tail(B), x, R)
  <1>1. <<"erase", x>> \in Step /\ Cons(<<"erase", x>>, R) \in Steps
    BY StepIs, ConsIs DEF Word
  <1>2. Total \in Int
    BY FlashAssumption DEF Total
  <1>3. \A i \in 1 .. Len(B) : <<"save", B[i]>> \in Step
    BY <1>2, StepIs DEF Word, Blocks
  <1>4. Saves(B) \in Steps /\ Len(Saves(B)) = Len(B) /\ Len(B) \in Nat
    BY <1>3 DEF Saves, Steps, Blocks
  <1>5. Saving(B, x, R) \in Steps /\ Saving(B, x, R) # <<>>
    BY <1>1, <1>4, ConsIs DEF Saving, Steps
  <1>6. CASE B = <<>>
    <2>1. Saves(B) = <<>>
      BY <1>6, <1>4 DEF Steps
    <2>2. Saving(B, x, R) = Cons(<<"erase", x>>, R)
      BY <1>1, <2>1, ConsMore DEF Saving
    <2>3. QED
      BY <1>1, <1>5, <1>6, <2>2, ConsIs
  <1>7. CASE B # <<>>
    <2>0. Tail(B) \in Blocks /\ Len(Tail(B)) = Len(B) - 1 /\ \A i \in 1 .. Len(Tail(B)) : Tail(B)[i] = B[i + 1]
      BY <1>7, HeadTailProperties DEF Blocks
    <2>1. /\ Tail(B) \in Blocks /\ Len(Tail(B)) = Len(B) - 1 /\ Len(B) \in Nat \ {0}
          /\ B[1] \in 1 .. Total - 1
          /\ \A i \in 1 .. Len(B) - 1 : Tail(B)[i] = B[i + 1]
          /\ DOMAIN B = 1 .. Len(B) /\ DOMAIN Tail(B) = 1 .. Len(B) - 1
      <3>1. B \in Seq(1 .. Total - 1) /\ B # <<>>
        BY <1>7 DEF Blocks
      <3>2. Len(B) \in Nat \ {0} /\ B[1] \in 1 .. Total - 1 /\ DOMAIN B = 1 .. Len(B)
        <4> DEFINE S == 1 .. Total - 1
        <4>1. B \in Seq(S)
          BY <3>1
        <4> HIDE DEF S
        <4>2. Len(B) \in Nat \ {0} /\ B[1] \in S /\ DOMAIN B = 1 .. Len(B)
          BY <3>1, <4>1
        <4>3. QED
          BY <4>2 DEF S
      <3>3. DOMAIN Tail(B) = 1 .. Len(Tail(B))
        BY <2>0 DEF Blocks
      <3>4. QED
        BY <2>0, <3>2, <3>3
    <2>2. Saves(B)[1] = <<"save", B[1]>> /\ Saves(B) # <<>>
      BY <1>4, <2>1 DEF Saves
    <2>3. Tail(Saves(B)) = Saves(Tail(B))
      <3>0. Tail(Saves(B)) \in Steps /\ Len(Tail(Saves(B))) = Len(B) - 1
        BY <1>4, <2>2, HeadTailProperties DEF Steps
      <3>1. \A i \in 1 .. Len(B) - 1 : Saves(B)[i + 1] = Saves(Tail(B))[i]
        BY <2>1 DEF Saves
      <3>2. \A i \in 1 .. Len(B) - 1 : Tail(Saves(B))[i] = Saves(B)[i + 1]
        BY <1>4, <2>2, <3>0, HeadTailProperties DEF Steps
      <3>3. Saves(Tail(B)) \in Steps /\ Len(Saves(Tail(B))) = Len(B) - 1
        <4>1. \A i \in 1 .. Len(B) - 1 : Saves(Tail(B))[i] \in Step
          BY <1>3, <2>1 DEF Saves
        <4>2. QED
          BY <2>1, <4>1 DEF Saves, Steps
      <3>4. QED
        BY <2>1, <3>0, <3>1, <3>2, <3>3, SeqEqual DEF Steps
    <2>4. /\ Head(Saves(B) \o Cons(<<"erase", x>>, R)) = Saves(B)[1]
          /\ Tail(Saves(B) \o Cons(<<"erase", x>>, R)) = Tail(Saves(B)) \o Cons(<<"erase", x>>, R)
      BY <1>1, <1>4, <2>2, HeadTailConcat DEF Steps
    <2>5. /\ Head(Saving(B, x, R)) = <<"save", B[1]>>
          /\ Tail(Saving(B, x, R)) = Saving(Tail(B), x, R)
      BY <2>2, <2>3, <2>4 DEF Saving
    <2>6. /\ \A i \in DOMAIN Tail(B) : i + 1 \in DOMAIN B /\ Tail(B)[i] = B[i + 1]
          /\ \A i \in DOMAIN B : i = 1 \/ (i - 1 \in DOMAIN Tail(B) /\ B[i] = Tail(B)[i - 1])
      BY <2>1
    <2>7. QED
      BY <1>5, <1>7, <2>1, <2>5, <2>6
  <1>8. QED
    BY <1>6, <1>7

-----------------------------------------------------------------------------
(* Sizes, and the choice of a block.                                       *)

LEMMA Sizes ==
    /\ Total \in Nat \ {0, 1} /\ Sections \in Nat /\ E \in Nat \ {0} /\ ScratchEntries \in Nat \ {0}
    /\ Files \subseteq Nat \ {0} /\ NONE \in Int /\ Len(Limit) = 5
    /\ \A p \in 1 .. 5 : Limit[p] \in Nat /\ Limit[p] <= ScratchEntries + 1
    /\ \A s \in 0 .. Sections - 1 : /\ SectionOf(s) \subseteq 0 .. Total - 1
                                    /\ s * E \in Nat
  <1>1. /\ Sections \in Nat \ {0} /\ E \in Nat \ {0} /\ ScratchEntries \in Nat \ {0}
        /\ Files \subseteq Nat \ {0}
    BY FlashAssumption
  <1>2. Total \in Nat \ {0, 1}
    BY FlashAssumption DEF Total
  <1>3. Len(Limit) = 5 /\ \A p \in 1 .. 5 : Limit[p] \in Nat /\ Limit[p] <= ScratchEntries + 1
    <2>1. (E * 3) \div 4 \in Nat /\ (E * 3) \div 4 <= ScratchEntries + 1
      BY FlashAssumption
    <2>2. /\ E \div 16 \in Nat /\ E \div 16 <= (E * 3) \div 4
          /\ E \div 8 \in Nat /\ E \div 8 <= (E * 3) \div 4
          /\ E \div 4 \in Nat /\ E \div 4 <= (E * 3) \div 4
          /\ E \div 2 \in Nat /\ E \div 2 <= (E * 3) \div 4
      BY <1>1
    <2>3. QED
      BY <1>1, <2>1, <2>2 DEF Limit
  <1>4. ASSUME NEW s \in 0 .. Sections - 1
        PROVE  SectionOf(s) \subseteq 0 .. Total - 1 /\ s * E \in Nat
    <2>1. \A m, n, e \in Nat : m <= n => m * e <= n * e /\ m * e \in Nat
      OBVIOUS
    <2>2. s + 1 <= Sections /\ s + 1 \in Nat /\ s \in Nat
      BY <1>1
    <2>3. (s + 1) * E <= Sections * E /\ s * E \in Nat
      BY <1>1, <2>1, <2>2
    <2>4. (s + 1) * E = s * E + E
      BY <1>1, <2>2
    <2>5. QED
      BY <1>1, <1>2, <2>3, <2>4 DEF SectionOf, Total
  <1>5. QED
    BY <1>1, <1>2, <1>3, <1>4 DEF NONE

-----------------------------------------------------------------------------
(* The invariant.                                                          *)

Entries == 1 .. ScratchEntries

\* What follows is said of the blocks k, the entries s of the scratch area and the
\* versions v that were committed, so that it can be said of two states.
Copied(s) == {i \in Entries : s[i].st = "COPIED"}
Vacant(s) == {i \in Entries : s[i].st = "UNUSED"}

Entry == [st : {"UNUSED", "COPIED", "STRUCK"}, orig : 0 .. Total \cup {NONE}, data : Content]

\* Block 0 is never allocated.
Types(k, s, v) ==
    /\ k \in [0 .. Total -> Content] /\ k[0] = Blank
    /\ s \in [Entries -> Entry]
    /\ v \in [Files -> 0 .. 2]

\* A block that the scratch area will restore is there still, or is erased; two
\* entries for it agree.
Restorable(k, s) ==
    /\ \A i \in Copied(s) :
          /\ s[i].orig \in 1 .. Total - 1
          /\ s[i].data.st = "CLOSED" /\ s[i].data.sn # 0
          /\ k[s[i].orig] \in {s[i].data, Blank}
    /\ \A i, j \in Copied(s) : s[i].orig = s[j].orig => s[i].data = s[j].data

\* Entries are used one after the other, and of the others only the first may
\* have a block already.
InOrder(s) ==
    \A i, j \in Entries : i < j /\ i \in Vacant(s) => j \in Vacant(s) /\ s[j].data = Blank

Sound(k, s, v) == Types(k, s, v) /\ Restorable(k, s) /\ InOrder(s)

\* Nothing would be lost if the scratch area were erased.
Redundant(k, s) == \A i \in Copied(s) : k[s[i].orig] = s[i].data

\* Contents d is version n of file f, and block b has it or will have it again.
Good(d, f, n) == d.st = "CLOSED" /\ d.sn = f /\ d.ver = n
Held(k, s, b, f, n) ==
    Good(k[b], f, n) \/ \E i \in Copied(s) : s[i].orig = b /\ Good(s[i].data, f, n)

\* List l names the files that were committed, and each of them has the
\* contents of its last version.
Names(k, s, v, l) ==
    \A f \in Files :
        IF v[f] = 0 THEN k[l].at[f] = 0
        ELSE k[l].at[f] \in 1 .. Total - 1 /\ Held(k, s, k[l].at[f], f, v[f])

Current(d) == d.sn = 0 /\ d.st \in {"OPEN", "CLOSED"} /\ d.zero = "CLOSED"

Valid(k, s, v, l) == l \in 1 .. Total - 1 /\ Current(k[l]) /\ Names(k, s, v, l)

\* It is the only list that a mount will find.
Sole(k, s, v, l) == Valid(k, s, v, l) /\ \A b \in 0 .. Total - 1 : Current(k[b]) => b = l

\* The list in use.
Listing == Sole(blk, scr, files, cur) /\ blk[cur].st = "CLOSED"

\* A block is being allocated, by a client's call or by a mount.  A client finds
\* the scratch area empty but in the course of a sweep.
Calling(sn) == Listing /\ IF sn = 0 THEN mode = "boot" ELSE mode = "up"
Settled(sn) == Calling(sn) /\ (mode = "up" => Copied(scr) = {})

AtAlloc == \E sn \in Serials : Settled(sn) /\ IsAlloc(todo, sn)

\* A block b of serial number sn is to be marked: hint h, pass p.
MarkOf(b, sn, h, p) == Cons(<<"mark", b, sn, h, p>>, After(sn))

AtMark ==
    \E sn \in Serials, b \in 1 .. Total, h \in {NONE} \cup 0 .. Total - 1, p \in 0 .. 5 :
        /\ Settled(sn) /\ todo = MarkOf(b, sn, h, p)
        /\ b < Total => blk[b].st = "FREE"

\* A sweep begins when no block is free, so that none can be erased that waits
\* in the scratch area since an earlier power failure.
AtSweep ==
    \E sn \in Serials, q \in 1 .. Len(Limit), s \in Nat, A \in Steps :
        /\ Settled(sn) /\ Redundant(blk, scr)
        /\ IsAlloc(A, sn) /\ todo = Cons(<<"sweep", q, s>>, A)

\* Section x may be erased once its blocks B are saved.
Erasable(x) ==
    /\ x \in 0 .. Sections - 1
    /\ \A b \in SectionOf(x) : blk[b].st # "OPEN" /\ (blk[b].st = "CLOSED" => blk[b].sn # 0)

Sweeping(sn, R, x, B) ==
    /\ Calling(sn) /\ IsReturn(R, sn, 1) /\ Redundant(blk, scr) /\ Erasable(x)
    /\ \A i \in DOMAIN B : B[i] \in Written(x)

\* Every valid block of it is saved, or will be.
Saved(x, B) ==
    \A b \in Written(x) : (\E i \in DOMAIN B : B[i] = b) \/ \E i \in Copied(scr) : scr[i].orig = b

AtEraseScratch ==
    \E sn \in Serials, R \in Steps, x \in 0 .. Sections - 1, B \in Blocks :
        /\ todo = Cons(<<"erase_scratch">>, Saving(B, x, R))
        /\ Sweeping(sn, R, x, B) /\ Len(B) <= ScratchEntries
        /\ \A b \in Written(x) : \E i \in DOMAIN B : B[i] = b

\* In a client's call there is room for all of them, and only the first one can
\* meet a scratch block that was written without its entry.
AtSave ==
    \E sn \in Serials, R \in Steps, x \in 0 .. Sections - 1, B \in Blocks :
        /\ todo = Saving(B, x, R)
        /\ Sweeping(sn, R, x, B) /\ Saved(x, B)
        /\ mode = "up" => /\ Len(B) <= Cardinality(Vacant(scr))
                          /\ Copied(scr) # {} => \A i \in Vacant(scr) : scr[i].data = Blank

AtEntry ==
    \E sn \in Serials, R \in Steps, x \in 0 .. Sections - 1, B \in Blocks,
       b \in 1 .. Total - 1, n \in Entries :
        /\ todo = Cons(<<"entry", n, b>>, Saving(B, x, R))
        /\ Sweeping(sn, R, x, B)
        /\ b \in Written(x) /\ \A c \in Written(x) \ {b} :
              (\E i \in DOMAIN B : B[i] = c) \/ \E i \in Copied(scr) : scr[i].orig = c
        /\ Vacant(scr) = n .. ScratchEntries /\ scr[n].data = blk[b]
        /\ mode = "up" => Len(B) <= ScratchEntries - n

\* The entries before n have been restored.
From(n) == \A j \in Copied(scr) : n <= j

AtRestore == \E sn \in Serials, n \in Nat : Calling(sn) /\ IsReturn(todo, sn, n) /\ From(n)

AtStrike ==
    \E sn \in Serials, R \in Steps, i \in Copied(scr) :
        /\ Calling(sn) /\ IsReturn(R, sn, i + 1) /\ todo = Cons(<<"strike", i>>, R)
        /\ From(i) /\ blk[scr[i].orig] = scr[i].data

\* The client's call has its block.
AtWriting ==
    \E f \in Files :
        /\ mode = "up" /\ Listing /\ Copied(scr) = {}
        /\ todo \in {Writing(f), Cons(<<"commit", f>>, <<>>)}
        /\ got \in 1 .. Total - 1 /\ blk[got].st = "OPEN" /\ blk[got].sn = f

\* A mount: the list in use is still to come.
AtFind ==
    \E n \in Nat, l \in 1 .. Total - 1 :
        /\ mode = "boot" /\ Sole(blk, scr, files, l) /\ n <= l
        /\ todo = Cons(<<"find", n>>, Cleaning)

AtZero ==
    \E b \in Nat, l \in 1 .. Total - 1 :
        /\ mode = "boot" /\ Sole(blk, scr, files, l) /\ b < l /\ blk[b].sn = 0
        /\ todo = Cons(<<"zero", b>>, Cons(<<"find", b + 1>>, Cleaning))

AtCopy ==
    /\ mode = "boot" /\ Listing /\ todo = Mounting
    /\ got \in 1 .. Total - 1 /\ blk[got].st = "OPEN" /\ blk[got].sn = 0 /\ got # cur

\* There are two lists, with the same contents, ...
AtDiscarding ==
    /\ mode = "boot" /\ todo = Discarding /\ got # cur
    /\ Valid(blk, scr, files, cur) /\ Valid(blk, scr, files, got) /\ \A b \in 0 .. Total - 1 : Current(blk[b]) => b \in {cur, got}

\* ... and from now on the new one counts.
AtClose ==
    /\ mode = "boot" /\ todo \in {Closing, Dropping, Switching} /\ got # cur
    /\ cur \in 1 .. Total - 1 /\ blk[cur].sn = 0 /\ Sole(blk, scr, files, got)
    /\ todo # Closing => blk[got].st = "CLOSED"

AtClean == mode = "boot" /\ Listing /\ todo = Cleaning

\* What is left of a mount when the files have been cleaned.
Ending(n) == {Cons(<<"restore", n>>, <<>>), Cons(<<"restore", n>>, Cons(<<"discardopen">>, <<>>))}

AtLast == mode = "boot" /\ Listing /\ \E n \in Nat : todo \in Ending(n) /\ From(n)

AtLastStrike ==
    /\ mode = "boot" /\ Listing
    /\ \E i \in Copied(scr) : \E Z \in Ending(i + 1) :
          todo = Cons(<<"strike", i>>, Z) /\ From(i) /\ blk[scr[i].orig] = scr[i].data

AtEnd == /\ mode = "boot" /\ Listing /\ Copied(scr) = {}
         /\ todo \in {<<>>, Cons(<<"discardopen">>, <<>>)}

AtRest == mode = "up" /\ Listing /\ todo = <<>> /\ Copied(scr) = {}

Place ==
    \/ AtAlloc \/ AtMark
    \/ AtSweep \/ AtEraseScratch \/ AtSave \/ AtEntry \/ AtRestore \/ AtStrike
    \/ AtWriting
    \/ AtFind \/ AtZero \/ AtCopy \/ AtDiscarding \/ AtClose
    \/ AtClean \/ AtLast \/ AtLastStrike \/ AtEnd
    \/ AtRest

DurableInv == spoilt = {} => Sound(blk, scr, files) /\ Place

-----------------------------------------------------------------------------
\* The step that is due where the call is.
LEMMA Heads ==
    /\ AtAlloc => todo # <<>> /\ Head(todo)[1] = "alloc"
    /\ AtMark => todo # <<>> /\ Head(todo)[1] = "mark"
    /\ AtSweep => todo # <<>> /\ Head(todo)[1] = "sweep"
    /\ AtEraseScratch => todo # <<>> /\ Head(todo)[1] = "erase_scratch"
    /\ AtSave => todo # <<>> /\ Head(todo)[1] \in {"save", "erase"}
    /\ AtEntry => todo # <<>> /\ Head(todo)[1] = "entry"
    /\ AtRestore => todo # <<>> /\ Head(todo)[1] = "restore"
    /\ AtStrike => todo # <<>> /\ Head(todo)[1] = "strike"
    /\ AtWriting => todo # <<>> /\ Head(todo)[1] \in {"append", "commit"}
    /\ AtFind => todo # <<>> /\ Head(todo)[1] = "find"
    /\ AtZero => todo # <<>> /\ Head(todo)[1] = "zero"
    /\ AtCopy => todo # <<>> /\ Head(todo)[1] = "copy"
    /\ AtDiscarding => todo # <<>> /\ Head(todo)[1] = "discarding"
    /\ AtClose => todo # <<>> /\ Head(todo)[1] \in {"close", "discard", "switch"}
    /\ AtClean => todo # <<>> /\ Head(todo)[1] = "clean"
    /\ AtLast => todo # <<>> /\ Head(todo)[1] = "restore"
    /\ AtLastStrike => todo # <<>> /\ Head(todo)[1] = "strike"
    /\ AtEnd => todo = <<>> \/ (todo # <<>> /\ Head(todo)[1] = "discardopen")
    /\ AtRest => todo = <<>>
  <1>0. /\ Total \in Int /\ Sections \in Int /\ ScratchEntries \in Int
        /\ \A sn \in Serials : sn \in Int /\ After(sn) \in Steps
    BY Sizes, Shapes
  <1>1. AtAlloc => todo # <<>> /\ Head(todo)[1] = "alloc"
    BY AllocShape DEF AtAlloc
  <1>2. ASSUME AtMark PROVE todo # <<>> /\ Head(todo)[1] = "mark"
    <2>1. PICK sn \in Serials, b \in 1 .. Total, h \in {NONE} \cup 0 .. Total - 1, p \in 0 .. 5 :
              todo = Cons(<<"mark", b, sn, h, p>>, After(sn))
      BY <1>2 DEF AtMark, MarkOf
    <2>2. <<"mark", b, sn, h, p>> \in Step
      <3>1. b \in Int /\ sn \in Int /\ h \in Int /\ p \in Int
        BY <1>0, Sizes
      <3>2. QED
        BY <3>1, StepIs DEF Word
    <2>3. Head(todo) = <<"mark", b, sn, h, p>> /\ todo # <<>>
      BY <1>0, <2>1, <2>2, ConsIs
    <2>4. QED
      BY <2>3
  <1>3. ASSUME AtSweep PROVE todo # <<>> /\ Head(todo)[1] = "sweep"
    <2>1. PICK q \in 1 .. Len(Limit), s \in Nat, A \in Steps : todo = Cons(<<"sweep", q, s>>, A)
      BY <1>3 DEF AtSweep
    <2>2. <<"sweep", q, s>> \in Step
      BY StepIs DEF Word
    <2>3. Head(todo) = <<"sweep", q, s>> /\ todo # <<>>
      BY <2>1, <2>2, ConsIs
    <2>4. QED
      BY <2>3
  <1>4. ASSUME NEW R \in Steps, NEW x \in 0 .. Sections - 1, NEW B \in Blocks
        PROVE  Saving(B, x, R) \in Steps /\ Saving(B, x, R) # <<>> /\ Head(Saving(B, x, R))[1] \in {"save", "erase"}
    <2>1. x \in Nat
      BY <1>0
    <2>2. QED
      BY <2>1, SavingShape
  <1>5. ASSUME AtEraseScratch PROVE todo # <<>> /\ Head(todo)[1] = "erase_scratch"
    <2>1. PICK R \in Steps, x \in 0 .. Sections - 1, B \in Blocks :
              todo = Cons(<<"erase_scratch">>, Saving(B, x, R))
      BY <1>5 DEF AtEraseScratch
    <2>2. <<"erase_scratch">> \in Step
      BY StepIs DEF Word
    <2>3. Head(todo) = <<"erase_scratch">> /\ todo # <<>>
      BY <1>4, <2>1, <2>2, ConsIs
    <2>4. QED
      BY <2>3
  <1>6. AtSave => todo # <<>> /\ Head(todo)[1] \in {"save", "erase"}
    BY <1>4 DEF AtSave
  <1>7. ASSUME AtEntry PROVE todo # <<>> /\ Head(todo)[1] = "entry"
    <2>1. PICK R \in Steps, x \in 0 .. Sections - 1, B \in Blocks, b \in 1 .. Total - 1, n \in 1 .. ScratchEntries :
              todo = Cons(<<"entry", n, b>>, Saving(B, x, R))
      BY <1>7 DEF AtEntry, Entries
    <2>2. <<"entry", n, b>> \in Step
      BY <1>0, StepIs DEF Word
    <2>3. Head(todo) = <<"entry", n, b>> /\ todo # <<>>
      BY <1>4, <2>1, <2>2, ConsIs
    <2>4. QED
      BY <2>3
  <1>8. AtRestore => todo # <<>> /\ Head(todo)[1] = "restore"
    BY ReturnShape DEF AtRestore
  <1>9. \A i \in Copied(scr), K \in Steps : /\ Head(Cons(<<"strike", i>>, K))[1] = "strike"
                                       /\ Cons(<<"strike", i>>, K) # <<>>
    <2>1. ASSUME NEW i \in Copied(scr) PROVE <<"strike", i>> \in Step
      <3>1. i \in Int
        BY <1>0 DEF Copied, Entries
      <3>2. QED
        BY <3>1, StepIs DEF Word
    <2>2. QED
      BY <2>1, ConsIs
  <1>10. AtStrike => todo # <<>> /\ Head(todo)[1] = "strike"
    BY <1>9 DEF AtStrike
  <1>11. ASSUME AtWriting PROVE todo # <<>> /\ Head(todo)[1] \in {"append", "commit"}
    <2>1. PICK f \in Files : todo \in {Writing(f), Cons(<<"commit", f>>, <<>>)}
      BY <1>11 DEF AtWriting
    <2>2. f \in Int
      BY Sizes
    <2>3. <<"append", f>> \in Step /\ <<"commit", f>> \in Step
      BY <2>2, StepIs DEF Word
    <2>4. <<>> \in Steps /\ Cons(<<"commit", f>>, <<>>) \in Steps
      BY <2>2, Shapes
    <2>5. todo # <<>> /\ Head(todo) \in {<<"append", f>>, <<"commit", f>>}
      BY <2>1, <2>3, <2>4, ConsIs DEF Writing
    <2>6. QED
      BY <2>5
  <1>12. \A n \in Nat : /\ Cons(<<"find", n>>, Cleaning) \in Steps
                        /\ Head(Cons(<<"find", n>>, Cleaning)) = <<"find", n>>
                        /\ Cons(<<"find", n>>, Cleaning) # <<>>
    <2>1. ASSUME NEW n \in Nat PROVE <<"find", n>> \in Step
      BY StepIs DEF Word
    <2>2. QED
      BY <2>1, ConsIs, Shapes
  <1>13. AtFind => todo # <<>> /\ Head(todo)[1] = "find"
    BY <1>12 DEF AtFind
  <1>14. ASSUME AtZero PROVE todo # <<>> /\ Head(todo)[1] = "zero"
    <2>1. PICK b \in Nat : todo = Cons(<<"zero", b>>, Cons(<<"find", b + 1>>, Cleaning))
      BY <1>14 DEF AtZero
    <2>2. <<"zero", b>> \in Step /\ b + 1 \in Nat
      BY StepIs DEF Word
    <2>3. Head(todo) = <<"zero", b>> /\ todo # <<>>
      BY <1>12, <2>1, <2>2, ConsIs
    <2>4. QED
      BY <2>3
  <1>15. \A w \in Word, K \in Steps : Head(Cons(<<w>>, K))[1] = w /\ Cons(<<w>>, K) # <<>>
    BY StepIs, ConsIs
  <1>16. /\ Mounting # <<>> /\ Head(Mounting)[1] = "copy"
         /\ Discarding # <<>> /\ Head(Discarding)[1] = "discarding"
         /\ Closing # <<>> /\ Head(Closing)[1] = "close"
    BY <1>15, Shapes DEF Mounting, Discarding, Closing, Word
  <1>17. /\ Dropping # <<>> /\ Head(Dropping)[1] = "discard"
         /\ Switching # <<>> /\ Head(Switching)[1] = "switch"
         /\ Cleaning # <<>> /\ Head(Cleaning)[1] = "clean"
    <2>1. Cons(<<"restore", 1>>, <<>>) \in Steps /\ Cleaning \in Steps /\ Switching \in Steps
      BY Shapes
    <2>2. QED
      BY <1>15, <2>1 DEF Dropping, Switching, Cleaning, Word
  <1>18. \A n \in Int : \A Z \in Ending(n) : Z \in Steps /\ Z # <<>> /\ Head(Z)[1] = "restore"
    <2>1. ASSUME NEW n \in Int, NEW K \in Steps
          PROVE  /\ Cons(<<"restore", n>>, K) \in Steps /\ Cons(<<"restore", n>>, K) # <<>>
                 /\ Head(Cons(<<"restore", n>>, K))[1] = "restore"
      <3>1. <<"restore", n>> \in Step
        BY Shapes
      <3>2. QED
        BY <3>1, ConsIs
    <2>2. <<>> \in Steps /\ Cons(<<"discardopen">>, <<>>) \in Steps
      BY Shapes
    <2>3. QED
      BY <2>1, <2>2 DEF Ending
  <1>19. /\ AtCopy => todo # <<>> /\ Head(todo)[1] = "copy"
         /\ AtDiscarding => todo # <<>> /\ Head(todo)[1] = "discarding"
    BY <1>16 DEF AtCopy, AtDiscarding
  <1>20. /\ AtClose => todo # <<>> /\ Head(todo)[1] \in {"close", "discard", "switch"}
         /\ AtClean => todo # <<>> /\ Head(todo)[1] = "clean"
    BY <1>16, <1>17 DEF AtClose, AtClean
  <1>21. AtLast => todo # <<>> /\ Head(todo)[1] = "restore"
    BY <1>18 DEF AtLast
  <1>22. AtLastStrike => todo # <<>> /\ Head(todo)[1] = "strike"
    <2>1. \A i \in Copied(scr) : i + 1 \in Int
      BY <1>0 DEF Copied, Entries
    <2>2. QED
      BY <1>9, <1>18, <2>1 DEF AtLastStrike
  <1>23. AtEnd => todo = <<>> \/ (todo # <<>> /\ Head(todo)[1] = "discardopen")
    <2>1. <<>> \in Steps
      BY Shapes
    <2>2. QED
      BY <1>15, <2>1 DEF AtEnd, Word
  <1>24. AtRest => todo = <<>>
    BY DEF AtRest
  <1>25. QED
    BY <1>1, <1>2, <1>3, <1>5, <1>6, <1>7, <1>8, <1>10, <1>11, <1>13, <1>14, <1>19, <1>20,
       <1>21, <1>22, <1>23, <1>24

\* Each step is taken at its place.
LEMMA Places ==
    ASSUME Place
    PROVE  /\ Busy("alloc") => AtAlloc
           /\ Busy("mark") => AtMark
           /\ Busy("sweep") => AtSweep
           /\ Busy("erase_scratch") => AtEraseScratch
           /\ Busy("save") \/ Busy("erase") => AtSave
           /\ Busy("entry") => AtEntry
           /\ Busy("restore") => AtRestore \/ AtLast
           /\ Busy("strike") => AtStrike \/ AtLastStrike
           /\ Busy("append") \/ Busy("commit") => AtWriting
           /\ Busy("find") => AtFind
           /\ Busy("zero") => AtZero
           /\ Busy("copy") => AtCopy
           /\ Busy("discarding") <=> AtDiscarding
           /\ Busy("close") \/ Busy("discard") \/ Busy("switch") => AtClose
           /\ Busy("clean") => AtClean
           /\ Busy("discardopen") => AtEnd
           /\ todo = <<>> => AtEnd \/ AtRest
  <1> DEFINE op == Head(todo)[1]
  <1>1. \A w : Busy(w) <=> mode # "failed" /\ todo # <<>> /\ op = w
    BY Zenon DEF Busy
  <1>2. /\ AtAlloc => todo # <<>> /\ op = "alloc"
        /\ AtMark => todo # <<>> /\ op = "mark"
        /\ AtSweep => todo # <<>> /\ op = "sweep"
        /\ AtEraseScratch => todo # <<>> /\ op = "erase_scratch"
        /\ AtSave => todo # <<>> /\ (op = "save" \/ op = "erase")
        /\ AtEntry => todo # <<>> /\ op = "entry"
        /\ AtRestore => todo # <<>> /\ op = "restore"
        /\ AtStrike => todo # <<>> /\ op = "strike"
        /\ AtWriting => todo # <<>> /\ (op = "append" \/ op = "commit")
        /\ AtFind => todo # <<>> /\ op = "find"
        /\ AtZero => todo # <<>> /\ op = "zero"
        /\ AtCopy => todo # <<>> /\ op = "copy"
        /\ AtDiscarding => todo # <<>> /\ op = "discarding"
        /\ AtClose => todo # <<>> /\ (op = "close" \/ op = "discard" \/ op = "switch")
        /\ AtClean => todo # <<>> /\ op = "clean"
        /\ AtLast => todo # <<>> /\ op = "restore"
        /\ AtLastStrike => todo # <<>> /\ op = "strike"
        /\ AtEnd => todo = <<>> \/ (todo # <<>> /\ op = "discardopen")
        /\ AtRest => todo = <<>>
    BY Heads
  <1>3. AtDiscarding => mode # "failed"
    BY DEF AtDiscarding
  <1> HIDE DEF op
  <1>4. QED
    BY <1>1, <1>2, <1>3 DEF Place

-----------------------------------------------------------------------------
(* What a change of one block, or of one entry, leaves as it is.           *)

LEMMA BlankIs ==
    /\ Blank \in Content /\ Blank.st = "FREE" /\ Blank.sn = NONE /\ Blank.sn # 0 /\ Blank.sn \notin Files
    /\ Blank.zero = "FREE" /\ Blank.at = [f \in Files |-> 0] /\ Blank.open = {} /\ ~Current(Blank)
    /\ \A f, n : ~Good(Blank, f, n)
  <1>1. Total \in Nat /\ Files \subseteq Nat
    BY Sizes
  <1>2. [f \in Files |-> 0] \in [Files -> 0 .. Total]
    BY <1>1
  <1>3. Blank \in Content
    BY <1>2 DEF Blank, Content
  <1>4. -1 # 0 /\ -1 \notin Files
    BY <1>1
  <1>5. QED
    BY <1>3, <1>4 DEF Blank, NONE, Current, Good

\* Block b gets contents d.  No file and no pending entry needs what it had, or
\* it has that again.
Harmless(k, s, v, b, d, m) ==
    /\ Sound(k, s, v) /\ b \in 1 .. Total - 1 /\ d \in Content
    /\ \A i \in Copied(s) : s[i].orig = b => d = s[i].data
    /\ \A f \in Files : Good(k[b], f, v[f]) => Good(d, f, v[f])
    /\ m = [k EXCEPT ![b] = d]

LEMMA OneBlock ==
    ASSUME NEW k, NEW s, NEW v, NEW b, NEW d, NEW m, Harmless(k, s, v, b, d, m)
    PROVE  /\ Sound(m, s, v)
           /\ m[b] = d /\ \A c \in 0 .. Total : c # b => m[c] = k[c]
           /\ \A l \in 1 .. Total - 1 : Names(k, s, v, l) /\ m[l].at = k[l].at => Names(m, s, v, l)
           /\ \A l : l # b /\ Valid(k, s, v, l) => Valid(m, s, v, l)
           /\ \A l : l # b /\ Sole(k, s, v, l) /\ ~Current(d) => Sole(m, s, v, l)
           /\ Sole(k, s, v, b) /\ Current(d) /\ d.at = k[b].at => Sole(m, s, v, b)
  <1>0. /\ Sound(k, s, v) /\ b \in 1 .. Total - 1 /\ d \in Content
        /\ \A i \in Copied(s) : s[i].orig = b => d = s[i].data
        /\ \A f \in Files : Good(k[b], f, v[f]) => Good(d, f, v[f])
        /\ m = [k EXCEPT ![b] = d]
    BY DEF Harmless
  <1>1. Total \in Nat
    BY Sizes
  <1>2. k \in [0 .. Total -> Content] /\ k[0] = Blank /\ b \in 0 .. Total /\ b # 0
    BY <1>0, <1>1 DEF Sound, Types
  <1>3. m \in [0 .. Total -> Content] /\ m[b] = d /\ \A c \in 0 .. Total : c # b => m[c] = k[c]
    BY <1>0, <1>2
  <1>4. Sound(m, s, v)
    <2>1. 0 \in 0 .. Total
      BY <1>1
    <2>2. Types(m, s, v)
      BY <1>0, <1>2, <1>3, <2>1 DEF Sound, Types
    <2>3. Restorable(m, s)
      <3>1. \A i \in Copied(s) : s[i].orig \in 0 .. Total
        BY <1>0, <1>1 DEF Sound, Restorable
      <3>2. QED
        BY <1>0, <1>3, <3>1 DEF Sound, Restorable
    <2>4. QED
      BY <1>0, <2>2, <2>3 DEF Sound
  <1>5. ASSUME NEW c \in 0 .. Total, NEW f \in Files, Held(k, s, c, f, v[f])
        PROVE  Held(m, s, c, f, v[f])
    BY <1>0, <1>3, <1>5 DEF Held
  <1>6. ASSUME NEW l \in 1 .. Total - 1, Names(k, s, v, l), m[l].at = k[l].at PROVE Names(m, s, v, l)
    <2>1. \A c \in 1 .. Total - 1 : c \in 0 .. Total
      BY <1>1
    <2>2. QED
      BY <1>5, <1>6, <2>1 DEF Names
  <1>7. \A l \in 1 .. Total - 1 : l \in 0 .. Total
    BY <1>1
  <1>8. \A c \in 0 .. Total - 1 : c \in 0 .. Total
    BY <1>1
  <1>9. ASSUME NEW l, l # b, Valid(k, s, v, l) PROVE Valid(m, s, v, l)
    BY <1>3, <1>6, <1>7, <1>9 DEF Valid
  <1>10. ASSUME NEW l, l # b, Sole(k, s, v, l), ~Current(d) PROVE Sole(m, s, v, l)
    BY <1>3, <1>8, <1>9, <1>10 DEF Sole
  <1>11. ASSUME Sole(k, s, v, b), Current(d), d.at = k[b].at PROVE Sole(m, s, v, b)
    <2>1. Valid(m, s, v, b)
      BY <1>3, <1>6, <1>11 DEF Sole, Valid
    <2>2. QED
      BY <1>3, <1>8, <1>11, <2>1 DEF Sole
  <1>12. QED
    BY <1>3, <1>4, <1>6, <1>9, <1>10, <1>11

\* The same list is sole as long as the blocks and the data stay.
LEMMA SameBlocks ==
    ASSUME NEW k, NEW s, NEW t, NEW v,
           \A b \in 1 .. Total - 1, f \in Files : Held(k, s, b, f, v[f]) => Held(k, t, b, f, v[f])
    PROVE  /\ \A l : Valid(k, s, v, l) => Valid(k, t, v, l)
           /\ \A l : Sole(k, s, v, l) => Sole(k, t, v, l)
  <1>1. \A l : Names(k, s, v, l) => Names(k, t, v, l)
    BY DEF Names
  <1>2. QED
    BY <1>1 DEF Valid, Sole

-----------------------------------------------------------------------------
(* The entries of the scratch area.                                        *)

\* Those before the first unused one are all those that are used.
LEMMA ListedIs ==
    ASSUME Sound(blk, scr, files)
    PROVE  Listed = Entries \ Vacant(scr) /\ Pending = Copied(scr)
  <1>1. scr \in [Entries -> Entry] /\ DOMAIN scr = Entries
    BY DEF Sound, Types
  <1>2. ScratchEntries \in Nat
    BY Sizes
  <1>3. ASSUME NEW i \in Entries, i \notin Vacant(scr), NEW j \in 1 .. i PROVE scr[j].st # "UNUSED"
    <2>1. j \in Entries /\ (j = i \/ j < i)
      BY <1>2 DEF Entries
    <2>2. j \notin Vacant(scr)
      BY <1>3, <2>1 DEF Sound, InOrder
    <2>3. QED
      BY <2>1, <2>2 DEF Vacant
  <1>4. Listed \subseteq Entries \ Vacant(scr)
    <2>1. \A i \in Entries : i \in 1 .. i
      BY <1>2 DEF Entries
    <2>2. QED
      BY <1>1, <2>1 DEF Listed, Vacant
  <1>5. Entries \ Vacant(scr) \subseteq Listed
    BY <1>1, <1>3 DEF Listed
  <1>6. \A i \in Copied(scr) : i \notin Vacant(scr)
    BY DEF Copied, Vacant
  <1>7. Pending = Copied(scr)
    BY <1>4, <1>5, <1>6 DEF Pending, Copied
  <1>8. QED
    BY <1>4, <1>5, <1>7

\* The entries in use are 1 .. Cardinality(Listed), the next one is the first unused.
LEMMA NextEntry ==
    ASSUME Sound(blk, scr, files)
    PROVE  /\ Cardinality(Listed) \in 0 .. ScratchEntries
           /\ Vacant(scr) = Cardinality(Listed) + 1 .. ScratchEntries
           /\ Cardinality(Vacant(scr)) = ScratchEntries - Cardinality(Listed)
           /\ Capacity = Cardinality(Vacant(scr))
  <1>1. ScratchEntries \in Nat
    BY Sizes
  <1>2. IsFiniteSet(Entries) /\ Cardinality(Entries) = ScratchEntries
    BY <1>1, FS_Interval DEF Entries
  <1>3. \E n \in 1 .. ScratchEntries + 1 : Vacant(scr) = n .. ScratchEntries
    <2>1. CASE Vacant(scr) = {}
      <3>1. ScratchEntries + 1 .. ScratchEntries = {} /\ ScratchEntries + 1 \in 1 .. ScratchEntries + 1
        BY <1>1
      <3>2. QED
        BY <2>1, <3>1
    <2>2. CASE Vacant(scr) # {}
      <3>1. Vacant(scr) \in SUBSET Nat
        BY <1>1 DEF Vacant, Entries
      <3>2. Min(Vacant(scr)) \in Vacant(scr) /\ \A y \in Vacant(scr) : Min(Vacant(scr)) <= y
        BY <2>2, <3>1, MinIsLeast
      <3>3. PICK n \in Vacant(scr) : \A y \in Vacant(scr) : n <= y
        BY <3>2
      <3>4. n \in 1 .. ScratchEntries
        BY <3>3 DEF Vacant, Entries
      <3>5. ASSUME NEW y \in Vacant(scr) PROVE y \in n .. ScratchEntries
        BY <1>1, <3>3, <3>4 DEF Vacant, Entries
      <3>6. ASSUME NEW y \in n .. ScratchEntries PROVE y \in Vacant(scr)
        <4>1. y \in Entries /\ n \in Entries /\ (y = n \/ n < y)
          BY <1>1, <3>4 DEF Entries
        <4>2. QED
          BY <3>3, <4>1 DEF Sound, InOrder
      <3>7. Vacant(scr) = n .. ScratchEntries
        BY <3>5, <3>6
      <3>8. n \in 1 .. ScratchEntries + 1
        BY <1>1, <3>4
      <3>9. QED
        BY <3>7, <3>8
    <2>3. QED
      BY <2>1, <2>2
  <1>4. PICK n \in 1 .. ScratchEntries + 1 : Vacant(scr) = n .. ScratchEntries
    BY <1>3
  <1>5. Listed = 1 .. n - 1
    <2>1. Listed = Entries \ Vacant(scr)
      BY ListedIs
    <2>2. (1 .. ScratchEntries) \ (n .. ScratchEntries) = 1 .. n - 1
      BY <1>1, <1>4
    <2>3. QED
      BY <1>4, <2>1, <2>2 DEF Entries
  <1>6. Cardinality(Listed) = n - 1
    <2>1. 1 \in Int /\ n - 1 \in Int /\ n - 1 >= 0
      BY <1>1, <1>4
    <2>2. Cardinality(1 .. n - 1) = n - 1
      BY <2>1, FS_Interval
    <2>3. QED
      BY <1>5, <2>2
  <1>7. Cardinality(Vacant(scr)) = ScratchEntries - n + 1
    <2>1. n \in Int /\ ScratchEntries \in Int /\ n <= ScratchEntries + 1
      BY <1>1, <1>4
    <2>2. Cardinality(n .. ScratchEntries) = IF n > ScratchEntries THEN 0 ELSE ScratchEntries - n + 1
      BY <2>1, FS_Interval, Zenon
    <2>3. n > ScratchEntries => ScratchEntries - n + 1 = 0
      BY <2>1
    <2>4. Cardinality(n .. ScratchEntries) = ScratchEntries - n + 1
      BY <2>2, <2>3
    <2>5. QED
      BY <1>4, <2>4
  <1>8. QED
    BY <1>1, <1>4, <1>6, <1>7 DEF Capacity

-----------------------------------------------------------------------------
(* What alloc_block() finds, and the order in which a section is saved.    *)

LEMMA SectionEnd ==
    ASSUME NEW h \in Nat, NEW e \in Nat \ {0}, NEW n \in Nat, h < n * e
    PROVE  (h \div e + 1) * e \in Nat \ {0} /\ (h \div e + 1) * e <= n * e
  <1>1. \A i, j \in Nat : /\ i * e \in Nat
                          /\ i <= j => i * e <= j * e
    OBVIOUS
  <1>2. h \div e \in Nat /\ (h \div e) * e <= h
    OBVIOUS
  <1>3. h \div e < n
    <2>1. CASE n <= h \div e
      <3>1. n * e <= (h \div e) * e
        BY <1>1, <1>2, <2>1
      <3>2. QED
        BY <1>1, <1>2, <3>1
    <2>2. QED
      BY <1>2, <2>1
  <1>4. h \div e + 1 \in Nat /\ h \div e + 1 <= n
    BY <1>2, <1>3
  <1>5. (h \div e + 1) * e <= n * e /\ (h \div e + 1) * e \in Nat
    BY <1>1, <1>4
  <1>6. (h \div e + 1) * e = (h \div e) * e + e
    BY <1>2
  <1>7. QED
    BY <1>1, <1>2, <1>5, <1>6

\* A block that is free; none only if there is no free block at all.
LEMMA AllocBlockIs ==
    ASSUME NEW sn, NEW hint \in {NONE} \cup 0 .. Total - 1
    PROVE  \/ AllocBlock(sn, hint) \in 1 .. Total /\ IsFree(AllocBlock(sn, hint)) /\ AllocBlock(sn, hint) # NONE
           \/ AllocBlock(sn, hint) = NONE /\ Anywhere = {}
  <1>1. Total \in Nat \ {0, 1} /\ Sections \in Nat /\ E \in Nat \ {0} /\ Total = Sections * E /\ NONE = -1
    BY Sizes DEF Total, NONE
  <1> DEFINE h == IF hint = NONE THEN NONE ELSE Max({hint, 1})
             first == IF h = NONE THEN 1 ELSE (h \div E + 1) * E
             s1 == IF h = NONE THEN {} ELSE Hinted(h)
             s2 == InSection(first, sn)
  <1>2. h = NONE \/ h \in 1 .. Total - 1
    <2>1. ASSUME hint # NONE PROVE Max({hint, 1}) \in 1 .. Total - 1
      <3>1. hint \in 0 .. Total - 1
        BY <2>1
      <3>2. \E m \in {hint, 1} : \A y \in {hint, 1} : m >= y
        BY <1>1, <3>1
      <3>3. Max({hint, 1}) \in {hint, 1} /\ Max({hint, 1}) >= hint /\ Max({hint, 1}) >= 1
        BY <3>2 DEF Max
      <3>4. QED
        BY <1>1, <3>1, <3>3
    <2>2. QED
      BY <2>1
  <1>3. h # NONE => (h \div E + 1) * E \in Nat \ {0} /\ (h \div E + 1) * E <= Total
    <2>1. h # NONE => h \in Nat /\ h < Sections * E
      BY <1>1, <1>2
    <2>2. QED
      BY <1>1, <2>1, SectionEnd
  <1>4. first \in Nat \ {0}
    BY <1>3
  <1>5. s1 \subseteq 1 .. Total - 1 /\ \A b \in s1 : IsFree(b)
    <2>1. CASE h = NONE
      BY <2>1
    <2>2. CASE h # NONE
      BY <1>1, <1>2, <1>3, <2>2 DEF Hinted
    <2>3. QED
      BY <2>1, <2>2
  <1>6. s2 \subseteq 1 .. Total /\ \A b \in s2 : IsFree(b)
    BY <1>1, <1>4 DEF InSection
  <1>7. Anywhere \subseteq 1 .. Total - 1 /\ \A b \in Anywhere : IsFree(b)
    BY DEF Anywhere
  <1> HIDE DEF s2, s1, first
  <1>8. \A S \in SUBSET (1 .. Total) : S # {} => Min(S) \in S
    BY <1>1, MinIsLeast
  <1>9. s1 \in SUBSET (1 .. Total) /\ s2 \in SUBSET (1 .. Total) /\ Anywhere \in SUBSET (1 .. Total)
    BY <1>1, <1>5, <1>6, <1>7
  <1>10. /\ s1 # {} => Min(s1) \in 1 .. Total /\ IsFree(Min(s1))
         /\ s2 # {} => Min(s2) \in 1 .. Total /\ IsFree(Min(s2))
         /\ Anywhere # {} => Min(Anywhere) \in 1 .. Total /\ IsFree(Min(Anywhere))
    BY <1>5, <1>6, <1>7, <1>8, <1>9
  <1>11. AllocBlock(sn, hint) = CASE s1 # {} -> Min(s1)
                                  [] s1 = {} /\ s2 # {} -> Min(s2)
                                  [] s1 = {} /\ s2 = {} /\ Anywhere # {} -> Min(Anywhere)
                                  [] OTHER -> NONE
    BY Zenon DEF AllocBlock, s1, s2, first
  <1>12. /\ s1 # {} => AllocBlock(sn, hint) = Min(s1)
         /\ s1 = {} /\ s2 # {} => AllocBlock(sn, hint) = Min(s2)
         /\ s1 = {} /\ s2 = {} /\ Anywhere # {} => AllocBlock(sn, hint) = Min(Anywhere)
         /\ s1 = {} /\ s2 = {} /\ Anywhere = {} => AllocBlock(sn, hint) = NONE
    BY <1>11
  <1>13. \A b \in 1 .. Total : b # NONE
    BY <1>1
  <1>14. QED
    BY <1>10, <1>12, <1>13

\* Every block of the set, in some order.
LEMMA AscendingIs ==
    ASSUME NEW S \in SUBSET (1 .. Total - 1)
    PROVE  /\ Cardinality(S) \in Nat
           /\ Ascending(S) \in Blocks /\ Len(Ascending(S)) = Cardinality(S)
           /\ DOMAIN Ascending(S) = 1 .. Cardinality(S)
           /\ \A i \in DOMAIN Ascending(S) : Ascending(S)[i] \in S
           /\ \A b \in S : \E i \in DOMAIN Ascending(S) : Ascending(S)[i] = b
  <1> DEFINE n == Cardinality(S)
             f == [s \in S |-> Cardinality(UpTo(S, s))]
  <1>0. Total - 1 \in Nat /\ \A s \in S : s \in Nat
    BY Sizes
  <1>1. IsFiniteSet(S) /\ n \in Nat /\ IsFiniteSet(1 .. n) /\ Cardinality(1 .. n) = n
    <2>1. IsFiniteSet(1 .. Total - 1)
      BY <1>0, FS_Interval
    <2>2. IsFiniteSet(S) /\ n \in Nat
      BY <2>1, FS_Subset, FS_CardinalityType
    <2>3. QED
      BY <2>2, FS_Interval
  <1>2. ASSUME NEW s \in S
        PROVE  UpTo(S, s) \in SUBSET S /\ Cardinality(UpTo(S, s)) \in 1 .. n
    <2>1. UpTo(S, s) \in SUBSET S /\ s \in UpTo(S, s)
      BY <1>0 DEF UpTo
    <2>2. IsFiniteSet(UpTo(S, s)) /\ Cardinality(UpTo(S, s)) <= n
      BY <1>1, <2>1, FS_Subset
    <2>3. Cardinality(UpTo(S, s)) \in Nat /\ Cardinality(UpTo(S, s)) # 0
      BY <2>1, <2>2, FS_CardinalityType, FS_EmptySet
    <2>4. QED
      BY <1>1, <2>1, <2>2, <2>3
  <1>3. ASSUME NEW s \in S, NEW r \in S, s < r PROVE Cardinality(UpTo(S, s)) # Cardinality(UpTo(S, r))
    <2>1. UpTo(S, s) \in SUBSET UpTo(S, r) /\ r \in UpTo(S, r) /\ r \notin UpTo(S, s)
      <3>1. s \in Nat /\ r \in Nat /\ s < r
        BY <1>0, <1>3
      <3>2. \A c \in S : c \in Nat /\ (c <= s => c <= r)
        BY <1>0, <3>1
      <3>3. r <= r /\ ~(r <= s)
        BY <3>1
      <3>4. QED
        BY <3>2, <3>3 DEF UpTo
    <2>2. IsFiniteSet(UpTo(S, r))
      BY <1>1, <1>2, FS_Subset
    <2>3. QED
      BY <2>1, <2>2, FS_Subset
  <1>4. f \in Injection(S, 1 .. n)
    <2>1. \A s, r \in S : s = r \/ s < r \/ r < s
      BY <1>0
    <2>2. \A s, r \in S : f[s] = f[r] => s = r
      BY <1>3, <2>1
    <2>3. f \in [S -> 1 .. n]
      BY <1>2
    <2>4. QED
      BY <2>2, <2>3 DEF Injection, IsInjective
  <1>5. f \in Surjection(S, 1 .. n)
    BY <1>1, <1>4, FS_Injection
  <1>6. \A i \in 1 .. n : \E s \in S : Cardinality(UpTo(S, s)) = i
    BY <1>5 DEF Surjection
  <1>7. ASSUME NEW i \in 1 .. n
        PROVE  Ascending(S)[i] \in S /\ Cardinality(UpTo(S, Ascending(S)[i])) = i
    <2>1. Ascending(S)[i] = CHOOSE b \in S : Cardinality(UpTo(S, b)) = i
      BY DEF Ascending
    <2>2. \E s \in S : Cardinality(UpTo(S, s)) = i
      BY <1>6
    <2>3. QED
      BY <2>1, <2>2, Zenon
  <1>8. DOMAIN Ascending(S) = 1 .. n
    BY DEF Ascending
  <1>9. ASSUME NEW b \in S PROVE \E i \in 1 .. n : Ascending(S)[i] = b
    <2>1. f[b] \in 1 .. n
      BY <1>2
    <2>2. Ascending(S)[f[b]] \in S /\ f[Ascending(S)[f[b]]] = f[b]
      BY <1>7, <2>1
    <2>3. QED
      BY <1>4, <2>1, <2>2 DEF Injection, IsInjective
  <1>10. Ascending(S) \in [1 .. n -> 1 .. Total - 1]
    BY <1>7 DEF Ascending
  <1>11. Ascending(S) \in Blocks /\ Len(Ascending(S)) = n
    <2> DEFINE T == 1 .. Total - 1
    <2>1. Ascending(S) \in [1 .. n -> T] /\ n \in Nat
      BY <1>1, <1>10
    <2> HIDE DEF T, n
    <2>2. Ascending(S) \in Seq(T) /\ Len(Ascending(S)) = n
      BY <2>1
    <2>3. QED
      BY <2>2 DEF Blocks, T
  <1>12. QED
    BY <1>1, <1>7, <1>8, <1>9, <1>11

-----------------------------------------------------------------------------
(* A call that fails.                                                      *)

\* K ends with what a mount goes on with.
IsClean(x) == x[1] = "clean"
Ends(K) ==
    /\ K \in Steps
    /\ \E i \in 1 .. Len(K) :
          /\ IsClean(K[i]) /\ \A j \in 1 .. i - 1 : ~IsClean(K[j])
          /\ SubSeq(K, i, Len(K)) = Cleaning

LEMMA EndsConcat ==
    ASSUME NEW K, Ends(K), NEW p \in Steps, \A j \in 1 .. Len(p) : ~IsClean(p[j])
    PROVE  Ends(p \o K)
  <1> DEFINE n == Len(p)
             m == Len(K)
             q == p \o K
  <1>1. p \in Seq(Step) /\ K \in Seq(Step) /\ n \in Nat /\ m \in Nat
    BY DEF Ends, Steps
  <1>2. /\ q \in Seq(Step) /\ Len(q) = n + m
        /\ \A j \in 1 .. n : q[j] = p[j]
        /\ \A j \in 1 .. m : q[n + j] = K[j]
    BY <1>1
  <1>3. PICK i \in 1 .. m :
            /\ IsClean(K[i]) /\ \A j \in 1 .. i - 1 : ~IsClean(K[j])
            /\ SubSeq(K, i, m) = Cleaning
    BY DEF Ends
  <1> HIDE DEF n, m, q
  <1>4. n + i \in 1 .. Len(q) /\ q[n + i] = K[i]
    BY <1>1, <1>2
  <1>5. ASSUME NEW j \in 1 .. (n + i) - 1 PROVE ~IsClean(q[j])
    <2>1. CASE j <= n
      <3>1. j \in 1 .. n
        BY <1>1, <2>1
      <3>2. q[j] = p[j] /\ ~IsClean(p[j])
        BY <1>2, <3>1 DEF n
      <3>3. QED
        BY <3>2
    <2>2. CASE ~(j <= n)
      <3>1. j - n \in 1 .. i - 1 /\ j - n \in 1 .. m /\ n + (j - n) = j
        BY <1>1, <2>2
      <3>2. q[n + (j - n)] = K[j - n] /\ ~IsClean(K[j - n])
        BY <1>2, <1>3, <3>1
      <3>3. QED
        BY <3>1, <3>2
    <2>3. QED
      BY <2>1, <2>2
  <1>6. SubSeq(q, n + i, n + m) = SubSeq(K, i, m)
    <2>1. SubSeq(K, i, m) = [j \in 1 .. m - i + 1 |-> K[i + j - 1]]
      BY <1>1
    <2>2. SubSeq(q, n + i, n + m) = [j \in 1 .. m - i + 1 |-> q[n + i + j - 1]]
      BY <1>1, <1>2, SMTT(30)
    <2>3. ASSUME NEW j \in 1 .. m - i + 1 PROVE q[n + i + j - 1] = K[i + j - 1]
      <3>1. i + j - 1 \in 1 .. m /\ n + (i + j - 1) = n + i + j - 1
        BY <1>1
      <3>2. q[n + (i + j - 1)] = K[i + j - 1]
        BY <1>2, <3>1
      <3>3. QED
        BY <3>1, <3>2
    <2>4. QED
      BY <2>1, <2>2, <2>3
  <1>7. QED
    <2>1. q \in Steps /\ Len(q) = n + m
      BY <1>2 DEF Steps
    <2>2. SubSeq(q, n + i, Len(q)) = Cleaning /\ IsClean(q[n + i])
      BY <1>3, <1>4, <1>6, <2>1
    <2>3. \E j \in 1 .. Len(q) :
              /\ IsClean(q[j]) /\ \A l \in 1 .. j - 1 : ~IsClean(q[l])
              /\ SubSeq(q, j, Len(q)) = Cleaning
      <3> DEFINE e == n + i
      <3>1. e \in 1 .. Len(q) /\ IsClean(q[e]) /\ SubSeq(q, e, Len(q)) = Cleaning
        BY <1>4, <2>2
      <3>2. ASSUME NEW l \in 1 .. e - 1 PROVE ~IsClean(q[l])
        BY <1>5, Zenon
      <3> HIDE DEF e
      <3>3. QED
        BY <3>1, <3>2
    <2>4. QED
      BY <2>1, <2>3 DEF Ends, q

LEMMA EndsCons ==
    ASSUME NEW K, Ends(K), NEW x \in Step, ~IsClean(x)
    PROVE  Ends(Cons(x, K))
  <1>1. <<x>> \in Steps /\ Len(<<x>>) = 1 /\ <<x>>[1] = x
    BY DEF Steps
  <1>2. Ends(<<x>> \o K)
    BY <1>1, EndsConcat
  <1>3. QED
    BY <1>2 DEF Cons

\* The steps of a mount before the cleaning end so.
LEMMA Endings ==
    /\ Ends(Cleaning) /\ Ends(Mounting)
    /\ \A A : IsAlloc(A, 0) => Ends(A)
    /\ \A R, n : n \in Nat /\ IsReturn(R, 0, n) => Ends(R)
    /\ \A b, h, p \in Int : Ends(Cons(<<"mark", b, 0, h, p>>, Mounting))
    /\ \A R, B, x : Ends(R) /\ B \in Blocks /\ x \in Nat => Ends(Saving(B, x, R))
  <1>1. Ends(Cleaning)
    <2>1. <<"clean">> \in Step
      BY StepIs DEF Word
    <2>2. Cleaning \in Steps /\ Cleaning # <<>> /\ Head(Cleaning) = <<"clean">>
      BY <2>1, Shapes, ConsIs DEF Cleaning
    <2>3. Cleaning[1] = <<"clean">> /\ Len(Cleaning) \in Nat \ {0}
      BY <2>2 DEF Steps
    <2>4. SubSeq(Cleaning, 1, Len(Cleaning)) = Cleaning
      BY <2>2 DEF Steps
    <2>5. 1 \in 1 .. Len(Cleaning) /\ 1 .. 1 - 1 = {} /\ IsClean(<<"clean">>)
      BY <2>3 DEF IsClean
    <2>6. QED
      BY <2>2, <2>3, <2>4, <2>5 DEF Ends
  <1>2. /\ \A w \in Word : w # "clean" => <<w>> \in Step /\ ~IsClean(<<w>>)
        /\ \A w \in Word, i \in Int : w # "clean" => <<w, i>> \in Step /\ ~IsClean(<<w, i>>)
        /\ \A w \in Word, i, j \in Int : w # "clean" => <<w, i, j>> \in Step /\ ~IsClean(<<w, i, j>>)
        /\ \A w \in Word, i, j, l \in Int : w # "clean" => <<w, i, j, l>> \in Step /\ ~IsClean(<<w, i, j, l>>)
        /\ \A w \in Word, i, j, l, m \in Int :
               w # "clean" => <<w, i, j, l, m>> \in Step /\ ~IsClean(<<w, i, j, l, m>>)
    BY StepIs DEF IsClean
  <1>3. Ends(Mounting)
    <2>1. \A w \in {"switch", "discard", "close", "discarding", "copy"} : <<w>> \in Step /\ ~IsClean(<<w>>)
      BY <1>2 DEF Word
    <2>2. Ends(Switching) /\ Ends(Dropping)
      BY <1>1, <2>1, EndsCons DEF Switching, Dropping
    <2>3. Ends(Closing) /\ Ends(Discarding)
      BY <2>1, <2>2, EndsCons DEF Closing, Discarding
    <2>4. QED
      BY <2>1, <2>3, EndsCons DEF Mounting
  <1>4. After(0) = Mounting /\ 0 \in Serials
    BY DEF After, Serials
  <1>5. ASSUME NEW A, IsAlloc(A, 0) PROVE Ends(A)
    <2>1. PICK h \in {NONE} \cup 0 .. Total - 1, p \in 0 .. Len(Limit) : A = Cons(<<"alloc", 0, h, p>>, Mounting)
      BY <1>4, <1>5 DEF IsAlloc
    <2>2. h \in Int /\ p \in Int
      BY Sizes
    <2>3. <<"alloc", 0, h, p>> \in Step /\ ~IsClean(<<"alloc", 0, h, p>>)
      <3>1. "alloc" \in Word /\ "alloc" # "clean" /\ 0 \in Int
        BY DEF Word
      <3>2. QED
        BY <1>2, <2>2, <3>1, Zenon
    <2>4. QED
      BY <1>3, <2>1, <2>3, EndsCons
  <1>6. ASSUME NEW R, NEW n, n \in Nat, IsReturn(R, 0, n) PROVE Ends(R)
    <2>1. PICK A \in Steps, q \in 1 .. Len(Limit), s \in Nat :
              IsAlloc(A, 0) /\ R = Cons(<<"restore", n>>, Cons(<<"sweep", q, s>>, A))
      BY <1>6 DEF IsReturn
    <2>2. /\ <<"sweep", q, s>> \in Step /\ ~IsClean(<<"sweep", q, s>>)
          /\ <<"restore", n>> \in Step /\ ~IsClean(<<"restore", n>>)
      <3>1. q \in Int /\ s \in Int /\ n \in Int
        BY <1>6, Sizes
      <3>2. <<"sweep", q, s>> \in Step /\ ~IsClean(<<"sweep", q, s>>)
        BY <1>2, <3>1 DEF Word
      <3>3. <<"restore", n>> \in Step /\ ~IsClean(<<"restore", n>>)
        BY <1>2, <3>1 DEF Word
      <3>4. QED
        BY <3>2, <3>3
    <2>3. Ends(Cons(<<"sweep", q, s>>, A))
      BY <1>5, <2>1, <2>2, EndsCons
    <2>4. QED
      BY <2>1, <2>2, <2>3, EndsCons
  <1>7. ASSUME NEW b \in Int, NEW h \in Int, NEW p \in Int
        PROVE  Ends(Cons(<<"mark", b, 0, h, p>>, Mounting))
    <2>1. <<"mark", b, 0, h, p>> \in Step /\ ~IsClean(<<"mark", b, 0, h, p>>)
      <3>1. "mark" \in Word /\ "mark" # "clean" /\ 0 \in Int
        BY DEF Word
      <3>2. QED
        BY <1>2, <1>7, <3>1, Zenon
    <2>2. QED
      BY <1>3, <2>1, EndsCons
  <1>8. ASSUME NEW R, NEW B, NEW x, Ends(R), B \in Blocks, x \in Nat PROVE Ends(Saving(B, x, R))
    <2>1. <<"erase", x>> \in Step /\ ~IsClean(<<"erase", x>>)
      BY <1>2, <1>8 DEF Word
    <2>2. Ends(Cons(<<"erase", x>>, R))
      BY <1>8, <2>1, EndsCons
    <2>3. ASSUME NEW i \in 1 .. Len(B) PROVE <<"save", B[i]>> \in Step /\ ~IsClean(<<"save", B[i]>>)
      <3> DEFINE T == 1 .. Total - 1
      <3>1. B \in Seq(T)
        BY <1>8 DEF Blocks
      <3>2. \A b \in T : b \in Int
        BY Sizes
      <3> HIDE DEF T
      <3>3. B[i] \in Int
        BY <3>1, <3>2
      <3>4. QED
        BY <1>2, <3>3 DEF Word
    <2>4. Len(B) \in Nat
      BY <1>8 DEF Blocks
    <2>5. Saves(B) \in Steps /\ Len(Saves(B)) = Len(B) /\ \A i \in 1 .. Len(B) : ~IsClean(Saves(B)[i])
      BY <2>3, <2>4 DEF Saves, Steps
    <2>6. QED
      BY <2>2, <2>5, EndsConcat DEF Saving
  <1>9. QED
    BY <1>1, <1>3, <1>5, <1>6, <1>7, <1>8

\* A client's call ends; a mount goes on without a new list.
LEMMA FailIs ==
    ASSUME Fail
    PROVE  /\ mode = "up" => todo' = <<>> /\ mode' = "up"
           /\ mode = "boot" /\ Ends(todo) => todo' = Cleaning /\ mode' = "boot"
  <1> DEFINE rest == {i \in DOMAIN todo : todo[i][1] = "clean"}
  <1>1. mode = "up" => todo' = <<>> /\ mode' = "up"
    BY DEF Fail
  <1>2. ASSUME mode = "boot", Ends(todo) PROVE todo' = Cleaning /\ mode' = "boot"
    <2>1. DOMAIN todo = 1 .. Len(todo) /\ Len(todo) \in Nat
      BY <1>2 DEF Ends, Steps
    <2>2. PICK i \in 1 .. Len(todo) :
              /\ IsClean(todo[i]) /\ \A j \in 1 .. i - 1 : ~IsClean(todo[j])
              /\ SubSeq(todo, i, Len(todo)) = Cleaning
      BY <1>2 DEF Ends
    <2>3. i \in rest /\ \A j \in rest : i <= j /\ j \in Nat
      BY <2>1, <2>2 DEF IsClean
    <2>4. rest \in SUBSET Nat /\ rest # {}
      BY <2>3
    <2>5. Min(rest) \in rest /\ \A y \in rest : Min(rest) <= y
      BY <2>4, MinIsLeast
    <2>6. Min(rest) = i
      <3>1. Min(rest) <= i /\ i <= Min(rest) /\ Min(rest) \in Nat /\ i \in Nat
        BY <2>1, <2>3, <2>5
      <3>2. QED
        BY <3>1
    <2>7. todo' = SubSeq(todo, Min(rest), Len(todo)) /\ mode' = mode
      BY <1>2, <2>4 DEF Fail
    <2>8. QED
      BY <1>2, <2>2, <2>6, <2>7
  <1>3. QED
    BY <1>1, <1>2

\* A client's call and a mount, as they are written.
LEMMA Calls ==
    /\ \A x, y, z \in Step : <<x, y, z>> = Cons(x, Cons(y, Cons(z, <<>>)))
    /\ <<>> \in Steps /\ \A x \in Step, K \in Steps : Cons(x, K) \in Steps
  <1>1. ASSUME NEW x \in Step, NEW y \in Step, NEW z \in Step
        PROVE  <<x, y, z>> = Cons(x, Cons(y, Cons(z, <<>>)))
    <2>1. <<x, y, z>> \in Seq(Step) /\ Len(<<x, y, z>>) = 3
      OBVIOUS
    <2>2. Cons(z, <<>>) \in Seq(Step) /\ Len(Cons(z, <<>>)) = 1 /\ Cons(z, <<>>)[1] = z
      BY DEF Cons
    <2>3. \A K \in Seq(Step), w \in Step :
              /\ Cons(w, K) \in Seq(Step) /\ Len(Cons(w, K)) = Len(K) + 1 /\ Cons(w, K)[1] = w
              /\ \A i \in 2 .. Len(K) + 1 : Cons(w, K)[i] = K[i - 1]
      BY DEF Cons
    <2> DEFINE a == Cons(z, <<>>)
               b == Cons(y, a)
               c == Cons(x, b)
    <2> HIDE DEF a, b, c
    <2>4. b \in Seq(Step) /\ Len(b) = 2 /\ b[1] = y /\ b[2] = z
      <3>1. a \in Seq(Step) /\ Len(a) = 1 /\ a[1] = z
        BY <2>2 DEF a
      <3>2. /\ b \in Seq(Step) /\ Len(b) = Len(a) + 1 /\ b[1] = y
            /\ \A i \in 2 .. Len(a) + 1 : b[i] = a[i - 1]
        BY <2>3, <3>1, Zenon DEF b
      <3>3. b[2] = a[2 - 1]
        BY <3>1, <3>2
      <3>4. QED
        BY <3>1, <3>2, <3>3
    <2>5. c \in Seq(Step) /\ Len(c) = 3 /\ c[1] = x /\ c[2] = y /\ c[3] = z
      <3>1. /\ c \in Seq(Step) /\ Len(c) = Len(b) + 1 /\ c[1] = x
            /\ \A i \in 2 .. Len(b) + 1 : c[i] = b[i - 1]
        BY <2>3, <2>4, Zenon DEF c
      <3>2. c[2] = b[2 - 1] /\ c[3] = b[3 - 1]
        BY <2>4, <3>1
      <3>3. QED
        BY <2>4, <3>1, <3>2
    <2>6. \A i \in 1 .. 3 : c[i] = <<x, y, z>>[i]
      BY <2>5
    <2>7. c = <<x, y, z>>
      BY <2>1, <2>5, <2>6, SeqEqual
    <2>8. QED
      BY <2>7 DEF a, b, c
  <1>2. <<>> \in Steps
    BY DEF Steps
  <1>3. QED
    BY <1>1, <1>2, ConsIs

-----------------------------------------------------------------------------
(* The steps.                                                              *)

Here == Sound(blk, scr, files) /\ Place

\* Steps that change neither the blocks nor the scratch area nor the list in use.
LEMMA StayListing ==
    ASSUME blk' = blk, scr' = scr, files' = files, cur' = cur
    PROVE  /\ Sound(blk, scr, files) => Sound(blk, scr, files)'
           /\ Listing => Listing'
           /\ Copied(scr') = Copied(scr) /\ Vacant(scr') = Vacant(scr)
           /\ \A sn \in Serials : mode' = mode => /\ Calling(sn) => Calling(sn)'
                                                  /\ Settled(sn) => Settled(sn)'
  BY DEF Listing, Calling, Settled

\* cl_block_alloc(): a block is found, or a sweep is begun, or the call fails.
LEMMA AllocStep ==
    ASSUME Here, Alloc
    PROVE  Here'
  <1> DEFINE sn0 == Head(todo)[2]
             hint == Head(todo)[3]
             pass == Head(todo)[4]
             b == AllocBlock(sn0, hint)
             more == {p \in pass + 1 .. Len(Limit) : Sweepable(p, 0) # {}}
  <1>1. /\ Busy("alloc") /\ blk' = blk /\ scr' = scr /\ files' = files /\ cur' = cur
        /\ \/ b # NONE /\ todo' = <<<<"mark", b, sn0, hint, pass>>>> \o Tail(todo) /\ mode' = mode
           \/ /\ b = NONE /\ more # {} /\ mode' = mode
              /\ todo' = <<<<"sweep", Min(more), 0>>, <<"alloc", sn0, hint, Min(more)>>>> \o Tail(todo)
           \/ b = NONE /\ Fail
    BY DEF Alloc, flash, KeepButMode, Then
  <1>2. AtAlloc /\ Sound(blk, scr, files)
    BY <1>1, Places DEF Here
  <1>3. PICK sn \in Serials : Settled(sn) /\ IsAlloc(todo, sn)
    BY <1>2 DEF AtAlloc
  <1>4. /\ todo \in Steps /\ Tail(todo) = After(sn) /\ sn0 = sn
        /\ hint \in {NONE} \cup 0 .. Total - 1 /\ pass \in 0 .. 5
    BY <1>3, AllocShape
  <1>5. sn \in Int /\ After(sn) \in Steps /\ Total \in Nat \ {0, 1} /\ Len(Limit) = 5 /\ NONE \in Int
    BY Shapes, Sizes
  <1>6. \/ b \in 1 .. Total /\ IsFree(b) /\ b # NONE
        \/ b = NONE /\ Anywhere = {}
    BY <1>4, AllocBlockIs
  <1>7. Sound(blk, scr, files)' /\ (mode' = mode => Settled(sn)')
    BY <1>1, <1>2, <1>3, StayListing
  <1> HIDE DEF b, more
  <1>8. CASE b # NONE /\ todo' = <<<<"mark", b, sn0, hint, pass>>>> \o Tail(todo) /\ mode' = mode
    <2>1. b \in 1 .. Total /\ b \in Int /\ IsFree(b)
      BY <1>5, <1>6, <1>8
    <2>2. <<"mark", b, sn, hint, pass>> \in Step
      <3>1. hint \in Int /\ pass \in Int
        BY <1>4, <1>5
      <3>2. QED
        BY <1>5, <2>1, <3>1, StepIs DEF Word
    <2>3. todo' = MarkOf(b, sn, hint, pass)
      <3>1. todo' = <<<<"mark", b, sn, hint, pass>>>> \o After(sn)
        BY <1>4, <1>8
      <3>2. QED
        BY <1>5, <2>2, <3>1, ConsMore, Zenon DEF MarkOf
    <2>4. b < Total => blk'[b].st = "FREE"
      BY <1>1, <2>1 DEF IsFree, StatusOf
    <2>5. AtMark'
      BY <1>4, <1>7, <1>8, <2>1, <2>3, <2>4 DEF AtMark
    <2>6. QED
      BY <1>7, <2>5 DEF Here, Place
  <1>9. CASE /\ b = NONE /\ more # {} /\ mode' = mode
             /\ todo' = <<<<"sweep", Min(more), 0>>, <<"alloc", sn0, hint, Min(more)>>>> \o Tail(todo)
    <2>1. Min(more) \in 1 .. 5
      <3>1. more \subseteq 1 .. 5
        BY <1>4, <1>5 DEF more
      <3>2. more \in SUBSET Nat
        BY <3>1
      <3>3. QED
        BY <1>9, <3>1, <3>2, MinIsLeast
    <2> DEFINE q == Min(more)
               A == Cons(<<"alloc", sn, hint, q>>, After(sn))
    <2> HIDE DEF q
    <2>2. q \in 1 .. Len(Limit) /\ q \in 0 .. Len(Limit) /\ q \in Int /\ hint \in Int /\ 0 \in Nat
      BY <1>4, <1>5, <2>1 DEF q
    <2>3. <<"sweep", q, 0>> \in Step /\ <<"alloc", sn, hint, q>> \in Step
      <3>1. "sweep" \in Word /\ "alloc" \in Word /\ q \in Int /\ 0 \in Int /\ sn \in Int
        BY <1>5, <2>2 DEF Word
      <3>2. QED
        BY <2>2, <3>1, StepIs, Zenon
    <2>4. todo' = Cons(<<"sweep", q, 0>>, A)
      <3>1. todo' = <<<<"sweep", q, 0>>, <<"alloc", sn, hint, q>>>> \o After(sn)
        BY <1>4, <1>9 DEF q
      <3>2. QED
        BY <1>5, <2>3, <3>1, ConsMore, Zenon
    <2>5. A \in Steps
      BY <1>5, <2>3, ConsIs
    <2>6. IsAlloc(A, sn)
      BY <1>4, <2>2 DEF IsAlloc
    <2>7. Redundant(blk, scr)
      <3>1. \A c \in 1 .. Total - 1 : blk[c].st # "FREE"
        BY <1>5, <1>6, <1>9 DEF Anywhere, IsFree, StatusOf
      <3>2. QED
        BY <1>2, <3>1, BlankIs DEF Redundant, Sound, Restorable
    <2> HIDE DEF A
    <2>8. AtSweep'
      BY <1>1, <1>7, <1>9, <2>2, <2>4, <2>5, <2>6, <2>7 DEF AtSweep
    <2>9. QED
      BY <1>7, <2>8 DEF Here, Place
  <1>10. CASE Fail
    <2>1. CASE sn # 0
      <3>1. mode = "up" /\ Listing /\ Copied(scr) = {}
        BY <1>3, <2>1 DEF Settled, Calling
      <3>2. AtRest'
        BY <1>1, <1>10, <3>1, FailIs, StayListing DEF AtRest
      <3>3. QED
        BY <1>7, <3>2 DEF Here, Place
    <2>2. CASE sn = 0
      <3>1. mode = "boot" /\ Listing /\ Ends(todo)
        BY <1>3, <2>2, Endings DEF Settled, Calling
      <3>2. AtClean'
        BY <1>1, <1>10, <3>1, FailIs, StayListing DEF AtClean
      <3>3. QED
        BY <1>7, <3>2 DEF Here, Place
    <2>3. QED
      BY <2>1, <2>2
  <1>11. QED
    BY <1>1, <1>8, <1>9, <1>10

\* When only the entries of the scratch area change, and what is held stays held.
LEMMA ScratchListing ==
    ASSUME blk' = blk, files' = files, cur' = cur,
           \A b \in 1 .. Total - 1, f \in Files :
              Held(blk, scr, b, f, files[f]) => Held(blk, scr', b, f, files[f])
    PROVE  /\ Listing => Listing'
           /\ \A sn \in Serials : mode' = mode /\ Calling(sn) => Calling(sn)'
           /\ \A x : Erasable(x) => Erasable(x)'
           /\ \A x : Written(x)' = Written(x)
  <1>1. \A l : Sole(blk, scr, files, l) => Sole(blk, scr', files, l)
    BY SameBlocks
  <1>2. Listing => Listing'
    BY <1>1 DEF Listing
  <1>3. QED
    BY <1>2 DEF Calling, Erasable, Written

\* mark_allocated(), of a block that nothing waits for.
LEMMA MarkStep ==
    ASSUME Here, Mark, spoilt' = {}
    PROVE  Here'
  <1> DEFINE b0 == Head(todo)[2]
             sn0 == Head(todo)[3]
             hint == Head(todo)[4]
             pass == Head(todo)[5]
  <1>1. /\ Busy("mark") /\ files' = files /\ cur' = cur
        /\ \/ /\ blk' = blk /\ b0 = Total /\ scr[1].st = "STRUCK" /\ sn0 # 0
              /\ scr' = [scr EXCEPT ![1].st = "STRUCK", ![2].st = "STRUCK"]
              /\ IF pass < Len(Limit)
                 THEN /\ todo' = <<<<"sweep", pass + 1, 0>>, <<"alloc", sn0, hint, pass + 1>>>> \o Tail(todo)
                      /\ mode' = mode
                 ELSE Fail
           \/ /\ blk' = [blk EXCEPT ![b0] = [Blank EXCEPT !.st = "OPEN", !.sn = sn0]]
              /\ b0 # Total /\ ~ \E i \in Pending : scr[i].orig = b0
              /\ scr' = scr /\ got' = b0 /\ todo' = <<>> \o Tail(todo) /\ mode' = mode
    <2>1. PICK ok \in Marked(b0, sn0) :
              /\ IF ok
                 THEN /\ blk' = [blk EXCEPT ![b0] = [Blank EXCEPT !.st = "OPEN", !.sn = sn0]]
                      /\ got' = b0 /\ todo' = <<>> \o Tail(todo) /\ mode' = mode
                 ELSE /\ IF pass < Len(Limit)
                         THEN /\ todo' = <<<<"sweep", pass + 1, 0>>, <<"alloc", sn0, hint, pass + 1>>>> \o Tail(todo)
                              /\ mode' = mode
                         ELSE Fail
                      /\ blk' = blk
              /\ spoilt' = spoilt
                    \cup (IF b0 = Total /\ (ok \/ scr[1].st # "STRUCK") THEN {"stray"} ELSE {})
                    \cup (IF \E i \in Pending : scr[i].orig = b0 THEN {"clash"} ELSE {})
      BY DEF Mark, Then
    <2>2. /\ ~(b0 = Total /\ (ok \/ scr[1].st # "STRUCK"))
          /\ ~ \E i \in Pending : scr[i].orig = b0
      BY <2>1
    <2>3. Busy("mark") /\ files' = files /\ cur' = cur
      BY DEF Mark
    <2>4. scr' = IF b0 = Total THEN [scr EXCEPT ![1].st = "STRUCK", ![2].st = "STRUCK"] ELSE scr
      BY DEF Mark
    <2>5. CASE ok
      BY <2>1, <2>2, <2>3, <2>4, <2>5
    <2>6. CASE ~ok
      <3>1. b0 = Total /\ scr[1].st # "UNUSED" /\ sn0 # 0
        BY <2>1, <2>6 DEF Marked
      <3>2. QED
        BY <2>1, <2>2, <2>3, <2>4, <2>6, <3>1
    <2>7. QED
      BY <2>5, <2>6
  <1>2. AtMark /\ Sound(blk, scr, files)
    BY <1>1, Places DEF Here
  <1>3. PICK sn \in Serials, b \in 1 .. Total, h \in {NONE} \cup 0 .. Total - 1, p \in 0 .. 5 :
            /\ Settled(sn) /\ todo = MarkOf(b, sn, h, p)
            /\ b < Total => blk[b].st = "FREE"
    BY <1>2 DEF AtMark
  <1>4. /\ sn \in Int /\ After(sn) \in Steps /\ Total \in Nat \ {0, 1} /\ b \in Int
        /\ h \in Int /\ p \in Int /\ Len(Limit) = 5
    BY Shapes, Sizes
  <1>5. /\ todo \in Steps /\ Tail(todo) = After(sn) /\ b0 = b /\ sn0 = sn
        /\ hint = h /\ pass = p
    <2>1. <<"mark", b, sn, h, p>> \in Step
      BY <1>4, StepIs DEF Word
    <2>2. todo \in Steps /\ Tail(todo) = After(sn) /\ Head(todo) = <<"mark", b, sn, h, p>>
      BY <1>3, <1>4, <2>1, ConsIs DEF MarkOf
    <2>3. QED
      BY <2>2
  <1> HIDE DEF b0, sn0, hint, pass
  <1>6. /\ Listing
        /\ sn # 0 => mode = "up" /\ Copied(scr) = {}
        /\ sn = 0 => mode = "boot"
    BY <1>3, <1>4 DEF Settled, Calling
  <1>7. CASE /\ blk' = blk /\ b0 = Total /\ scr[1].st = "STRUCK" /\ sn0 # 0
             /\ scr' = [scr EXCEPT ![1].st = "STRUCK", ![2].st = "STRUCK"]
             /\ IF pass < Len(Limit)
                THEN /\ todo' = <<<<"sweep", pass + 1, 0>>, <<"alloc", sn0, hint, pass + 1>>>> \o Tail(todo)
                     /\ mode' = mode
                ELSE Fail
    <2>1. sn # 0 /\ mode = "up" /\ Copied(scr) = {}
      BY <1>5, <1>6, <1>7
    <2>2. /\ scr' \in [Entries -> Entry]
          /\ \A i \in Entries : scr'[i].data = scr[i].data /\ (scr'[i] = scr[i] \/ scr'[i].st = "STRUCK")
          /\ \A i \in Entries : i \in {1, 2} => scr'[i].st = "STRUCK"
          /\ \A i \in Entries : i \notin {1, 2} => scr'[i] = scr[i]
      <3>1. 1 \in Entries /\ 2 \in Entries
        BY FlashAssumption DEF Entries
      <3>2. scr \in [Entries -> Entry]
        BY <1>2 DEF Sound, Types
      <3>3. PICK e1 \in Entry : e1 = [scr[1] EXCEPT !.st = "STRUCK"]
        BY <3>1, <3>2 DEF Entry
      <3>4. PICK e2 \in Entry : e2 = [scr[2] EXCEPT !.st = "STRUCK"]
        BY <3>1, <3>2 DEF Entry
      <3>5. e1.st = "STRUCK" /\ e1.data = scr[1].data /\ e2.st = "STRUCK" /\ e2.data = scr[2].data
        BY <3>1, <3>2, <3>3, <3>4 DEF Entry
      <3>6. scr' = [i \in Entries |-> IF i = 1 THEN e1 ELSE IF i = 2 THEN e2 ELSE scr[i]]
        BY <1>7, <3>1, <3>2, <3>3, <3>4
      <3>7. QED
        BY <3>2, <3>5, <3>6
    <2>3. Copied(scr') = {} /\ Vacant(scr') = Vacant(scr) \ {1, 2}
      BY <2>1, <2>2 DEF Copied, Vacant
    <2>4. InOrder(scr')
      <3>1. ASSUME NEW i \in Entries, NEW j \in Entries, i < j, i \in Vacant(scr')
            PROVE  j \in Vacant(scr') /\ scr'[j].data = Blank
        <4>1. j \in Vacant(scr) /\ scr[j].data = Blank
          BY <1>2, <2>3, <3>1 DEF Sound, InOrder
        <4>2. i \in Nat /\ i # 0 /\ i # 1 /\ i # 2 /\ j \in Nat
          BY <2>3, <3>1, Sizes DEF Entries
        <4>3. j # 1 /\ j # 2
          BY <3>1, <4>2
        <4>4. QED
          BY <2>2, <2>3, <4>1, <4>3
      <3>2. QED
        BY <3>1 DEF InOrder
    <2>5. Sound(blk', scr', files')
      <3>1. Types(blk', scr', files')
        BY <1>1, <1>2, <1>7, <2>2 DEF Sound, Types
      <3>2. Restorable(blk', scr')
        BY <2>3 DEF Restorable
      <3>3. QED
        BY <2>4, <3>1, <3>2 DEF Sound
    <2>6. Listing'
      <3>1. \A c \in 1 .. Total - 1, f \in Files :
                Held(blk, scr, c, f, files[f]) => Held(blk, scr', c, f, files[f])
        BY <2>1 DEF Held
      <3>2. QED
        BY <1>1, <1>6, <1>7, <3>1, ScratchListing
    <2>7. Redundant(blk', scr')
      BY <2>3 DEF Redundant
    <2>8. CASE pass < Len(Limit)
      <3>1. todo' = <<<<"sweep", p + 1, 0>>, <<"alloc", sn, h, p + 1>>>> \o After(sn) /\ mode' = mode
        BY <1>5, <1>7, <2>8
      <3>2. p + 1 \in 1 .. Len(Limit) /\ p + 1 \in 0 .. Len(Limit) /\ p + 1 \in Int /\ 0 \in Nat
        BY <1>4, <1>5, <2>8
      <3>3. <<"sweep", p + 1, 0>> \in Step /\ <<"alloc", sn, h, p + 1>> \in Step
        BY <1>4, <3>2, StepIs DEF Word
      <3>4. PICK A \in Steps : A = Cons(<<"alloc", sn, h, p + 1>>, After(sn))
        BY <1>4, <3>3, ConsIs
      <3>5. todo' = Cons(<<"sweep", p + 1, 0>>, A)
        BY <1>4, <3>1, <3>3, <3>4, ConsMore, Zenon
      <3>6. IsAlloc(A, sn)
        BY <1>3, <3>2, <3>4 DEF IsAlloc
      <3>7. Settled(sn)'
        BY <2>1, <2>3, <2>6, <3>1 DEF Settled, Calling
      <3>8. AtSweep'
        BY <2>7, <3>2, <3>5, <3>6, <3>7 DEF AtSweep
      <3>9. QED
        BY <2>5, <3>8 DEF Here, Place
    <2>9. CASE ~(pass < Len(Limit))
      <3>1. todo' = <<>> /\ mode' = "up"
        BY <1>7, <2>1, <2>9, FailIs
      <3>2. AtRest'
        BY <2>3, <2>6, <3>1 DEF AtRest
      <3>3. QED
        BY <2>5, <3>2 DEF Here, Place
    <2>10. QED
      BY <2>8, <2>9
  <1>8. CASE /\ blk' = [blk EXCEPT ![b0] = [Blank EXCEPT !.st = "OPEN", !.sn = sn0]]
             /\ b0 # Total /\ ~ \E i \in Pending : scr[i].orig = b0
             /\ scr' = scr /\ got' = b0 /\ todo' = <<>> \o Tail(todo) /\ mode' = mode
    <2> DEFINE d == [Blank EXCEPT !.st = "OPEN", !.sn = sn]
    <2>1. b \in 1 .. Total - 1 /\ blk[b].st = "FREE"
      BY <1>3, <1>4, <1>5, <1>8
    <2>2. \A i \in Copied(scr) : scr[i].orig = b => d = scr[i].data
      BY <1>2, <1>5, <1>8, ListedIs
    <2>3. d \in Content /\ d.st = "OPEN" /\ d.sn = sn /\ d.zero = "FREE" /\ ~Current(d)
      BY BlankIs DEF Content, Serials, Current
    <2>4. \A f \in Files : Good(blk[b], f, files[f]) => Good(d, f, files[f])
      BY <2>1 DEF Good
    <2>5. blk' = [blk EXCEPT ![b] = d]
      BY <1>5, <1>8
    <2> HIDE DEF d
    <2>6. /\ Sound(blk', scr, files) /\ blk'[b] = d
          /\ \A c \in 0 .. Total : c # b => blk'[c] = blk[c]
          /\ \A l : l # b /\ Sole(blk, scr, files, l) => Sole(blk', scr, files, l)
      <3>1. Harmless(blk, scr, files, b, d, blk')
        BY <1>2, <2>1, <2>2, <2>3, <2>4, <2>5 DEF Harmless
      <3>2. QED
        BY <2>3, <3>1, OneBlock
    <2>7. cur # b /\ cur \in 0 .. Total
      BY <1>4, <1>6, <2>1 DEF Listing, Sole, Valid
    <2>8. Listing'
      BY <1>1, <1>6, <1>8, <2>6, <2>7 DEF Listing
    <2>9. todo' = After(sn)
      BY <1>4, <1>5, <1>8, ConsMore
    <2>10. got' \in 1 .. Total - 1 /\ blk'[got'].st = "OPEN" /\ blk'[got'].sn = sn /\ got' # cur'
      BY <1>1, <1>5, <1>8, <2>1, <2>3, <2>6, <2>7
    <2>11. CASE sn # 0
      <3>1. sn \in Files /\ todo' = Writing(sn)
        BY <2>9, <2>11 DEF Serials, After
      <3>2. AtWriting'
        BY <1>6, <1>8, <2>8, <2>10, <2>11, <3>1 DEF AtWriting
      <3>3. QED
        BY <1>1, <1>8, <2>6, <3>2 DEF Here, Place
    <2>12. CASE sn = 0
      <3>1. todo' = Mounting
        BY <2>9, <2>12 DEF After
      <3>2. AtCopy'
        BY <1>6, <1>8, <2>8, <2>10, <2>12, <3>1 DEF AtCopy
      <3>3. QED
        BY <1>1, <1>8, <2>6, <3>2 DEF Here, Place
    <2>13. QED
      BY <2>11, <2>12
  <1>9. QED
    BY <1>1, <1>7, <1>8

\* Calls joined to calls are calls.
LEMMA StepsJoin ==
    ASSUME NEW a \in Steps, NEW b \in Steps
    PROVE  a \o b \in Steps
  BY DEF Steps

AreSteps(a, b, c) == a \in Steps /\ b \in Steps /\ c \in Steps

\* Joining calls is associative.
LEMMA StepsAssociate ==
    ASSUME NEW a, NEW b, NEW c, AreSteps(a, b, c)
    PROVE  (a \o b) \o c = a \o (b \o c)
  <1>1. a \in Seq(Step) /\ b \in Seq(Step) /\ c \in Seq(Step)
    BY DEF AreSteps, Steps
  <1>2. QED
    BY <1>1, ConcatAssociative

\* Steps joined from the left are the steps joined from the right.
Regroups(p, a, b, c, d) == ((p \o (a \o b)) \o c) \o d = p \o (a \o (b \o (c \o d)))

\* Joining is associative, for the five parts that a sweep's calls have.
LEMMA StepsFlat ==
    ASSUME NEW p, NEW a, NEW b, NEW c, NEW d, AreSteps(p, a, b), AreSteps(b, c, d)
    PROVE  Regroups(p, a, b, c, d)
  <1>1. PICK ab : ab = a \o b
    OBVIOUS
  <1>2. PICK cd : cd = c \o d
    OBVIOUS
  <1>3. PICK pab : pab = p \o ab
    OBVIOUS
  <1>4. ab \in Steps /\ cd \in Steps
    BY <1>1, <1>2, StepsJoin DEF AreSteps
  <1>5. pab \in Steps
    BY <1>3, <1>4, StepsJoin DEF AreSteps
  <1>6. AreSteps(a, b, cd) /\ AreSteps(p, ab, cd) /\ AreSteps(pab, c, d)
    BY <1>4, <1>5 DEF AreSteps
  <1>7. ab \o cd = a \o (b \o cd)
    BY <1>1, <1>6, StepsAssociate
  <1>8. pab \o cd = p \o (ab \o cd)
    BY <1>3, <1>6, StepsAssociate
  <1>9. (pab \o c) \o d = pab \o cd
    BY <1>2, <1>6, StepsAssociate
  <1>10. QED
    BY <1>1, <1>2, <1>3, <1>7, <1>8, <1>9 DEF Regroups

\* The calls of a sweep for one section x, and how the call goes on then.
Onward(q, x, A) == Cons(<<"restore", 1>>, Cons(<<"sweep", q, x + 1>>, A))
Erasing(B, x) == Saves(B) \o <<<<"erase", x>>, <<"restore", 1>>>>

LEMMA SweepShape ==
    ASSUME NEW B \in Blocks, NEW x \in Nat, NEW q \in Int, NEW A \in Steps
    PROVE  /\ Onward(q, x, A) \in Steps
           /\ ((<<>> \o Erasing(B, x)) \o <<<<"sweep", q, x + 1>>>>) \o A = Saving(B, x, Onward(q, x, A))
           /\ ((<<<<"erase_scratch">>>> \o Erasing(B, x)) \o <<<<"sweep", q, x + 1>>>>) \o A
                = Cons(<<"erase_scratch">>, Saving(B, x, Onward(q, x, A)))
  <1> DEFINE R == Onward(q, x, A)
             V == Saves(B)
             er == <<<<"erase", x>>, <<"restore", 1>>>>
             sw == <<<<"sweep", q, x + 1>>>>
             es == <<<<"erase_scratch">>>>
  <1>1. /\ <<"sweep", q, x + 1>> \in Step /\ <<"restore", 1>> \in Step
        /\ <<"erase", x>> \in Step /\ <<"erase_scratch">> \in Step
    BY StepIs DEF Word
  <1>2. sw \in Steps /\ er \in Steps /\ es \in Steps /\ <<>> \in Steps
    BY <1>1 DEF Steps
  <1>3. sw \o A = Cons(<<"sweep", q, x + 1>>, A) /\ Cons(<<"sweep", q, x + 1>>, A) \in Steps
    BY <1>1, ConsIs, ConsMore
  <1>4. R \in Steps
    BY <1>1, <1>3, ConsIs DEF Onward
  <1>5. Saving(B, x, R) \in Steps
    <2> HIDE DEF R
    <2>1. QED
      BY <1>4, SavingShape
  <1>6. er \o Cons(<<"sweep", q, x + 1>>, A) = Cons(<<"erase", x>>, R)
    BY <1>1, <1>3, ConsMore DEF Onward
  <1>7. V \in Steps
    <2>1. B \in Seq(1 .. Total - 1) /\ Len(B) \in Nat
      BY DEF Blocks
    <2> DEFINE T == 1 .. Total - 1
    <2>2. \A b \in T : b \in Int
      BY Sizes
    <2>3. B \in Seq(T)
      BY <2>1
    <2> HIDE DEF T
    <2>4. ASSUME NEW i \in 1 .. Len(B) PROVE <<"save", B[i]>> \in Step
      <3>1. B[i] \in Int
        BY <2>2, <2>3
      <3>2. QED
        BY <3>1, StepIs DEF Word
    <2>5. QED
      BY <2>1, <2>4 DEF Saves, Steps
  <1>8. Saving(B, x, R) = V \o (er \o (sw \o A))
    BY <1>3, <1>6 DEF Saving
  <1>9. Erasing(B, x) = V \o er
    BY DEF Erasing
  <1> HIDE DEF R, V, er, sw, es
  <1>10. ASSUME NEW p \in Steps
         PROVE  ((p \o (V \o er)) \o sw) \o A = p \o Saving(B, x, R)
    <2>1. ((p \o (V \o er)) \o sw) \o A = p \o (V \o (er \o (sw \o A)))
      <3>1. AreSteps(p, V, er) /\ AreSteps(er, sw, A)
        BY <1>2, <1>7 DEF AreSteps
      <3>2. Regroups(p, V, er, sw, A)
        BY <3>1, StepsFlat, Zenon
      <3>3. QED
        BY <3>2, Zenon DEF Regroups
    <2>2. QED
      BY <1>8, <2>1
  <1>11. /\ ((<<>> \o (V \o er)) \o sw) \o A = <<>> \o Saving(B, x, R)
         /\ ((es \o (V \o er)) \o sw) \o A = es \o Saving(B, x, R)
    BY <1>2, <1>10
  <1>12. /\ <<>> \o Saving(B, x, R) = Saving(B, x, R)
         /\ es \o Saving(B, x, R) = Cons(<<"erase_scratch">>, Saving(B, x, R))
    BY <1>1, <1>5, ConsMore DEF es
  <1>13. QED
    BY <1>4, <1>9, <1>11, <1>12, Zenon DEF R, sw, es

\* erase_dirty_blocks(): the next section that may be erased, or the end.
LEMMA SweepStep ==
    ASSUME Here, Sweep
    PROVE  Here'
  <1> DEFINE S == Sweepable(Head(todo)[2], Head(todo)[3])
  <1>1. /\ Busy("sweep") /\ blk' = blk /\ scr' = scr /\ files' = files /\ cur' = cur /\ mode' = mode
        /\ \/ S = {} /\ todo' = <<>> \o Tail(todo)
           \/ /\ S # {}
              /\ todo' = (SweepOne(Min(S)) \o <<<<"sweep", Head(todo)[2], Min(S) + 1>>>>) \o Tail(todo)
    BY DEF Sweep, flash, Keep, Then
  <1>2. AtSweep /\ Sound(blk, scr, files)
    BY <1>1, Places DEF Here
  <1>3. PICK sn \in Serials, q \in 1 .. Len(Limit), s \in Nat, A \in Steps :
            /\ Settled(sn) /\ Redundant(blk, scr)
            /\ IsAlloc(A, sn) /\ todo = Cons(<<"sweep", q, s>>, A)
    BY <1>2 DEF AtSweep
  <1>4. Total \in Nat \ {0, 1} /\ Len(Limit) = 5 /\ q \in Int /\ Sections \in Nat
    BY Sizes
  <1>5. Head(todo)[2] = q /\ Head(todo)[3] = s /\ Tail(todo) = A /\ S = Sweepable(q, s)
    <2>1. <<"sweep", q, s>> \in Step
      BY <1>4, StepIs DEF Word
    <2>2. Tail(todo) = A /\ Head(todo) = <<"sweep", q, s>>
      BY <1>3, <2>1, ConsIs
    <2>3. QED
      BY <2>2
  <1>6. Sound(blk, scr, files)' /\ Settled(sn)' /\ Calling(sn)
    BY <1>1, <1>2, <1>3, StayListing DEF Settled
  <1> HIDE DEF S
  <1>7. CASE S = {} /\ todo' = <<>> \o Tail(todo)
    <2>1. todo' = A
      BY <1>5, <1>7, ConsMore
    <2>2. AtAlloc'
      BY <1>3, <1>6, <2>1 DEF AtAlloc
    <2>3. QED
      BY <1>6, <2>2 DEF Here, Place
  <1>8. CASE /\ S # {}
             /\ todo' = (SweepOne(Min(S)) \o <<<<"sweep", Head(todo)[2], Min(S) + 1>>>>) \o Tail(todo)
    <2>1. Min(S) \in S
      <3>1. S \in SUBSET Nat
        BY <1>4, <1>5 DEF Sweepable
      <3>2. QED
        BY <1>8, <3>1, MinIsLeast
    <2>2. PICK x : x = Min(S)
      OBVIOUS
    <2>3. /\ x \in 0 .. Sections - 1 /\ x \in Nat /\ Movable(x)
          /\ Cardinality(Written(x)) < Limit[q]
      <3>1. x \in Sweepable(q, s)
        BY <1>5, <2>1, <2>2
      <3>2. QED
        BY <1>4, <3>1 DEF Sweepable
    <2>4. Written(x) \in SUBSET (1 .. Total - 1)
      <3>1. SectionOf(x) \subseteq 0 .. Total - 1
        BY <2>3, Sizes
      <3>2. blk[0].st = "FREE"
        BY <1>2, BlankIs DEF Sound, Types
      <3>3. QED
        BY <1>4, <3>1, <3>2 DEF Written
    <2>5. PICK B : B = Ascending(Written(x))
      OBVIOUS
    <2>6. /\ B \in Blocks /\ Len(B) = Cardinality(Written(x)) /\ Len(B) \in Nat
          /\ \A i \in DOMAIN B : B[i] \in Written(x)
          /\ \A b \in Written(x) : \E i \in DOMAIN B : B[i] = b
      BY <2>4, <2>5, AscendingIs
    <2>7. EraseDirty(x) = Erasing(B, x)
      BY <2>5, <2>6, Zenon DEF EraseDirty, Erasing, Saves
    <2>8. PICK R : R = Onward(q, x, A)
      OBVIOUS
    <2>9. IsReturn(R, sn, 1)
      <3>1. x + 1 \in Nat
        BY <2>3
      <3>2. QED
        BY <1>3, <2>8, <3>1 DEF IsReturn, Onward
    <2>10. Erasable(x)
      BY <2>3 DEF Erasable, Movable
    <2>11. /\ R \in Steps
           /\ ((<<>> \o Erasing(B, x)) \o <<<<"sweep", q, x + 1>>>>) \o A = Saving(B, x, R)
           /\ ((<<<<"erase_scratch">>>> \o Erasing(B, x)) \o <<<<"sweep", q, x + 1>>>>) \o A
                = Cons(<<"erase_scratch">>, Saving(B, x, R))
      BY <1>4, <2>3, <2>6, <2>8, SweepShape
    <2>12. Sweeping(sn, R, x, B)'
      BY <1>1, <1>3, <1>6, <2>6, <2>9, <2>10 DEF Sweeping, Settled, Erasable, Written
    <2>13. Limit[q] <= ScratchEntries + 1 /\ ScratchEntries \in Nat /\ Limit[q] \in Nat
      BY <1>4, Sizes
    <2>14. CASE Cardinality(Written(x)) > Capacity
      <3>1. SweepOne(x) = <<<<"erase_scratch">>>> \o Erasing(B, x)
        BY <2>7, <2>14 DEF SweepOne
      <3>2. todo' = Cons(<<"erase_scratch">>, Saving(B, x, R))
        BY <1>5, <1>8, <2>2, <2>11, <3>1
      <3>3. Len(B) <= ScratchEntries
        BY <2>3, <2>6, <2>13
      <3>4. \A b \in Written(x)' : \E i \in DOMAIN B : B[i] = b
        BY <1>1, <2>6 DEF Written
      <3>5. AtEraseScratch'
        BY <2>3, <2>6, <2>11, <2>12, <3>2, <3>3, <3>4 DEF AtEraseScratch
      <3>6. QED
        BY <1>6, <3>5 DEF Here, Place
    <2>15. CASE ~(Cardinality(Written(x)) > Capacity)
      <3>1. SweepOne(x) = <<>> \o Erasing(B, x)
        BY <2>7, <2>15 DEF SweepOne
      <3>2. todo' = Saving(B, x, R)
        BY <1>5, <1>8, <2>2, <2>11, <3>1
      <3>3. Len(B) <= Cardinality(Vacant(scr'))
        BY <1>1, <1>2, <2>6, <2>13, <2>15, NextEntry
      <3>4. Saved(x, B)'
        BY <1>1, <2>6 DEF Saved, Written
      <3>5. mode' = "up" => Copied(scr') = {}
        BY <1>6 DEF Settled
      <3>6. AtSave'
        BY <2>3, <2>6, <2>11, <2>12, <3>2, <3>3, <3>4, <3>5 DEF AtSave
      <3>7. QED
        BY <1>6, <3>6 DEF Here, Place
    <2>16. QED
      BY <2>14, <2>15
  <1>9. QED
    BY <1>1, <1>7, <1>8

\* cl_scratch_erase(): what was waiting there is where it belongs.
LEMMA EraseScratchStep ==
    ASSUME Here, EraseScratch
    PROVE  Here'
  <1>1. /\ Busy("erase_scratch") /\ files' = files /\ cur' = cur /\ mode' = mode
        /\ scr' = [i \in DOMAIN scr |-> Unused] /\ blk' = [blk EXCEPT ![Total] = Blank]
        /\ todo' = <<>> \o Tail(todo)
    BY DEF EraseScratch, Keep, Then
  <1>2. AtEraseScratch /\ Sound(blk, scr, files)
    BY <1>1, Places DEF Here
  <1>3. PICK sn \in Serials, R \in Steps, x \in 0 .. Sections - 1, B \in Blocks :
            /\ todo = Cons(<<"erase_scratch">>, Saving(B, x, R))
            /\ Sweeping(sn, R, x, B) /\ Len(B) <= ScratchEntries
            /\ \A b \in Written(x) : \E i \in DOMAIN B : B[i] = b
    BY <1>2 DEF AtEraseScratch
  <1>4. Total \in Nat \ {0, 1} /\ ScratchEntries \in Nat /\ x \in Nat
    BY Sizes
  <1>5. todo' = Saving(B, x, R)
    <2>1. Saving(B, x, R) \in Steps /\ <<"erase_scratch">> \in Step
      BY <1>4, StepIs, SavingShape DEF Word
    <2>2. QED
      BY <1>1, <1>3, <2>1, ConsIs, ConsMore
  <1>6. /\ Calling(sn) /\ IsReturn(R, sn, 1) /\ Redundant(blk, scr) /\ Erasable(x)
        /\ \A i \in DOMAIN B : B[i] \in Written(x)
    BY <1>3 DEF Sweeping
  <1>7. /\ blk \in [0 .. Total -> Content] /\ blk[0] = Blank /\ DOMAIN scr = Entries
        /\ files \in [Files -> 0 .. 2]
    BY <1>2 DEF Sound, Types
  <1>8. /\ blk' \in [0 .. Total -> Content] /\ \A c \in 0 .. Total : c # Total => blk'[c] = blk[c]
    BY <1>1, <1>4, <1>7, BlankIs
  <1>9. Unused \in Entry /\ Unused.st = "UNUSED" /\ Unused.data = Blank
    BY BlankIs DEF Unused, Entry
  <1>10. scr' \in [Entries -> Entry] /\ \A i \in Entries : scr'[i] = Unused
    BY <1>1, <1>7, <1>9
  <1>11. Copied(scr') = {} /\ Vacant(scr') = Entries
    BY <1>9, <1>10 DEF Copied, Vacant
  <1>12. Sound(blk', scr', files')
    <2>1. 0 \in 0 .. Total /\ 0 # Total
      BY <1>4
    <2>2. Types(blk', scr', files')
      BY <1>1, <1>7, <1>8, <1>10, <2>1 DEF Types
    <2>3. InOrder(scr')
      BY <1>9, <1>10, <1>11 DEF InOrder
    <2>4. QED
      BY <1>11, <2>2, <2>3 DEF Sound, Restorable
  <1>13. \A c \in 0 .. Total - 1 : c \in 0 .. Total /\ c # Total /\ blk'[c] = blk[c]
    BY <1>4, <1>8
  <1>14. Listing'
    <2>1. Sole(blk, scr, files, cur) /\ blk[cur].st = "CLOSED" /\ cur \in 1 .. Total - 1
      BY <1>6 DEF Calling, Listing, Sole, Valid
    <2>2. ASSUME NEW b \in 1 .. Total - 1, NEW f \in Files, Held(blk, scr, b, f, files[f])
          PROVE  Held(blk', scr', b, f, files[f])
      <3>1. Good(blk[b], f, files[f])
        BY <1>6, <2>2 DEF Held, Redundant
      <3>2. blk'[b] = blk[b]
        BY <1>4, <1>13
      <3>3. QED
        BY <3>1, <3>2 DEF Held
    <2>3. blk'[cur] = blk[cur]
      BY <1>4, <1>13, <2>1
    <2>4. Names(blk', scr', files, cur)
      BY <2>1, <2>2, <2>3 DEF Sole, Valid, Names
    <2>5. Sole(blk', scr', files, cur)
      BY <1>13, <2>1, <2>3, <2>4 DEF Sole, Valid
    <2>6. QED
      BY <1>1, <2>1, <2>3, <2>5 DEF Listing
  <1>15. \A c \in SectionOf(x) : blk'[c] = blk[c]
    BY <1>13, Sizes
  <1>16. Erasable(x)' /\ Written(x)' = Written(x)
    BY <1>6, <1>15 DEF Erasable, Written
  <1>17. Sweeping(sn, R, x, B)'
    <2>1. Calling(sn)'
      BY <1>1, <1>6, <1>14 DEF Calling
    <2>2. Redundant(blk', scr')
      BY <1>11 DEF Redundant
    <2>3. QED
      BY <1>6, <1>16, <2>1, <2>2 DEF Sweeping
  <1>18. Len(B) <= Cardinality(Vacant(scr'))
    <2>1. Cardinality(1 .. ScratchEntries) = ScratchEntries
      BY <1>4, FS_Interval
    <2>2. QED
      BY <1>3, <1>11, <2>1 DEF Entries
  <1>19. AtSave'
    <2>1. Saved(x, B)'
      BY <1>3, <1>16 DEF Saved
    <2>2. QED
      BY <1>5, <1>11, <1>17, <1>18, <2>1 DEF AtSave
  <1>20. QED
    BY <1>12, <1>19 DEF Here, Place

\* cl_scratch_saveblock(): the data.
LEMMA SaveStep ==
    ASSUME Here, Save
    PROVE  Here'
  <1> DEFINE n == Cardinality(Listed) + 1
             b0 == Head(todo)[2]
  <1>1. /\ Busy("save") /\ blk' = blk /\ files' = files /\ cur' = cur
        /\ \/ n > ScratchEntries /\ Fail /\ scr' = scr
           \/ /\ ~(n > ScratchEntries) /\ scr[n].data # Blank
              /\ Fail /\ scr' = [scr EXCEPT ![n].st = "STRUCK"]
           \/ /\ ~(n > ScratchEntries) /\ scr[n].data = Blank
              /\ scr' = [scr EXCEPT ![n].data = blk[b0]]
              /\ todo' = <<<<"entry", n, b0>>>> \o Tail(todo) /\ mode' = mode
    BY DEF Save, KeepButMode, Then
  <1>2. AtSave /\ Sound(blk, scr, files)
    BY <1>1, Places DEF Here
  <1>3. PICK sn \in Serials, R \in Steps, x \in 0 .. Sections - 1, B \in Blocks :
            /\ todo = Saving(B, x, R)
            /\ Sweeping(sn, R, x, B) /\ Saved(x, B)
            /\ mode = "up" => /\ Len(B) <= Cardinality(Vacant(scr))
                              /\ Copied(scr) # {} => \A i \in Vacant(scr) : scr[i].data = Blank
    BY <1>2 DEF AtSave
  <1>4. /\ Total \in Nat \ {0, 1} /\ ScratchEntries \in Nat /\ x \in Nat
        /\ n \in 1 .. ScratchEntries + 1 /\ Vacant(scr) = n .. ScratchEntries
        /\ Cardinality(Vacant(scr)) = ScratchEntries - n + 1
    BY <1>2, Sizes, NextEntry
  <1> HIDE DEF n
  <1>5. /\ Calling(sn) /\ IsReturn(R, sn, 1) /\ Redundant(blk, scr) /\ Erasable(x)
        /\ \A i \in DOMAIN B : B[i] \in Written(x)
    BY <1>3 DEF Sweeping
  <1>6. B # <<>>
    <2>1. CASE B = <<>>
      <3>1. Head(todo) = <<"erase", x>>
        BY <1>3, <1>4, <2>1, SavingShape
      <3>2. Head(todo)[1] = "save" /\ <<"erase", x>>[1] = "erase"
        BY <1>1 DEF Busy
      <3>3. QED
        BY <3>1, <3>2
    <2>2. QED
      BY <2>1
  <1>7. /\ Tail(B) \in Blocks /\ Len(Tail(B)) = Len(B) - 1 /\ Len(B) \in Nat \ {0}
        /\ B[1] \in 1 .. Total - 1 /\ 1 \in DOMAIN B
        /\ \A i \in DOMAIN Tail(B) : i + 1 \in DOMAIN B /\ Tail(B)[i] = B[i + 1]
        /\ \A i \in DOMAIN B : i = 1 \/ (i - 1 \in DOMAIN Tail(B) /\ B[i] = Tail(B)[i - 1])
        /\ Head(todo) = <<"save", B[1]>> /\ Tail(todo) = Saving(Tail(B), x, R)
    <2>1. 1 \in DOMAIN B
      <3>1. B \in Seq(1 .. Total - 1)
        BY DEF Blocks
      <3> DEFINE T == 1 .. Total - 1
      <3>2. B \in Seq(T)
        BY <3>1
      <3> HIDE DEF T
      <3>3. QED
        BY <1>6, <3>2
    <2>2. QED
      BY <1>3, <1>4, <1>6, <2>1, SavingShape
  <1>8. mode = "up" => ~(n > ScratchEntries)
    BY <1>3, <1>4, <1>7
  <1>9. mode = "boot" => sn = 0 /\ Ends(todo)
    <2>1. ASSUME mode = "boot" PROVE sn = 0
      BY <1>5, <2>1 DEF Calling
    <2>2. sn = 0 => Ends(todo)
      BY <1>3, <1>4, <1>5, Endings
    <2>3. QED
      BY <2>1, <2>2
  <1>10. mode \in {"up", "boot"} /\ Listing
    BY <1>5 DEF Calling
  <1>11. scr \in [Entries -> Entry] /\ InOrder(scr) /\ blk \in [0 .. Total -> Content] /\ Restorable(blk, scr)
    BY <1>2 DEF Sound, Types
  <1>12. CASE n > ScratchEntries /\ Fail /\ scr' = scr
    <2>1. mode = "boot" /\ todo' = Cleaning /\ mode' = "boot"
      BY <1>8, <1>9, <1>10, <1>12, FailIs
    <2>2. Sound(blk, scr, files)' /\ Listing'
      BY <1>1, <1>2, <1>10, <1>12, StayListing
    <2>3. QED
      BY <2>1, <2>2 DEF Here, Place, AtClean
  <1>13. CASE /\ ~(n > ScratchEntries) /\ scr[n].data # Blank
              /\ Fail /\ scr' = [scr EXCEPT ![n].st = "STRUCK"]
    <2>1. n \in Entries /\ n \in Vacant(scr)
      BY <1>4, <1>13 DEF Entries
    <2>2. /\ scr' \in [Entries -> Entry]
          /\ \A i \in Entries : scr'[i].data = scr[i].data /\ (i # n => scr'[i] = scr[i])
          /\ scr'[n].st = "STRUCK"
      BY <1>11, <1>13, <2>1 DEF Entry
    <2>3. Copied(scr') = Copied(scr) /\ n \notin Copied(scr) /\ Vacant(scr') = Vacant(scr) \ {n}
      BY <2>1, <2>2 DEF Copied, Vacant
    <2>4. \A i \in Copied(scr) : i \in Entries /\ scr'[i] = scr[i]
      BY <2>2, <2>3 DEF Copied
    <2>5. Sound(blk', scr', files')
      <3>1. InOrder(scr')
        <4>1. ASSUME NEW i \in Entries, NEW j \in Entries, i < j, i \in Vacant(scr')
              PROVE  j \in Vacant(scr') /\ scr'[j].data = Blank
          <5>1. i \in Vacant(scr) /\ i \in n .. ScratchEntries /\ j \in Nat
            BY <1>4, <2>3, <4>1 DEF Entries
          <5>2. j # n
            BY <1>4, <4>1, <5>1
          <5>3. QED
            BY <1>11, <2>2, <2>3, <4>1, <5>1, <5>2 DEF InOrder
        <4>2. QED
          BY <4>1 DEF InOrder
      <3>2. Restorable(blk, scr')
        BY <1>11, <2>3, <2>4 DEF Restorable
      <3>3. QED
        BY <1>1, <1>2, <2>2, <3>1, <3>2 DEF Sound, Types
    <2>6. Listing'
      <3>1. \A b \in 1 .. Total - 1, f \in Files :
                Held(blk, scr, b, f, files[f]) => Held(blk, scr', b, f, files[f])
        BY <2>3, <2>4 DEF Held
      <3>2. QED
        BY <1>1, <1>10, <3>1, ScratchListing
    <2>7. CASE mode = "up"
      <3>1. Copied(scr) = {}
        BY <1>3, <1>13, <2>1, <2>7
      <3>2. AtRest'
        BY <1>13, <2>3, <2>6, <2>7, <3>1, FailIs DEF AtRest
      <3>3. QED
        BY <2>5, <3>2 DEF Here, Place
    <2>8. CASE mode = "boot"
      <3>1. AtClean'
        BY <1>9, <1>13, <2>6, <2>8, FailIs DEF AtClean
      <3>2. QED
        BY <2>5, <3>1 DEF Here, Place
    <2>9. QED
      BY <1>10, <2>7, <2>8
  <1>14. CASE /\ ~(n > ScratchEntries) /\ scr[n].data = Blank
              /\ scr' = [scr EXCEPT ![n].data = blk[b0]]
              /\ todo' = <<<<"entry", n, b0>>>> \o Tail(todo) /\ mode' = mode
    <2>1. n \in Entries /\ n \in Vacant(scr) /\ n \in Int
      BY <1>4, <1>14 DEF Entries
    <2>2. PICK b \in 1 .. Total - 1 : b = B[1]
      BY <1>7
    <2>3. b0 = b /\ b \in Written(x) /\ b \in 0 .. Total /\ b \in Int
      BY <1>4, <1>5, <1>7, <2>2
    <2>4. blk[b] \in Content
      BY <1>11, <2>3
    <2>5. /\ scr' \in [Entries -> Entry] /\ scr'[n].data = blk[b]
          /\ \A i \in Entries : scr'[i].st = scr[i].st /\ (i # n => scr'[i] = scr[i])
      BY <1>11, <1>14, <2>1, <2>3, <2>4 DEF Entry
    <2>6. Copied(scr') = Copied(scr) /\ n \notin Copied(scr) /\ Vacant(scr') = Vacant(scr)
      BY <2>1, <2>5 DEF Copied, Vacant
    <2>7. \A i \in Copied(scr) : i \in Entries /\ scr'[i] = scr[i]
      BY <2>5, <2>6 DEF Copied
    <2>8. Sound(blk', scr', files')
      <3>1. InOrder(scr')
        <4>1. ASSUME NEW i \in Entries, NEW j \in Entries, i < j, i \in Vacant(scr')
              PROVE  j \in Vacant(scr') /\ scr'[j].data = Blank
          <5>1. i \in Vacant(scr) /\ i \in n .. ScratchEntries /\ j \in Nat
            BY <1>4, <2>6, <4>1 DEF Entries
          <5>2. j # n
            BY <1>4, <4>1, <5>1
          <5>3. QED
            BY <1>11, <2>5, <2>6, <4>1, <5>1, <5>2 DEF InOrder
        <4>2. QED
          BY <4>1 DEF InOrder
      <3>2. Restorable(blk, scr')
        BY <1>11, <2>6, <2>7 DEF Restorable
      <3>3. QED
        BY <1>1, <1>2, <2>5, <3>1, <3>2 DEF Sound, Types
    <2>9. \A c \in 1 .. Total - 1, f \in Files :
              Held(blk, scr, c, f, files[f]) => Held(blk, scr', c, f, files[f])
      BY <2>6, <2>7 DEF Held
    <2>10. Calling(sn)' /\ Erasable(x)' /\ Written(x)' = Written(x)
      BY <1>1, <1>5, <1>14, <2>9, ScratchListing
    <2>11. Redundant(blk', scr')
      BY <1>1, <1>5, <2>6, <2>7 DEF Redundant
    <2>12. Sweeping(sn, R, x, Tail(B))
      BY <1>5, <1>7 DEF Sweeping
    <2>13. PICK D \in Blocks : D = Tail(B)
      BY <1>7
    <2>14. Sweeping(sn, R, x, D)'
      BY <1>5, <2>10, <2>11, <2>12, <2>13 DEF Sweeping
    <2>15. \A c \in Written(x) \ {b} : (\E i \in DOMAIN D : D[i] = c) \/ \E i \in Copied(scr) : scr[i].orig = c
      <3>1. ASSUME NEW c \in Written(x) \ {b}, NEW i \in DOMAIN B, B[i] = c
            PROVE  \E j \in DOMAIN D : D[j] = c
        BY <1>7, <2>2, <2>13, <3>1
      <3>2. QED
        BY <1>3, <3>1 DEF Saved
    <2>16. \A c \in Written(x)' \ {b} : (\E i \in DOMAIN D : D[i] = c) \/ \E i \in Copied(scr') : scr'[i].orig = c
      BY <2>6, <2>7, <2>10, <2>15
    <2>17. todo' = Cons(<<"entry", n, b>>, Saving(D, x, R))
      <3>1. <<"entry", n, b>> \in Step /\ Saving(D, x, R) \in Steps
        BY <1>4, <2>1, <2>3, StepIs, SavingShape DEF Word
      <3>2. todo' = <<<<"entry", n, b>>>> \o Saving(D, x, R)
        BY <1>7, <1>14, <2>3, <2>13
      <3>3. QED
        BY <3>1, <3>2, ConsMore
    <2>18. mode' = "up" => Len(D) <= ScratchEntries - n
      BY <1>3, <1>4, <1>7, <1>14, <2>13
    <2>19. AtEntry'
      <3>1. PICK m \in Entries : m = n
        BY <2>1
      <3>2. b \in Written(x)' /\ Vacant(scr') = m .. ScratchEntries /\ scr'[m].data = blk'[b]
        BY <1>1, <1>4, <2>3, <2>5, <2>6, <2>10, <3>1
      <3>3. todo' = Cons(<<"entry", m, b>>, Saving(D, x, R)) /\ (mode' = "up" => Len(D) <= ScratchEntries - m)
        BY <2>17, <2>18, <3>1
      <3>4. QED
        BY <2>14, <2>16, <3>2, <3>3, Zenon DEF AtEntry
    <2>20. QED
      BY <2>8, <2>19 DEF Here, Place
  <1>15. QED
    BY <1>1, <1>12, <1>13, <1>14

\* The entry of a block that was saved.
LEMMA SaveEntryStep ==
    ASSUME Here, SaveEntry
    PROVE  Here'
  <1> DEFINE n0 == Head(todo)[2]
             b0 == Head(todo)[3]
  <1>1. /\ Busy("entry") /\ blk' = blk /\ files' = files /\ cur' = cur /\ mode' = mode
        /\ scr' = [scr EXCEPT ![n0].st = "COPIED", ![n0].orig = b0]
        /\ todo' = <<>> \o Tail(todo)
    BY DEF SaveEntry, Keep, Then
  <1>2. AtEntry /\ Sound(blk, scr, files)
    BY <1>1, Places DEF Here
  <1>3. PICK sn \in Serials, R \in Steps, x \in 0 .. Sections - 1, B \in Blocks,
             b \in 1 .. Total - 1, n \in Entries :
            /\ todo = Cons(<<"entry", n, b>>, Saving(B, x, R))
            /\ Sweeping(sn, R, x, B)
            /\ b \in Written(x) /\ \A c \in Written(x) \ {b} :
                  (\E i \in DOMAIN B : B[i] = c) \/ \E i \in Copied(scr) : scr[i].orig = c
            /\ Vacant(scr) = n .. ScratchEntries /\ scr[n].data = blk[b]
            /\ mode = "up" => Len(B) <= ScratchEntries - n
    BY <1>2 DEF AtEntry
  <1>4. /\ Total \in Nat \ {0, 1} /\ ScratchEntries \in Nat /\ x \in Nat /\ b \in Int /\ n \in Int
        /\ n \in 1 .. ScratchEntries
    BY Sizes DEF Entries
  <1>5. n0 = n /\ b0 = b /\ todo' = Saving(B, x, R)
    <2>1. <<"entry", n, b>> \in Step /\ Saving(B, x, R) \in Steps
      BY <1>4, StepIs, SavingShape DEF Word
    <2>2. Head(todo) = <<"entry", n, b>> /\ todo' = Saving(B, x, R)
      BY <1>1, <1>3, <2>1, ConsIs, ConsMore
    <2>3. QED
      BY <2>2
  <1> HIDE DEF n0, b0
  <1>6. /\ Calling(sn) /\ IsReturn(R, sn, 1) /\ Redundant(blk, scr) /\ Erasable(x)
        /\ \A i \in DOMAIN B : B[i] \in Written(x)
    BY <1>3 DEF Sweeping
  <1>7. /\ scr \in [Entries -> Entry] /\ InOrder(scr) /\ blk \in [0 .. Total -> Content]
        /\ Restorable(blk, scr) /\ n \in Vacant(scr)
    BY <1>2, <1>3, <1>4 DEF Sound, Types
  <1>8. /\ scr' \in [Entries -> Entry] /\ scr'[n].st = "COPIED" /\ scr'[n].orig = b
        /\ scr'[n].data = blk[b]
        /\ \A i \in Entries : i # n => scr'[i] = scr[i]
    <2>1. b \in 0 .. Total \cup {NONE}
      BY <1>4
    <2>2. QED
      <3> DEFINE e == [scr[n] EXCEPT !.st = "COPIED", !.orig = b]
      <3>1. scr[n] \in Entry
        BY <1>7
      <3>2. e \in Entry /\ e.st = "COPIED" /\ e.orig = b /\ e.data = scr[n].data
        BY <2>1, <3>1 DEF Entry
      <3>3. scr' = [scr EXCEPT ![n] = e]
        BY <1>1, <1>5, <1>7
      <3> HIDE DEF e
      <3>4. QED
        BY <1>3, <1>7, <3>2, <3>3
  <1>9. /\ n \notin Copied(scr) /\ Copied(scr') = Copied(scr) \cup {n}
        /\ Vacant(scr') = Vacant(scr) \ {n}
    BY <1>7, <1>8 DEF Copied, Vacant
  <1>10. \A i \in Copied(scr) : i \in Entries /\ scr'[i] = scr[i]
    BY <1>8, <1>9 DEF Copied
  <1>11. blk[b].st = "CLOSED" /\ blk[b].sn # 0
    BY <1>3, <1>6 DEF Written, Erasable
  <1>12. Restorable(blk, scr') /\ Redundant(blk, scr')
    BY <1>6, <1>7, <1>8, <1>9, <1>10, <1>11 DEF Restorable, Redundant
  <1>13. Sound(blk', scr', files')
    <2>1. ASSUME NEW i \in Entries, NEW j \in Entries, i < j, i \in Vacant(scr')
          PROVE  j \in Vacant(scr') /\ scr'[j].data = Blank
      <3>1. i \in Vacant(scr) /\ i \in n .. ScratchEntries /\ j \in Nat
        BY <1>3, <1>9, <2>1 DEF Entries
      <3>2. j # n
        BY <1>4, <2>1, <3>1
      <3>3. QED
        BY <1>7, <1>8, <1>9, <2>1, <3>1, <3>2 DEF InOrder
    <2>2. InOrder(scr')
      BY <2>1 DEF InOrder
    <2>3. QED
      BY <1>1, <1>2, <1>8, <1>12, <2>2 DEF Sound, Types
  <1>14. \A c \in 1 .. Total - 1, f \in Files :
             Held(blk, scr, c, f, files[f]) => Held(blk, scr', c, f, files[f])
    BY <1>9, <1>10 DEF Held
  <1>15. Calling(sn)' /\ Erasable(x)' /\ Written(x)' = Written(x)
    BY <1>1, <1>6, <1>14, ScratchListing
  <1>16. Sweeping(sn, R, x, B)'
    BY <1>1, <1>6, <1>12, <1>15 DEF Sweeping
  <1>17. Saved(x, B)'
    <2>1. ASSUME NEW c \in Written(x)
          PROVE  (\E i \in DOMAIN B : B[i] = c) \/ \E i \in Copied(scr') : scr'[i].orig = c
      <3>1. CASE c = b
        BY <1>8, <1>9, <3>1
      <3>2. CASE c # b
        BY <1>3, <1>9, <1>10, <3>2
      <3>3. QED
        BY <3>1, <3>2
    <2>2. QED
      BY <1>15, <2>1 DEF Saved
  <1>18. Vacant(scr') = n + 1 .. ScratchEntries
    <2>1. (n .. ScratchEntries) \ {n} = n + 1 .. ScratchEntries
      BY <1>4
    <2>2. QED
      BY <1>3, <1>9, <2>1
  <1>19. mode' = "up" => Len(B) <= Cardinality(Vacant(scr'))
    <2>1. n + 1 \in Int /\ ScratchEntries \in Int
      BY <1>4
    <2>2. Cardinality(n + 1 .. ScratchEntries) = IF n + 1 > ScratchEntries THEN 0 ELSE ScratchEntries - (n + 1) + 1
      BY <2>1, FS_Interval, Zenon
    <2>3. Cardinality(Vacant(scr')) = ScratchEntries - n
      BY <1>4, <1>18, <2>2
    <2>4. QED
      BY <1>1, <1>3, <2>3
  <1>20. \A i \in Vacant(scr') : scr'[i].data = Blank
    <2>1. ASSUME NEW i \in Vacant(scr') PROVE scr'[i].data = Blank
      <3>1. i \in Entries /\ i # n /\ n < i
        BY <1>4, <1>8, <1>18 DEF Vacant, Entries
      <3>2. QED
        BY <1>7, <1>8, <3>1 DEF InOrder
    <2>2. QED
      BY <2>1
  <1>21. AtSave'
    BY <1>5, <1>16, <1>17, <1>19, <1>20 DEF AtSave
  <1>22. QED
    BY <1>13, <1>21 DEF Here, Place

\* cl_block_erase(): every valid block of the section has its copy.
LEMMA EraseSectionStep ==
    ASSUME Here, EraseSection
    PROVE  Here'
  <1> DEFINE x0 == Head(todo)[2]
  <1>1. /\ Busy("erase") /\ scr' = scr /\ files' = files /\ cur' = cur /\ mode' = mode
        /\ blk' = [b \in DOMAIN blk |-> IF b \in SectionOf(x0) THEN Blank ELSE blk[b]]
        /\ todo' = <<>> \o Tail(todo)
    BY DEF EraseSection, Keep, Then
  <1>2. AtSave /\ Sound(blk, scr, files)
    BY <1>1, Places DEF Here
  <1>3. PICK sn \in Serials, R \in Steps, x \in 0 .. Sections - 1, B \in Blocks :
            /\ todo = Saving(B, x, R)
            /\ Sweeping(sn, R, x, B) /\ Saved(x, B)
    BY <1>2 DEF AtSave
  <1>4. Total \in Nat \ {0, 1} /\ x \in Nat
    BY Sizes
  <1>5. B = <<>> /\ x0 = x /\ todo' = R
    <2>1. CASE B = <<>>
      <3>1. Head(todo) = <<"erase", x>> /\ Tail(todo) = R
        BY <1>3, <1>4, <2>1, SavingShape
      <3>2. QED
        BY <1>1, <2>1, <3>1, ConsMore
    <2>2. CASE B # <<>>
      <3>1. Head(todo) = <<"save", B[1]>>
        BY <1>3, <1>4, <2>2, SavingShape
      <3>2. Head(todo)[1] = "erase" /\ <<"save", B[1]>>[1] = "save"
        BY <1>1 DEF Busy
      <3>3. QED
        BY <3>1, <3>2
    <2>3. QED
      BY <2>1, <2>2
  <1> HIDE DEF x0
  <1>6. /\ Calling(sn) /\ IsReturn(R, sn, 1) /\ Redundant(blk, scr) /\ Erasable(x)
        /\ \A b \in Written(x) : \E i \in Copied(scr) : scr[i].orig = b
    <2>1. DOMAIN B = {}
      BY <1>5
    <2>2. \A b \in Written(x) : \E i \in Copied(scr) : scr[i].orig = b
      BY <1>3, <2>1 DEF Saved
    <2>3. QED
      BY <1>3, <2>2 DEF Sweeping
  <1>7. /\ blk \in [0 .. Total -> Content] /\ blk[0] = Blank /\ Restorable(blk, scr)
        /\ SectionOf(x) \subseteq 0 .. Total - 1
    BY <1>2, Sizes DEF Sound, Types
  <1>8. /\ blk' \in [0 .. Total -> Content]
        /\ \A b \in 0 .. Total : blk'[b] = IF b \in SectionOf(x) THEN Blank ELSE blk[b]
    BY <1>1, <1>5, <1>7, BlankIs
  <1>9. \A b \in 0 .. Total : blk'[b] \in {Blank, blk[b]}
    BY <1>8
  <1>10. Sound(blk', scr', files')
    <2>1. blk'[0] = Blank
      BY <1>4, <1>7, <1>9
    <2>2. Types(blk', scr', files')
      BY <1>1, <1>2, <1>8, <2>1 DEF Sound, Types
    <2>3. Restorable(blk', scr')
      <3>1. \A i \in Copied(scr) : scr[i].orig \in 0 .. Total
        BY <1>4, <1>7 DEF Restorable
      <3>2. QED
        BY <1>1, <1>7, <1>9, <3>1 DEF Restorable
    <2>4. QED
      BY <1>1, <1>2, <2>2, <2>3 DEF Sound
  <1>11. /\ Sole(blk, scr, files, cur) /\ blk[cur].st = "CLOSED" /\ cur \in 1 .. Total - 1
         /\ blk[cur].sn = 0
    BY <1>6 DEF Calling, Listing, Sole, Valid, Current
  <1>12. blk'[cur] = blk[cur]
    <2>1. cur \notin SectionOf(x) /\ cur \in 0 .. Total
      BY <1>4, <1>6, <1>11 DEF Erasable
    <2>2. QED
      BY <1>8, <2>1
  <1>13. ASSUME NEW b \in 1 .. Total - 1, NEW f \in Files, Held(blk, scr, b, f, files[f])
         PROVE  Held(blk', scr', b, f, files[f])
    <2>1. b \in 0 .. Total
      BY <1>4
    <2>2. CASE b \in SectionOf(x) /\ Good(blk[b], f, files[f])
      <3>1. b \in Written(x)
        BY <2>2 DEF Written, Good
      <3>2. PICK i \in Copied(scr) : scr[i].orig = b
        BY <1>6, <3>1
      <3>3. scr[i].data = blk[b]
        BY <1>6, <3>2 DEF Redundant
      <3>4. QED
        BY <1>1, <2>2, <3>2, <3>3 DEF Held
    <2>3. CASE b \notin SectionOf(x) \/ ~Good(blk[b], f, files[f])
      BY <1>1, <1>8, <1>13, <2>1, <2>3 DEF Held
    <2>4. QED
      BY <2>2, <2>3
  <1>14. Listing'
    <2>1. Names(blk', scr', files', cur)
      BY <1>1, <1>11, <1>12, <1>13 DEF Sole, Valid, Names
    <2>2. \A b \in 0 .. Total - 1 : b \in 0 .. Total
      BY <1>4
    <2>3. Sole(blk', scr', files', cur)
      BY <1>9, <1>11, <1>12, <2>1, <2>2, BlankIs DEF Sole, Valid
    <2>4. QED
      BY <1>1, <1>11, <1>12, <2>3 DEF Listing
  <1>15. AtRestore'
    <2>1. From(1)'
      BY Sizes DEF From, Copied, Entries
    <2>2. Calling(sn)' /\ IsReturn(todo', sn, 1)
      BY <1>1, <1>5, <1>6, <1>14 DEF Calling
    <2>3. QED
      BY <2>1, <2>2 DEF AtRestore
  <1>16. QED
    BY <1>10, <1>15 DEF Here, Place

\* What is left of a mount, when the scratch area has been restored.
LEMMA EndingIs ==
    ASSUME NEW n \in Int, NEW Z \in Ending(n)
    PROVE  /\ Z \in Steps /\ Z # <<>> /\ Head(Z) = <<"restore", n>>
           /\ Tail(Z) \in {<<>>, Cons(<<"discardopen">>, <<>>)} /\ Tail(Z) \in Steps
  <1>1. <<>> \in Steps /\ Cons(<<"discardopen">>, <<>>) \in Steps /\ <<"restore", n>> \in Step
    BY Shapes
  <1>2. PICK K \in {<<>>, Cons(<<"discardopen">>, <<>>)} : Z = Cons(<<"restore", n>>, K)
    BY DEF Ending
  <1>3. K \in Steps
    BY <1>1, <1>2
  <1>4. QED
    BY <1>1, <1>2, <1>3, ConsIs

\* cl_scratch_restore(): a pending block goes back, or none is left.
LEMMA RestoreStep ==
    ASSUME Here, Restore
    PROVE  Here'
  <1> DEFINE n0 == Head(todo)[2]
             S == {j \in Pending : j >= n0}
  <1>1. /\ Busy("restore") /\ scr' = scr /\ files' = files /\ cur' = cur
        /\ \/ S = {} /\ todo' = <<>> \o Tail(todo) /\ blk' = blk /\ mode' = mode
           \/ /\ S # {}
              /\ blk' = [blk EXCEPT ![scr[Min(S)].orig] =
                            Over(blk[scr[Min(S)].orig], scr[Min(S)].data)]
              /\ IF Over(blk[scr[Min(S)].orig], scr[Min(S)].data) = scr[Min(S)].data
                 THEN /\ todo' = <<<<"strike", Min(S)>>, <<"restore", Min(S) + 1>>>> \o Tail(todo)
                      /\ mode' = mode
                 ELSE Fail
    BY DEF Restore, KeepButMode, Then
  <1>2. (AtRestore \/ AtLast) /\ Sound(blk, scr, files) /\ Pending = Copied(scr)
    BY <1>1, Places, ListedIs DEF Here
  <1>3. PICK n \in Nat :
            /\ From(n)
            /\ \/ \E sn \in Serials : Calling(sn) /\ IsReturn(todo, sn, n)
               \/ mode = "boot" /\ Listing /\ todo \in Ending(n)
    BY <1>2 DEF AtRestore, AtLast
  <1>4. Listing /\ todo \in Steps /\ todo # <<>> /\ Head(todo) = <<"restore", n>> /\ Tail(todo) \in Steps
    <2>1. ASSUME NEW sn \in Serials, Calling(sn), IsReturn(todo, sn, n)
          PROVE  Listing /\ todo \in Steps /\ todo # <<>> /\ Head(todo) = <<"restore", n>> /\ Tail(todo) \in Steps
      <3>1. todo \in Steps /\ todo # <<>> /\ Head(todo) = <<"restore", n>>
        BY <2>1, ReturnShape
      <3>2. PICK A \in Steps, q \in 1 .. 5, s \in Nat : Tail(todo) = Cons(<<"sweep", q, s>>, A)
        BY <2>1, ReturnShape
      <3>3. <<"sweep", q, s>> \in Step
        BY StepIs DEF Word
      <3>4. QED
        BY <2>1, <3>1, <3>2, <3>3, ConsIs DEF Calling
    <2>2. QED
      BY <1>3, <2>1, EndingIs
  <1>5. S = Copied(scr)
    <2>1. n0 = n /\ Copied(scr) \subseteq Nat
      BY <1>4, Sizes DEF Copied, Entries
    <2>2. \A j \in Copied(scr) : j >= n
      BY <1>3, <2>1 DEF From
    <2>3. QED
      BY <1>2, <2>1, <2>2
  <1> HIDE DEF S
  <1>6. CASE S = {} /\ todo' = <<>> \o Tail(todo) /\ blk' = blk /\ mode' = mode
    <2>1. Sound(blk, scr, files)' /\ Listing' /\ Copied(scr') = {} /\ todo' = Tail(todo)
      BY <1>1, <1>2, <1>4, <1>5, <1>6, StayListing, ConsMore
    <2>2. ASSUME NEW sn \in Serials, Calling(sn), IsReturn(todo, sn, n) PROVE AtSweep'
      <3>1. PICK A \in Steps, q \in 1 .. 5, s \in Nat : IsAlloc(A, sn) /\ Tail(todo) = Cons(<<"sweep", q, s>>, A)
        BY <2>2, ReturnShape
      <3>2. Settled(sn)'
        BY <1>6, <2>1, <2>2 DEF Settled, Calling
      <3>3. Redundant(blk', scr')
        BY <2>1 DEF Redundant
      <3>4. q \in 1 .. Len(Limit)
        BY Sizes
      <3>5. QED
        BY <2>1, <3>1, <3>2, <3>3, <3>4 DEF AtSweep
    <2>3. ASSUME mode = "boot", todo \in Ending(n) PROVE AtEnd'
      BY <1>6, <2>1, <2>3, EndingIs DEF AtEnd
    <2>4. QED
      BY <1>3, <2>1, <2>2, <2>3 DEF Here, Place
  <1>7. CASE /\ S # {}
             /\ blk' = [blk EXCEPT ![scr[Min(S)].orig] =
                           Over(blk[scr[Min(S)].orig], scr[Min(S)].data)]
             /\ IF Over(blk[scr[Min(S)].orig], scr[Min(S)].data) = scr[Min(S)].data
                THEN /\ todo' = <<<<"strike", Min(S)>>, <<"restore", Min(S) + 1>>>> \o Tail(todo)
                     /\ mode' = mode
                ELSE Fail
    <2>1. PICK i \in Copied(scr) : i = Min(S) /\ From(i) /\ i \in Nat
      <3>1. S \in SUBSET Nat
        BY <1>5, Sizes DEF Copied, Entries
      <3>2. Min(S) \in S /\ \A j \in S : Min(S) <= j
        BY <1>7, <3>1, MinIsLeast
      <3>3. QED
        BY <1>5, <3>1, <3>2 DEF From
    <2>2. PICK b \in 1 .. Total - 1 : b = scr[i].orig
      BY <1>2 DEF Sound, Restorable
    <2>3. PICK d : d = scr[i].data
      OBVIOUS
    <2>4. /\ d.st = "CLOSED" /\ d.sn # 0 /\ blk[b] \in {d, Blank} /\ ~Current(d) /\ d \in Content
          /\ \A j \in Copied(scr) : scr[j].orig = b => d = scr[j].data
      <3>1. scr[i] \in Entry
        BY <1>2 DEF Sound, Types, Copied
      <3>2. QED
        BY <1>2, <2>2, <2>3, <3>1 DEF Sound, Restorable, Current, Entry
    <2>5. Over(blk[b], d) = d
      BY <2>4 DEF Over
    <2>6. blk' = [blk EXCEPT ![b] = d]
      BY <1>7, <2>1, <2>2, <2>3, <2>5
    <2>7. todo' = <<<<"strike", i>>, <<"restore", i + 1>>>> \o Tail(todo) /\ mode' = mode
      BY <1>7, <2>1, <2>2, <2>3, <2>5
    <2>8. \A f \in Files : Good(blk[b], f, files[f]) => Good(d, f, files[f])
      BY <2>4, BlankIs
    <2>9. Harmless(blk, scr, files, b, d, blk')
      BY <1>2, <2>4, <2>6, <2>8 DEF Harmless
    <2>10. /\ Sound(blk', scr, files) /\ blk'[b] = d
           /\ \A c \in 0 .. Total : c # b => blk'[c] = blk[c]
           /\ \A l : l # b /\ Sole(blk, scr, files, l) => Sole(blk', scr, files, l)
      BY <2>4, <2>9, OneBlock
    <2>11. Sole(blk, scr, files, cur) /\ blk[cur].st = "CLOSED" /\ blk[cur].sn = 0 /\ cur \in 1 .. Total - 1
      BY <1>4 DEF Listing, Sole, Valid, Current
    <2>12. cur # b /\ cur \in 0 .. Total
      BY <2>4, <2>11, BlankIs, Sizes
    <2>13. Listing'
      BY <1>1, <2>10, <2>11, <2>12 DEF Listing
    <2>14. PICK K \in Steps : K = Cons(<<"restore", i + 1>>, Tail(todo)) /\ todo' = Cons(<<"strike", i>>, K)
      <3>1. i \in Int /\ i + 1 \in Int
        BY <2>1
      <3>2. <<"strike", i>> \in Step /\ <<"restore", i + 1>> \in Step
        BY <3>1, StepIs DEF Word
      <3>3. todo' = Cons(<<"strike", i>>, Cons(<<"restore", i + 1>>, Tail(todo)))
        BY <1>4, <2>7, <3>2, ConsMore
      <3>4. Cons(<<"restore", i + 1>>, Tail(todo)) \in Steps
        BY <1>4, <3>2, ConsIs
      <3>5. QED
        BY <3>3, <3>4
    <2>15. i \in Copied(scr') /\ blk'[scr'[i].orig] = scr'[i].data /\ From(i)'
      BY <1>1, <2>1, <2>2, <2>3, <2>10 DEF From
    <2>16. Sound(blk', scr', files')
      BY <1>1, <2>10
    <2>17. ASSUME NEW sn \in Serials, Calling(sn), IsReturn(todo, sn, n) PROVE AtStrike'
      <3>1. Calling(sn)'
        BY <2>7, <2>13, <2>17 DEF Calling
      <3>2. IsReturn(K, sn, i + 1)
        <4>1. PICK A \in Steps, q \in 1 .. 5, s \in Nat :
                  IsAlloc(A, sn) /\ Tail(todo) = Cons(<<"sweep", q, s>>, A)
          BY <2>17, ReturnShape
        <4>2. q \in 1 .. Len(Limit)
          BY Sizes
        <4>3. QED
          BY <2>14, <4>1, <4>2 DEF IsReturn
      <3>3. QED
        BY <2>14, <2>15, <3>1, <3>2 DEF AtStrike
    <2>18. ASSUME mode = "boot", todo \in Ending(n) PROVE AtLastStrike'
      <3>1. K \in Ending(i + 1)
        <4>1. Tail(todo) \in {<<>>, Cons(<<"discardopen">>, <<>>)}
          BY <2>18, EndingIs
        <4>2. QED
          BY <2>14, <4>1 DEF Ending
      <3>2. mode' = "boot" /\ todo' = Cons(<<"strike", i>>, K)
        BY <2>7, <2>14, <2>18
      <3>3. QED
        BY <2>13, <2>15, <3>1, <3>2 DEF AtLastStrike
    <2>19. QED
      BY <1>3, <2>16, <2>17, <2>18 DEF Here, Place
  <1>8. QED
    BY <1>1, <1>6, <1>7

\* The entry of a block that went back is struck off.
LEMMA StrikeStep ==
    ASSUME Here, Strike
    PROVE  Here'
  <1> DEFINE i0 == Head(todo)[2]
  <1>1. /\ Busy("strike") /\ blk' = blk /\ files' = files /\ cur' = cur /\ mode' = mode
        /\ scr' = [scr EXCEPT ![i0].st = "STRUCK"]
        /\ todo' = <<>> \o Tail(todo)
    BY DEF Strike, Keep, Then
  <1>2. (AtStrike \/ AtLastStrike) /\ Sound(blk, scr, files)
    BY <1>1, Places DEF Here
  <1>3. PICK i \in Copied(scr), K \in Steps :
            /\ todo = Cons(<<"strike", i>>, K) /\ blk[scr[i].orig] = scr[i].data
            /\ From(i)
            /\ \/ \E sn \in Serials : Calling(sn) /\ IsReturn(K, sn, i + 1)
               \/ mode = "boot" /\ Listing /\ K \in Ending(i + 1)
    <2>1. \A i \in Copied(scr) : i + 1 \in Int
      BY Sizes DEF Copied, Entries
    <2>2. \A i \in Copied(scr) : Ending(i + 1) \subseteq Steps
      BY <2>1, EndingIs
    <2>3. QED
      BY <1>2, <2>2 DEF AtStrike, AtLastStrike
  <1>4. i0 = i /\ todo' = K /\ i \in Entries
    <2>1. i \in Entries /\ i \in Int
      BY Sizes DEF Copied, Entries
    <2>2. <<"strike", i>> \in Step
      BY <2>1, StepIs DEF Word
    <2>3. Head(todo) = <<"strike", i>> /\ Tail(todo) = K
      BY <1>3, <2>2, ConsIs
    <2>4. QED
      BY <1>1, <2>1, <2>3, ConsMore
  <1> HIDE DEF i0
  <1>5. scr \in [Entries -> Entry] /\ InOrder(scr) /\ Restorable(blk, scr)
    BY <1>2 DEF Sound, Types
  <1>6. /\ scr' \in [Entries -> Entry] /\ scr'[i].st = "STRUCK"
        /\ \A j \in Entries : scr'[j].data = scr[j].data /\ (j # i => scr'[j] = scr[j])
    BY <1>1, <1>4, <1>5 DEF Entry
  <1>7. Copied(scr') = Copied(scr) \ {i} /\ Vacant(scr') = Vacant(scr)
    BY <1>3, <1>6 DEF Copied, Vacant
  <1>8. \A j \in Copied(scr) \ {i} : j \in Entries /\ scr'[j] = scr[j]
    BY <1>6 DEF Copied
  <1>9. Sound(blk', scr', files')
    <2>1. InOrder(scr')
      BY <1>5, <1>6, <1>7 DEF InOrder
    <2>2. Restorable(blk, scr')
      BY <1>5, <1>7, <1>8 DEF Restorable
    <2>3. QED
      BY <1>1, <1>2, <1>6, <2>1, <2>2 DEF Sound, Types
  <1>10. \A b \in 1 .. Total - 1, f \in Files :
             Held(blk, scr, b, f, files[f]) => Held(blk, scr', b, f, files[f])
    BY <1>3, <1>7, <1>8 DEF Held
  <1>11. From(i + 1)' /\ i + 1 \in Nat
    <2>1. i \in Nat /\ Copied(scr) \subseteq Nat
      BY Sizes DEF Copied, Entries
    <2>2. \A j \in Copied(scr) \ {i} : i + 1 <= j
      BY <1>3, <2>1 DEF From
    <2>3. QED
      BY <1>7, <2>1, <2>2 DEF From
  <1>12. ASSUME NEW sn \in Serials, Calling(sn), IsReturn(K, sn, i + 1) PROVE AtRestore'
    <2>1. Calling(sn)'
      BY <1>1, <1>10, <1>12, ScratchListing
    <2>2. QED
      BY <1>4, <1>11, <1>12, <2>1 DEF AtRestore
  <1>13. ASSUME mode = "boot", Listing, K \in Ending(i + 1) PROVE AtLast'
    <2>1. Listing'
      BY <1>1, <1>10, <1>13, ScratchListing
    <2>2. QED
      BY <1>1, <1>4, <1>11, <1>13, <2>1 DEF AtLast
  <1>14. QED
    BY <1>3, <1>9, <1>12, <1>13 DEF Here, Place

\* One value of a function is replaced.
LEMMA PatchIs ==
    ASSUME NEW D, NEW S, NEW k, k \in [D -> S], NEW b \in D, NEW d \in S, NEW m, m = [k EXCEPT ![b] = d]
    PROVE  m \in [D -> S] /\ m[b] = d /\ \A c \in D : c # b => m[c] = k[c]
  OBVIOUS

\* What a client's call knows of the list in use when the scratch area is empty.
LEMMA ListingIs ==
    ASSUME Sound(blk, scr, files), Listing
    PROVE  /\ cur \in 1 .. Total - 1 /\ cur \in 0 .. Total /\ blk[cur] \in Content
           /\ blk[cur].st = "CLOSED" /\ blk[cur].sn = 0 /\ blk[cur].zero = "CLOSED"
           /\ Names(blk, scr, files, cur) /\ Sole(blk, scr, files, cur) /\ Current(blk[cur])
           /\ \A b \in 0 .. Total - 1 : Current(blk[b]) => b = cur
           /\ Copied(scr) = {} => \A f \in Files :
                IF files[f] = 0 THEN blk[cur].at[f] = 0
                ELSE blk[cur].at[f] \in 1 .. Total - 1 /\ Good(blk[blk[cur].at[f]], f, files[f])
  <1>1. cur \in 1 .. Total - 1 /\ cur \in 0 .. Total
    BY Sizes DEF Listing, Sole, Valid
  <1>2. blk[cur] \in Content
    BY <1>1 DEF Sound, Types
  <1>3. /\ blk[cur].st = "CLOSED" /\ blk[cur].sn = 0 /\ blk[cur].zero = "CLOSED"
        /\ Names(blk, scr, files, cur) /\ Sole(blk, scr, files, cur) /\ Current(blk[cur])
        /\ \A b \in 0 .. Total - 1 : Current(blk[b]) => b = cur
    BY DEF Listing, Sole, Valid, Current
  <1>4. ASSUME Copied(scr) = {}, NEW f \in Files
        PROVE  IF files[f] = 0 THEN blk[cur].at[f] = 0
               ELSE blk[cur].at[f] \in 1 .. Total - 1 /\ Good(blk[blk[cur].at[f]], f, files[f])
    BY <1>3, <1>4 DEF Names, Held
  <1>5. QED
    BY <1>1, <1>2, <1>3, <1>4

\* An OPEN item is appended to the list.
LEMMA AppendOpenStep ==
    ASSUME Here, AppendOpen
    PROVE  Here'
  <1> DEFINE f0 == Head(todo)[2]
  <1>1. /\ Busy("append") /\ scr' = scr /\ files' = files /\ cur' = cur /\ mode' = mode /\ got' = got
        /\ blk' = [blk EXCEPT ![cur].open = @ \cup {f0}]
        /\ todo' = <<>> \o Tail(todo)
    BY DEF AppendOpen, Keep, Then
  <1>2. AtWriting /\ Sound(blk, scr, files)
    BY <1>1, Places DEF Here
  <1>3. PICK f \in Files :
            /\ mode = "up" /\ Listing /\ Copied(scr) = {}
            /\ todo \in {Writing(f), Cons(<<"commit", f>>, <<>>)}
            /\ got \in 1 .. Total - 1 /\ blk[got].st = "OPEN" /\ blk[got].sn = f
    BY <1>2 DEF AtWriting
  <1>4. f0 = f /\ todo' = Cons(<<"commit", f>>, <<>>)
    <2>1. f \in Int
      BY Sizes
    <2>2. /\ <<"append", f>> \in Step /\ <<"commit", f>> \in Step
          /\ <<>> \in Steps /\ Cons(<<"commit", f>>, <<>>) \in Steps
      BY <2>1, StepIs, Shapes DEF Word
    <2>3. CASE todo = Cons(<<"commit", f>>, <<>>)
      <3>1. Head(todo) = <<"commit", f>>
        BY <2>2, <2>3, ConsIs
      <3>2. Head(todo)[1] = "append" /\ <<"commit", f>>[1] = "commit"
        BY <1>1 DEF Busy
      <3>3. QED
        BY <3>1, <3>2
    <2>4. CASE todo = Writing(f)
      <3>1. Head(todo) = <<"append", f>> /\ Tail(todo) = Cons(<<"commit", f>>, <<>>)
        BY <2>2, <2>4, ConsIs DEF Writing
      <3>2. todo' = Cons(<<"commit", f>>, <<>>)
        BY <1>1, <2>2, <3>1, ConsMore
      <3>3. QED
        BY <3>1, <3>2
    <2>5. QED
      BY <1>3, <2>3, <2>4
  <1> HIDE DEF f0
  <1>5. PICK c \in 1 .. Total - 1 : c = cur
    BY <1>3 DEF Listing, Sole, Valid
  <1> DEFINE d == [blk[c] EXCEPT !.open = @ \cup {f}]
  <1>6. d \in Content /\ d.st = "CLOSED" /\ Current(d) /\ d.at = blk[c].at /\ d.sn = 0
    <2>1. blk[c] \in Content /\ blk[c].st = "CLOSED" /\ blk[c].sn = 0 /\ blk[c].zero = "CLOSED"
      BY <1>2, <1>3, <1>5, ListingIs
    <2>2. QED
      BY <2>1 DEF Content, Current
  <1>7. blk' = [blk EXCEPT ![c] = d]
    BY <1>1, <1>4, <1>5
  <1> HIDE DEF d
  <1>8. Harmless(blk, scr, files, c, d, blk')
    <2>1. \A f1 \in Files : ~Good(blk[c], f1, files[f1])
      <3>1. blk[c].sn = 0 /\ 0 \notin Files
        BY <1>2, <1>3, <1>5, ListingIs, Sizes
      <3>2. QED
        BY <3>1 DEF Good
    <2>2. QED
      BY <1>2, <1>3, <1>6, <1>7, <2>1 DEF Harmless
  <1>9. /\ Sound(blk', scr, files) /\ blk'[c] = d
        /\ \A b \in 0 .. Total : b # c => blk'[b] = blk[b]
        /\ Sole(blk, scr, files, c) => Sole(blk', scr, files, c)
    BY <1>6, <1>8, OneBlock
  <1>10. Listing'
    BY <1>1, <1>3, <1>5, <1>6, <1>9 DEF Listing
  <1>11. blk'[got] = blk[got]
    <2>1. got # c /\ got \in 0 .. Total
      <3>1. blk[c].st = "CLOSED"
        BY <1>2, <1>3, <1>5, ListingIs
      <3>2. got # c
        BY <1>3, <3>1
      <3>3. Total \in Int
        BY Sizes
      <3>4. got \in 0 .. Total
        BY <1>3, <3>3
      <3>5. QED
        BY <3>2, <3>4
    <2>2. QED
      BY <1>9, <2>1
  <1>12. AtWriting'
    BY <1>1, <1>3, <1>4, <1>10, <1>11 DEF AtWriting
  <1>13. QED
    BY <1>1, <1>9, <1>12 DEF Here, Place

\* The blocks k after list c has got file f, version v of it in block g; the block
\* of the version before was old.
Committed(k, c, g, old, f, v) ==
    LET b1 == [k EXCEPT ![g].st = "CLOSED", ![g].ver = v, ![c].at[f] = g, ![c].open = @ \ {f}]
    IN  IF old = 0 THEN b1 ELSE [b1 EXCEPT ![old].st = "DIRTY"]

\* The commit of a file's new version; the block of the old one is dirty.
LEMMA CommitStep ==
    ASSUME Here, Commit
    PROVE  Here'
  <1> DEFINE f0 == Head(todo)[2]
  <1>1. /\ Busy("commit") /\ scr' = scr /\ cur' = cur /\ mode' = mode
        /\ todo' = <<>> \o Tail(todo)
        /\ files' = [files EXCEPT ![f0] = NextVer(f0)]
        /\ blk' = Committed(blk, cur, got, blk[cur].at[f0], f0, NextVer(f0))
    BY Zenon DEF Commit, Then, Committed
  <1>2. AtWriting /\ Sound(blk, scr, files)
    BY <1>1, Places DEF Here
  <1>3. PICK f \in Files :
            /\ mode = "up" /\ Listing /\ Copied(scr) = {}
            /\ todo \in {Writing(f), Cons(<<"commit", f>>, <<>>)}
            /\ got \in 1 .. Total - 1 /\ blk[got].st = "OPEN" /\ blk[got].sn = f
    BY <1>2 DEF AtWriting
  <1>4. f0 = f /\ todo' = <<>>
    <2>1. f \in Int
      BY Sizes
    <2>2. /\ <<"append", f>> \in Step /\ <<"commit", f>> \in Step
          /\ <<>> \in Steps /\ Cons(<<"commit", f>>, <<>>) \in Steps
      BY <2>1, StepIs, Shapes DEF Word
    <2>3. CASE todo = Cons(<<"commit", f>>, <<>>)
      <3>1. Head(todo) = <<"commit", f>> /\ Tail(todo) = <<>>
        BY <2>2, <2>3, ConsIs
      <3>2. todo' = <<>>
        BY <1>1, <2>2, <3>1, ConsMore
      <3>3. QED
        BY <3>1, <3>2
    <2>4. CASE todo = Writing(f)
      <3>1. Head(todo) = <<"append", f>>
        BY <2>2, <2>4, ConsIs DEF Writing
      <3>2. Head(todo)[1] = "commit" /\ <<"append", f>>[1] = "append"
        BY <1>1 DEF Busy
      <3>3. QED
        BY <3>1, <3>2
    <2>5. QED
      BY <1>3, <2>3, <2>4
  <1> HIDE DEF f0
  <1>5. PICK c \in 1 .. Total - 1 : c = cur
    BY <1>3 DEF Listing, Sole, Valid
  <1>6. PICK g \in 1 .. Total - 1 : g = got
    BY <1>3
  <1>7. PICK old : old = blk[c].at[f]
    OBVIOUS
  <1>8. PICK v : v = NextVer(f)
    OBVIOUS
  <1>9. v \in {1, 2}
    BY <1>8 DEF NextVer
  <1>10. /\ blk[c] \in Content /\ blk[c].st = "CLOSED" /\ blk[c].sn = 0 /\ blk[c].zero = "CLOSED"
         /\ \A h \in Files :
                IF files[h] = 0 THEN blk[c].at[h] = 0
                ELSE blk[c].at[h] \in 1 .. Total - 1 /\ Good(blk[blk[c].at[h]], h, files[h])
         /\ \A b \in 0 .. Total - 1 : Current(blk[b]) => b = c
    BY <1>2, <1>3, <1>5, ListingIs
  <1>11. /\ blk \in [0 .. Total -> Content] /\ blk[0] = Blank /\ scr \in [Entries -> Entry]
         /\ files \in [Files -> 0 .. 2] /\ InOrder(scr)
         /\ Total \in Nat \ {0, 1} /\ Files \subseteq Nat \ {0}
    BY <1>2, Sizes DEF Sound, Types
  <1>12. g # c /\ g \in 0 .. Total /\ c \in 0 .. Total /\ f # 0
    BY <1>3, <1>6, <1>10, <1>11
  <1>13. old = 0 \/ (old \in 1 .. Total - 1 /\ Good(blk[old], f, files[f]) /\ files[f] # 0)
    BY <1>7, <1>10
  <1>14. old # 0 => old # g /\ old # c /\ old \in 0 .. Total
    BY <1>3, <1>6, <1>10, <1>11, <1>12, <1>13 DEF Good
  <1> DEFINE gd == [blk[g] EXCEPT !.st = "CLOSED", !.ver = v]
             cd == [blk[c] EXCEPT !.at[f] = g, !.open = @ \ {f}]
             od == [blk[old] EXCEPT !.st = "DIRTY"]
  <1>15. /\ gd \in Content /\ Good(gd, f, v) /\ ~Current(gd)
    <2>1. blk[g] \in Content /\ blk[g].sn = f
      BY <1>3, <1>6, <1>11, <1>12
    <2>2. gd \in Content /\ gd.st = "CLOSED" /\ gd.sn = f /\ gd.ver = v
      BY <1>9, <2>1 DEF Content
    <2> HIDE DEF gd
    <2>3. QED
      BY <1>12, <2>2 DEF Good, Current
  <1>16. /\ cd \in Content /\ cd.st = "CLOSED" /\ cd.sn = 0 /\ cd.zero = "CLOSED"
         /\ cd.at[f] = g /\ \A h \in Files : h # f => cd.at[h] = blk[c].at[h]
    <2>1. blk[c].at \in [Files -> 0 .. Total] /\ blk[c].open \in SUBSET Files
      BY <1>10 DEF Content
    <2> DEFINE e == [blk[c].at EXCEPT ![f] = g]
               o == blk[c].open \ {f}
    <2>2. e \in [Files -> 0 .. Total] /\ e[f] = g /\ \A h \in Files : h # f => e[h] = blk[c].at[h]
      BY <1>12, <2>1
    <2>3. o \in SUBSET Files
      BY <2>1
    <2>4. cd = [blk[c] EXCEPT !.at = e, !.open = o]
      BY <1>10 DEF Content
    <2> HIDE DEF e, o, cd
    <2>5. cd \in Content /\ cd.st = "CLOSED" /\ cd.sn = 0 /\ cd.zero = "CLOSED" /\ cd.at = e
      BY <1>10, <2>2, <2>3, <2>4 DEF Content
    <2>6. QED
      BY <2>2, <2>5
  <1>17. old # 0 => od \in Content /\ od.st = "DIRTY" /\ ~Current(od)
    <2>1. ASSUME old # 0 PROVE od \in Content /\ od.st = "DIRTY"
      <3>1. blk[old] \in Content
        BY <1>11, <1>14, <2>1
      <3>2. QED
        BY <3>1 DEF Content
    <2>2. QED
      BY <2>1 DEF Current
  <1>18. /\ files' = [files EXCEPT ![f] = v]
         /\ blk' = Committed(blk, c, g, old, f, v)
    <2>1. f0 = f /\ cur = c /\ got = g /\ NextVer(f) = v /\ blk[c].at[f] = old
      BY <1>4, <1>5, <1>6, <1>7, <1>8
    <2>2. files' = [files EXCEPT ![f] = v]
      BY <1>1, <2>1
    <2>3. NextVer(f0) = v /\ blk[cur].at[f0] = old
      BY <2>1
    <2>4. blk' = Committed(blk, c, g, old, f, v)
      BY <1>1, <2>1, <2>3
    <2>5. QED
      BY <2>2, <2>4
  <1>19. PICK b1 : b1 = [blk EXCEPT ![g].st = "CLOSED", ![g].ver = v, ![c].at[f] = g, ![c].open = @ \ {f}]
    OBVIOUS
  <1>20. PICK k : k = [blk EXCEPT ![g] = gd]
    OBVIOUS
  <1>21. b1 = [k EXCEPT ![c] = cd]
    <2>1. g # c /\ g \in DOMAIN blk /\ c \in DOMAIN blk
      BY <1>11, <1>12
    <2>2. QED
      BY <1>19, <1>20, <2>1
  <1>22. blk' = IF old = 0 THEN b1 ELSE [b1 EXCEPT ![old].st = "DIRTY"]
    <2>1. Committed(blk, c, g, old, f, v) = IF old = 0 THEN b1 ELSE [b1 EXCEPT ![old].st = "DIRTY"]
      BY <1>19 DEF Committed
    <2>2. QED
      BY <1>18, <2>1, Zenon
  <1>23. old # 0 => blk' = [b1 EXCEPT ![old] = od]
    <2>1. k \in [0 .. Total -> Content] /\ \A b \in 0 .. Total : b # g => k[b] = blk[b]
      BY <1>11, <1>12, <1>15, <1>20, PatchIs
    <2>2. b1 \in [0 .. Total -> Content] /\ \A b \in 0 .. Total : b # c => b1[b] = k[b]
      BY <1>12, <1>16, <1>21, <2>1, PatchIs
    <2>3. old # 0 => b1[old] = blk[old] /\ old \in 0 .. Total
      BY <1>14, <2>1, <2>2
    <2>4. QED
      BY <1>22, <2>2, <2>3
  <1> HIDE DEF gd, cd, od
  <1>24. /\ blk' \in [0 .. Total -> Content] /\ blk'[g] = gd /\ blk'[c] = cd
         /\ old # 0 => blk'[old] = od
         /\ \A b \in 0 .. Total : b # g /\ b # c /\ b # old => blk'[b] = blk[b]
    <2>1. /\ k \in [0 .. Total -> Content] /\ k[g] = gd
          /\ \A b \in 0 .. Total : b # g => k[b] = blk[b]
      BY <1>11, <1>12, <1>15, <1>20, PatchIs
    <2>2. /\ b1 \in [0 .. Total -> Content] /\ b1[c] = cd
          /\ \A b \in 0 .. Total : b # c => b1[b] = k[b]
      BY <1>12, <1>16, <1>21, <2>1, PatchIs
    <2>3. b1[g] = gd /\ \A b \in 0 .. Total : b # g /\ b # c => b1[b] = blk[b]
      BY <1>12, <2>1, <2>2
    <2>4. CASE old = 0
      BY <1>22, <2>2, <2>3, <2>4
    <2>5. CASE old # 0
      <3>1. old # g /\ old # c /\ old \in 0 .. Total /\ od \in Content
        BY <1>14, <1>17, <2>5
      <3>2. /\ blk' \in [0 .. Total -> Content] /\ blk'[old] = od
            /\ \A b \in 0 .. Total : b # old => blk'[b] = b1[b]
        BY <1>23, <2>2, <2>5, <3>1, PatchIs
      <3>3. QED
        BY <1>12, <2>2, <2>3, <3>1, <3>2
    <2>6. QED
      BY <2>4, <2>5
  <1>25. blk'[0] = Blank
    <2>1. 0 \in 0 .. Total /\ 0 # g /\ 0 # c
      BY <1>11
    <2>2. CASE old = 0
      <3>1. \A b \in 0 .. Total : b # g => k[b] = blk[b]
        BY <1>11, <1>12, <1>15, <1>20, PatchIs
      <3>2. k \in [0 .. Total -> Content]
        BY <1>11, <1>12, <1>15, <1>20, PatchIs
      <3>3. b1[0] = k[0]
        BY <1>12, <1>16, <1>21, <2>1, <3>2, PatchIs
      <3>4. QED
        BY <1>11, <1>22, <2>1, <2>2, <3>1, <3>3
    <2>3. CASE old # 0
      BY <1>11, <1>24, <2>1, <2>3
    <2>4. QED
      BY <2>2, <2>3
  <1>26. files' \in [Files -> 0 .. 2] /\ files'[f] = v /\ \A h \in Files : h # f => files'[h] = files[h]
    BY <1>9, <1>11, <1>18
  <1>27. Sound(blk', scr', files')
    BY <1>1, <1>3, <1>11, <1>24, <1>25, <1>26 DEF Sound, Types, Restorable
  <1>28. Names(blk', scr', files', c)
    <2>1. ASSUME NEW h \in Files, h # f, files'[h] # 0
          PROVE  blk'[c].at[h] \in 1 .. Total - 1 /\ Good(blk'[blk'[c].at[h]], h, files'[h])
      <3>1. PICK b : b = blk[c].at[h]
        OBVIOUS
      <3>2. files[h] # 0
        BY <1>26, <2>1
      <3>3. b \in 1 .. Total - 1 /\ Good(blk[b], h, files[h])
        BY <1>10, <3>1, <3>2
      <3>4. b \in 0 .. Total
        BY <1>11, <3>3
      <3>5. b # g /\ b # c /\ b # old
        BY <1>3, <1>6, <1>10, <1>11, <1>13, <2>1, <3>2, <3>3, <3>4 DEF Good
      <3>6. QED
        BY <1>16, <1>24, <1>26, <2>1, <3>1, <3>2, <3>3, <3>4, <3>5
    <2>2. ASSUME NEW h \in Files, h # f, files'[h] = 0
          PROVE  blk'[c].at[h] = 0
      BY <1>10, <1>16, <1>24, <1>26, <2>2
    <2>3. blk'[c].at[f] = g /\ Good(blk'[g], f, files'[f]) /\ files'[f] # 0
      BY <1>9, <1>15, <1>16, <1>24, <1>26
    <2>4. QED
      BY <2>1, <2>2, <2>3 DEF Names, Held
  <1>29. Listing'
    <2>1. \A b \in 0 .. Total - 1 : Current(blk'[b]) => b = c
      <3>1. ASSUME NEW b \in 0 .. Total - 1, b # c, b # g, b # old PROVE blk'[b] = blk[b]
        <4>1. b \in 0 .. Total
          BY <1>11
        <4>2. QED
          BY <1>24, <3>1, <4>1
      <3>2. ~Current(blk'[g]) /\ (old # 0 => ~Current(blk'[old])) /\ (old = 0 => ~Current(blk'[old]))
        BY <1>15, <1>17, <1>24, <1>25, BlankIs
      <3>3. QED
        BY <1>10, <3>1, <3>2
    <2>2. Current(blk'[c])
      BY <1>16, <1>24 DEF Current
    <2>3. Sole(blk', scr', files', c)
      BY <1>28, <2>1, <2>2 DEF Sole, Valid
    <2>4. QED
      BY <1>1, <1>5, <1>16, <1>24, <2>3 DEF Listing
  <1>30. AtRest'
    BY <1>1, <1>3, <1>4, <1>29 DEF AtRest
  <1>31. QED
    BY <1>27, <1>30 DEF Here, Place

\* A client writes a file: its block is to be allocated first.
LEMMA WriteFileStep ==
    ASSUME Here, NEW f \in Files, WriteFile(f)
    PROVE  Here'
  <1>1. /\ mode = "up" /\ todo = <<>> /\ blk' = blk /\ scr' = scr /\ files' = files /\ cur' = cur /\ mode' = mode
        /\ todo' = <<<<"alloc", f, IF blk[cur].at[f] = 0 THEN NONE ELSE blk[cur].at[f], 0>>,
                     <<"append", f>>, <<"commit", f>>>>
    BY DEF WriteFile, flash
  <1>2. AtRest /\ Sound(blk, scr, files)
    <2>1. AtEnd \/ AtRest
      BY <1>1, Places DEF Here
    <2>2. ~AtEnd
      BY <1>1 DEF AtEnd
    <2>3. QED
      BY <2>1, <2>2 DEF Here
  <1>3. Listing /\ Copied(scr) = {}
    BY <1>2 DEF AtRest
  <1>4. PICK old : old = blk[cur].at[f]
    OBVIOUS
  <1>5. PICK h : h = IF old = 0 THEN NONE ELSE old
    OBVIOUS
  <1>6. h \in {NONE} \cup 0 .. Total - 1 /\ h \in Int
    <2>1. old = 0 \/ old \in 1 .. Total - 1
      BY <1>2, <1>3, <1>4, ListingIs
    <2>2. QED
      BY <1>5, <2>1, Sizes DEF NONE
  <1>7. f \in Serials /\ f \in Int /\ f # 0
    BY Sizes DEF Serials
  <1>8. <<"alloc", f, h, 0>> \in Step /\ <<"append", f>> \in Step /\ <<"commit", f>> \in Step
    BY <1>6, <1>7, StepIs DEF Word
  <1>9. todo' = Cons(<<"alloc", f, h, 0>>, Writing(f))
    <2>1. todo' = <<<<"alloc", f, h, 0>>, <<"append", f>>, <<"commit", f>>>>
      BY <1>1, <1>4, <1>5
    <2>2. QED
      BY <1>8, <2>1, Calls DEF Writing
  <1>10. IsAlloc(todo', f)
    <2>1. 0 \in 0 .. Len(Limit) /\ After(f) = Writing(f)
      BY <1>7 DEF Limit, After
    <2>2. QED
      BY <1>6, <1>9, <2>1 DEF IsAlloc
  <1>11. Settled(f)
    BY <1>1, <1>3, <1>7 DEF Settled, Calling
  <1>12. Sound(blk, scr, files)' /\ Settled(f)'
    BY <1>1, <1>2, <1>7, <1>11, StayListing
  <1>13. AtAlloc'
    BY <1>7, <1>10, <1>12 DEF AtAlloc
  <1>14. QED
    BY <1>12, <1>13 DEF Here, Place

\* The blocks k after list c has lost file f, which was in block b.
Removed(k, c, b, f) == [k EXCEPT ![b].st = "DIRTY", ![c].at[f] = 0]

\* A client removes a file.
LEMMA RemoveFileStep ==
    ASSUME Here, NEW f \in Files, RemoveFile(f)
    PROVE  Here'
  <1>1. /\ mode = "up" /\ todo = <<>> /\ scr' = scr /\ cur' = cur /\ mode' = mode /\ todo' = todo
        /\ blk[cur].at[f] # 0
        /\ blk' = Removed(blk, cur, blk[cur].at[f], f)
        /\ files' = [files EXCEPT ![f] = 0]
    BY Zenon DEF RemoveFile, Removed
  <1>2. AtRest /\ Sound(blk, scr, files)
    <2>1. AtEnd \/ AtRest
      BY <1>1, Places DEF Here
    <2>2. ~AtEnd
      BY <1>1 DEF AtEnd
    <2>3. QED
      BY <2>1, <2>2 DEF Here
  <1>3. Listing /\ Copied(scr) = {}
    BY <1>2 DEF AtRest
  <1>4. PICK c \in 1 .. Total - 1 : c = cur
    BY <1>3 DEF Listing, Sole, Valid
  <1>5. PICK old : old = blk[c].at[f]
    OBVIOUS
  <1>6. /\ blk[c] \in Content /\ blk[c].st = "CLOSED" /\ blk[c].sn = 0 /\ blk[c].zero = "CLOSED"
        /\ \A h \in Files :
               IF files[h] = 0 THEN blk[c].at[h] = 0
               ELSE blk[c].at[h] \in 1 .. Total - 1 /\ Good(blk[blk[c].at[h]], h, files[h])
        /\ \A b \in 0 .. Total - 1 : Current(blk[b]) => b = c
    BY <1>2, <1>3, <1>4, ListingIs
  <1>7. /\ blk \in [0 .. Total -> Content] /\ blk[0] = Blank /\ scr \in [Entries -> Entry]
        /\ files \in [Files -> 0 .. 2] /\ InOrder(scr)
        /\ Total \in Nat \ {0, 1} /\ Files \subseteq Nat \ {0}
    BY <1>2, Sizes DEF Sound, Types
  <1>8. /\ old \in 1 .. Total - 1 /\ old \in 0 .. Total /\ Good(blk[old], f, files[f])
        /\ c \in 0 .. Total /\ f # 0
    <2>1. old # 0
      BY <1>1, <1>4, <1>5
    <2>2. old \in 1 .. Total - 1 /\ Good(blk[old], f, files[f])
      BY <1>5, <1>6, <2>1
    <2>3. QED
      BY <1>7, <2>2
  <1>9. old # c
    BY <1>6, <1>8 DEF Good
  <1> DEFINE cd == [blk[c] EXCEPT !.at[f] = 0]
             od == [blk[old] EXCEPT !.st = "DIRTY"]
  <1>10. od \in Content /\ ~Current(od)
    <2>1. blk[old] \in Content
      BY <1>7, <1>8
    <2>2. od \in Content /\ od.st = "DIRTY"
      BY <2>1 DEF Content
    <2>3. QED
      BY <2>2 DEF Current
  <1>11. /\ cd \in Content /\ cd.st = "CLOSED" /\ cd.sn = 0 /\ cd.zero = "CLOSED"
         /\ cd.at[f] = 0 /\ \A h \in Files : h # f => cd.at[h] = blk[c].at[h]
    <2>1. blk[c].at \in [Files -> 0 .. Total]
      BY <1>6 DEF Content
    <2> DEFINE e == [blk[c].at EXCEPT ![f] = 0]
    <2>2. e \in [Files -> 0 .. Total] /\ e[f] = 0 /\ \A h \in Files : h # f => e[h] = blk[c].at[h]
      BY <1>7, <2>1
    <2>3. cd = [blk[c] EXCEPT !.at = e]
      BY <1>6 DEF Content
    <2> HIDE DEF e, cd
    <2>4. cd \in Content /\ cd.st = "CLOSED" /\ cd.sn = 0 /\ cd.zero = "CLOSED" /\ cd.at = e
      BY <1>6, <2>2, <2>3 DEF Content
    <2>5. QED
      BY <2>2, <2>4
  <1>12. blk' = [blk EXCEPT ![old] = od, ![c] = cd]
    <2>1. cur = c /\ blk[cur].at[f] = old
      BY <1>4, <1>5
    <2>2. blk' = Removed(blk, c, old, f)
      BY <1>1, <2>1
    <2>3. QED
      BY <1>7, <1>8, <1>9, <2>2 DEF Removed
  <1> HIDE DEF cd, od
  <1>13. /\ blk' \in [0 .. Total -> Content] /\ blk'[old] = od /\ blk'[c] = cd
         /\ \A b \in 0 .. Total : b # old /\ b # c => blk'[b] = blk[b]
    BY <1>7, <1>8, <1>9, <1>10, <1>11, <1>12
  <1>14. blk'[0] = Blank
    <2>1. 0 \in 0 .. Total /\ 0 # old /\ 0 # c
      BY <1>7, <1>8
    <2>2. QED
      BY <1>7, <1>13, <2>1
  <1>15. files' \in [Files -> 0 .. 2] /\ files'[f] = 0 /\ \A h \in Files : h # f => files'[h] = files[h]
    BY <1>1, <1>7
  <1>16. Sound(blk', scr', files')
    BY <1>1, <1>3, <1>7, <1>13, <1>14, <1>15 DEF Sound, Types, Restorable
  <1>17. Names(blk', scr', files', c)
    <2>1. ASSUME NEW h \in Files, h # f, files'[h] # 0
          PROVE  blk'[c].at[h] \in 1 .. Total - 1 /\ Good(blk'[blk'[c].at[h]], h, files'[h])
      <3>1. PICK b : b = blk[c].at[h]
        OBVIOUS
      <3>2. files[h] # 0
        BY <1>15, <2>1
      <3>3. b \in 1 .. Total - 1 /\ Good(blk[b], h, files[h])
        BY <1>6, <3>1, <3>2
      <3>4. b \in 0 .. Total
        BY <1>7, <3>3
      <3>5. b # c /\ b # old
        BY <1>6, <1>7, <1>8, <2>1, <3>2, <3>3, <3>4 DEF Good
      <3>6. QED
        BY <1>11, <1>13, <1>15, <2>1, <3>1, <3>2, <3>3, <3>4, <3>5
    <2>2. ASSUME NEW h \in Files, h # f, files'[h] = 0
          PROVE  blk'[c].at[h] = 0
      BY <1>6, <1>11, <1>13, <1>15, <2>2
    <2>3. blk'[c].at[f] = 0 /\ files'[f] = 0
      BY <1>11, <1>13, <1>15
    <2>4. QED
      BY <2>1, <2>2, <2>3 DEF Names, Held
  <1>18. Listing'
    <2>1. \A b \in 0 .. Total - 1 : Current(blk'[b]) => b = c
      <3>1. ASSUME NEW b \in 0 .. Total - 1, b # c, b # old PROVE blk'[b] = blk[b]
        <4>1. b \in 0 .. Total
          BY <1>7
        <4>2. QED
          BY <1>13, <3>1, <4>1
      <3>2. QED
        BY <1>6, <1>10, <1>13, <3>1
    <2>2. Current(blk'[c])
      BY <1>11, <1>13 DEF Current
    <2>3. Sole(blk', scr', files', c)
      BY <1>17, <2>1, <2>2 DEF Sole, Valid
    <2>4. QED
      BY <1>1, <1>4, <1>11, <1>13, <2>3 DEF Listing
  <1>19. AtRest'
    BY <1>1, <1>3, <1>18 DEF AtRest
  <1>20. QED
    BY <1>16, <1>19 DEF Here, Place

-----------------------------------------------------------------------------
(* Power failures and mounts.                                              *)

\* Wherever the power fails, but for one place, there is one list to be found.
LEMMA OneList ==
    ASSUME Place, ~AtDiscarding
    PROVE  \E l \in 1 .. Total - 1 : Sole(blk, scr, files, l)
  <1>1. Listing => \E l \in 1 .. Total - 1 : Sole(blk, scr, files, l)
    BY DEF Listing, Sole, Valid
  <1>2. AtAlloc \/ AtMark \/ AtSweep => Listing
    BY DEF AtAlloc, AtMark, AtSweep, Settled, Calling
  <1>3. AtEraseScratch \/ AtSave \/ AtEntry => Listing
    <2>1. \A sn, R, x, B : Sweeping(sn, R, x, B) => Listing
      BY Zenon DEF Sweeping, Calling
    <2>2. AtEraseScratch => Listing
      BY <2>1, Zenon DEF AtEraseScratch
    <2>3. AtSave => Listing
      BY <2>1, Zenon DEF AtSave
    <2>4. AtEntry => Listing
      <3>1. AtEntry => \E sn, R, x, B : Sweeping(sn, R, x, B)
        BY Zenon DEF AtEntry
      <3>2. QED
        BY <2>1, <3>1, Zenon
    <2>5. QED
      BY <2>2, <2>3, <2>4
  <1>4. AtRestore \/ AtStrike \/ AtWriting => Listing
    BY DEF AtRestore, AtStrike, AtWriting, Calling
  <1>5. AtCopy \/ AtClean \/ AtLast \/ AtLastStrike \/ AtEnd \/ AtRest => Listing
    BY DEF AtCopy, AtClean, AtLast, AtLastStrike, AtEnd, AtRest
  <1>6. AtFind \/ AtZero => \E l \in 1 .. Total - 1 : Sole(blk, scr, files, l)
    BY DEF AtFind, AtZero
  <1>7. AtClose => got \in 1 .. Total - 1 /\ Sole(blk, scr, files, got)
    BY DEF AtClose, Sole, Valid
  <1>8. QED
    BY <1>1, <1>2, <1>3, <1>4, <1>5, <1>6, <1>7 DEF Place

LEMMA CrashStep ==
    ASSUME Here, Crash, spoilt' = {}
    PROVE  Here'
  <1>1. /\ mode' = "boot" /\ todo' = BootCalls /\ blk' = blk /\ scr' = scr /\ files' = files
        /\ ~InTwinWindow
    BY DEF Crash, flash
  <1>2. ~AtDiscarding
    BY <1>1, Places DEF Here, InTwinWindow
  <1>3. PICK l \in 1 .. Total - 1 : Sole(blk, scr, files, l)
    BY <1>2, OneList DEF Here
  <1>4. BootCalls = Cons(<<"find", 0>>, Cleaning)
    <2>1. <<"find", 0>> \in Step /\ <<"clean">> \in Step /\ <<"restore", 1>> \in Step
      BY StepIs DEF Word
    <2>2. QED
      BY <2>1, Calls DEF BootCalls, Cleaning
  <1>5. AtFind'
    <2>1. 0 \in Nat /\ 0 <= l
      BY Sizes
    <2>2. Sole(blk', scr', files', l)
      BY <1>1, <1>3
    <2>3. QED
      BY <1>1, <1>4, <2>1, <2>2 DEF AtFind
  <1>6. Sound(blk', scr', files')
    BY <1>1 DEF Here
  <1>7. QED
    BY <1>5, <1>6 DEF Here, Place

LEMMA BootDoneStep ==
    ASSUME Here, BootDone
    PROVE  Here'
  <1>1. /\ mode = "boot" /\ todo = <<>> /\ mode' = "up" /\ todo' = todo
        /\ blk' = blk /\ scr' = scr /\ files' = files /\ cur' = cur
    BY DEF BootDone, flash
  <1>2. AtEnd
    <2>1. AtEnd \/ AtRest
      BY <1>1, Places DEF Here
    <2>2. QED
      BY <1>1, <2>1 DEF AtRest
  <1>3. AtRest'
    BY <1>1, <1>2, StayListing DEF AtEnd, AtRest
  <1>4. Sound(blk', scr', files')
    BY <1>1 DEF Here
  <1>5. QED
    BY <1>3, <1>4 DEF Here, Place

-----------------------------------------------------------------------------
\* The steps of a mount and what remains after them.
LEMMA MountSteps ==
    /\ Tail(Mounting) = Discarding /\ Tail(Discarding) = Closing /\ Tail(Closing) = Dropping
    /\ Tail(Dropping) = Switching /\ Tail(Switching) = Cleaning
    /\ Tail(Cleaning) = Cons(<<"restore", 1>>, <<>>)
    /\ Head(Closing)[1] = "close" /\ Head(Dropping)[1] = "discard" /\ Head(Switching)[1] = "switch"
    /\ <<>> \o Discarding = Discarding /\ <<>> \o Closing = Closing /\ <<>> \o Dropping = Dropping
    /\ <<>> \o Switching = Switching /\ <<>> \o Cleaning = Cleaning
  <1>1. /\ Cleaning \in Steps /\ Switching \in Steps /\ Dropping \in Steps /\ Closing \in Steps
        /\ Discarding \in Steps /\ Cons(<<"restore", 1>>, <<>>) \in Steps
    BY Shapes
  <1>2. /\ <<"clean">> \in Step /\ <<"switch">> \in Step /\ <<"discard">> \in Step
        /\ <<"close">> \in Step /\ <<"discarding">> \in Step /\ <<"copy">> \in Step
    BY StepIs DEF Word
  <1>3. /\ Tail(Mounting) = Discarding /\ Tail(Discarding) = Closing /\ Tail(Closing) = Dropping
        /\ Tail(Dropping) = Switching /\ Tail(Switching) = Cleaning
        /\ Tail(Cleaning) = Cons(<<"restore", 1>>, <<>>)
    BY <1>1, <1>2, ConsIs, Zenon DEF Mounting, Discarding, Closing, Dropping, Switching, Cleaning
  <1>4. Head(Closing) = <<"close">> /\ Head(Dropping) = <<"discard">> /\ Head(Switching) = <<"switch">>
    BY <1>1, <1>2, ConsIs, Zenon DEF Closing, Dropping, Switching
  <1>5. \A K \in Steps : <<>> \o K = K
    BY ConsMore, Zenon
  <1>6. QED
    BY <1>1, <1>3, <1>4, <1>5

AreSix(a, b, c, d, e, f) == {a, b, c, d, e, f} \subseteq Step

\* Six steps before others.
LEMMA SixSteps ==
    ASSUME NEW a, NEW b, NEW c, NEW d, NEW e, NEW f, AreSix(a, b, c, d, e, f), NEW K \in Steps
    PROVE  <<a, b, c, d, e, f>> \o K = Cons(a, Cons(b, Cons(c, Cons(d, Cons(e, Cons(f, K))))))
  <1>0. a \in Step /\ b \in Step /\ c \in Step /\ d \in Step /\ e \in Step /\ f \in Step
    BY DEF AreSix
  <1>1. /\ <<a, b>> \in Steps /\ <<c, d>> \in Steps /\ <<e, f>> \in Steps /\ <<c, d, e, f>> \in Steps
        /\ <<a, b, c, d, e, f>> \in Steps
    BY <1>0 DEF Steps
  <1>2. <<c, d>> \o <<e, f>> = <<c, d, e, f>>
    <2>1. <<c, d>> \o <<e, f>> \in Steps /\ Len(<<c, d>> \o <<e, f>>) = 4
      BY <1>0, <1>1 DEF Steps
    <2>2. \A i \in 1 .. 4 : (<<c, d>> \o <<e, f>>)[i] = <<c, d, e, f>>[i]
      BY <1>0, <1>1 DEF Steps
    <2>3. QED
      BY <1>1, <2>1, <2>2, SeqEqual DEF Steps
  <1>3. <<a, b>> \o <<c, d, e, f>> = <<a, b, c, d, e, f>>
    <2>1. <<a, b>> \o <<c, d, e, f>> \in Steps /\ Len(<<a, b>> \o <<c, d, e, f>>) = 6
      BY <1>0, <1>1 DEF Steps
    <2>2. \A i \in 1 .. 6 : (<<a, b>> \o <<c, d, e, f>>)[i] = <<a, b, c, d, e, f>>[i]
      BY <1>0, <1>1 DEF Steps
    <2>3. PICK x : x = <<a, b>> \o <<c, d, e, f>>
      OBVIOUS
    <2>4. PICK y : y = <<a, b, c, d, e, f>>
      OBVIOUS
    <2>5. x \in Steps /\ y \in Steps /\ Len(x) = 6 /\ Len(y) = 6
      BY <1>1, <2>1, <2>3, <2>4
    <2>6. \A i \in 1 .. 6 : x[i] = y[i]
      BY <2>2, <2>3, <2>4, Zenon
    <2>7. x = y
      BY <2>5, <2>6, SeqEqual DEF Steps
    <2>8. QED
      BY <2>3, <2>4, <2>7, Zenon
  <1>4. (<<a, b>> \o <<c, d, e, f>>) \o K = <<a, b>> \o (<<c, d, e, f>> \o K)
    BY <1>1, StepsAssociate DEF AreSteps
  <1>5. (<<c, d>> \o <<e, f>>) \o K = <<c, d>> \o (<<e, f>> \o K)
    BY <1>1, StepsAssociate DEF AreSteps
  <1>6. PICK K1 : K1 = <<e, f>> \o K
    OBVIOUS
  <1>7. K1 = Cons(e, Cons(f, K)) /\ K1 \in Steps
    <2>1. Cons(f, K) \in Steps
      BY <1>0, ConsIs
    <2>2. Cons(e, Cons(f, K)) \in Steps
      BY <1>0, <2>1, ConsIs
    <2>3. K1 = Cons(e, Cons(f, K))
      BY <1>0, <1>6, ConsMore
    <2>4. QED
      BY <2>2, <2>3
  <1>8. PICK K2 : K2 = <<c, d>> \o K1
    OBVIOUS
  <1>9. K2 = Cons(c, Cons(d, K1)) /\ K2 \in Steps
    <2>1. Cons(d, K1) \in Steps
      BY <1>0, <1>7, ConsIs
    <2>2. Cons(c, Cons(d, K1)) \in Steps
      BY <1>0, <2>1, ConsIs
    <2>3. K2 = Cons(c, Cons(d, K1))
      BY <1>0, <1>7, <1>8, ConsMore
    <2>4. QED
      BY <2>2, <2>3
  <1>10. <<a, b>> \o K2 = Cons(a, Cons(b, K2))
    BY <1>0, <1>9, ConsMore
  <1>11. QED
    BY <1>2, <1>3, <1>4, <1>5, <1>6, <1>7, <1>8, <1>9, <1>10

\* What consolidate_list() has to do.
LEMMA ConsolidateIs ==
    ASSUME NEW b \in Nat
    PROVE  Consolidate(b) \o Cleaning = Cons(<<"alloc", 0, b, 0>>, Mounting)
  <1>1. /\ <<"alloc", 0, b, 0>> \in Step /\ <<"copy">> \in Step /\ <<"discarding">> \in Step
        /\ <<"close">> \in Step /\ <<"discard">> \in Step /\ <<"switch">> \in Step
        /\ Cleaning \in Steps
    BY StepIs, Shapes DEF Word
  <1>2. PICK a1 : a1 = <<"alloc", 0, b, 0>>
    OBVIOUS
  <1>3. PICK a2 : a2 = <<"copy">>
    OBVIOUS
  <1>4. PICK a3 : a3 = <<"discarding">>
    OBVIOUS
  <1>5. PICK a4 : a4 = <<"close">>
    OBVIOUS
  <1>6. PICK a5 : a5 = <<"discard">>
    OBVIOUS
  <1>7. PICK a6 : a6 = <<"switch">>
    OBVIOUS
  <1>8. AreSix(a1, a2, a3, a4, a5, a6)
    BY <1>1, <1>2, <1>3, <1>4, <1>5, <1>6, <1>7 DEF AreSix
  <1>9. PICK K : K = Cleaning
    OBVIOUS
  <1>10. K \in Steps
    BY <1>1, <1>9
  <1>11. <<a1, a2, a3, a4, a5, a6>> \o K = Cons(a1, Cons(a2, Cons(a3, Cons(a4, Cons(a5, Cons(a6, K))))))
    BY <1>8, <1>10, SixSteps
  <1>12. Consolidate(b) = <<a1, a2, a3, a4, a5, a6>>
    BY <1>2, <1>3, <1>4, <1>5, <1>6, <1>7 DEF Consolidate
  <1>13. Cons(a2, Cons(a3, Cons(a4, Cons(a5, Cons(a6, K))))) = Mounting
    BY <1>3, <1>4, <1>5, <1>6, <1>7, <1>9, Zenon DEF Mounting, Discarding, Closing, Dropping, Switching
  <1>14. QED
    BY <1>2, <1>9, <1>11, <1>12, <1>13

\* A block with a serial number list, of the old or the new one, is not what a file
\* or the scratch area needs.
LEMMA ListHarmless ==
    ASSUME NEW k, NEW s, NEW v, NEW b \in 1 .. Total - 1, NEW d \in Content, NEW m,
           Sound(k, s, v), k[b].sn = 0, m = [k EXCEPT ![b] = d]
    PROVE  Harmless(k, s, v, b, d, m)
  <1>1. \A i \in Copied(s) : s[i].orig # b
    BY BlankIs DEF Sound, Restorable
  <1>2. 0 \notin Files
    BY Sizes
  <1>3. \A f \in Files : ~Good(k[b], f, v[f])
    BY <1>2 DEF Good
  <1>4. QED
    BY <1>1, <1>3 DEF Harmless

\* find_list_block(): the list is there, or one that was discarded is before it.
LEMMA FindStep ==
    ASSUME Here, Find
    PROVE  Here'
  <1> DEFINE S == {b \in Head(todo)[2] .. Total - 1 : IsList(b) /\ blk[b].zero \in {"CLOSED", "DISCARDING"}}
             b0 == Min(S)
  <1>1. /\ Busy("find") /\ scr' = scr /\ files' = files
        /\ \/ S = {}
           \/ /\ S # {} /\ IsCurrent(b0) /\ cur' = b0 /\ blk' = [blk EXCEPT ![b0].st = "CLOSED"]
              /\ todo' = Consolidate(b0) \o Tail(todo) /\ mode' = mode
           \/ /\ S # {} /\ ~IsCurrent(b0) /\ blk' = [blk EXCEPT ![b0].st = "DIRTY"]
              /\ todo' = <<<<"zero", b0>>, <<"find", b0 + 1>>>> \o Tail(todo)
              /\ mode' = mode
    BY DEF Find, Then
  <1>2. AtFind /\ Sound(blk, scr, files)
    BY <1>1, Places DEF Here
  <1>3. PICK n \in Nat, l \in 1 .. Total - 1 :
            /\ mode = "boot" /\ Sole(blk, scr, files, l) /\ n <= l
            /\ todo = Cons(<<"find", n>>, Cleaning)
    BY <1>2 DEF AtFind
  <1>4. Head(todo)[2] = n /\ Tail(todo) = Cleaning
    <2>1. <<"find", n>> \in Step /\ Cleaning \in Steps
      BY StepIs, Shapes DEF Word
    <2>2. Head(todo) = <<"find", n>> /\ Tail(todo) = Cleaning
      BY <1>3, <2>1, ConsIs
    <2>3. QED
      BY <2>2
  <1>5. Total \in Nat \ {0, 1} /\ l \in Int /\ n \in Int
    BY Sizes
  <1>6. l \in S
    BY <1>3, <1>4, <1>5 DEF Sole, Valid, Current, IsList
  <1>7. b0 \in S /\ b0 <= l
    <2>1. S \in SUBSET Nat
      BY <1>4, <1>5
    <2>2. QED
      BY <1>6, <2>1, MinIsLeast
  <1>8. PICK b \in n .. Total - 1 : b = b0 /\ b <= l /\ IsList(b)
    BY <1>4, <1>7
  <1>9. blk \in [0 .. Total -> Content] /\ blk[0] = Blank
    BY <1>2 DEF Sound, Types
  <1>10. b \in 1 .. Total - 1 /\ b \in Nat /\ blk[b].sn = 0 /\ blk[b] \in Content
    <2>1. b # 0
      BY <1>8, <1>9, BlankIs DEF IsList
    <2>2. QED
      BY <1>5, <1>8, <1>9, <2>1 DEF IsList
  <1>11. S # {}
    BY <1>6
  <1> HIDE DEF S, b0
  <1>12. CASE /\ IsCurrent(b0) /\ cur' = b0 /\ blk' = [blk EXCEPT ![b0].st = "CLOSED"]
              /\ todo' = Consolidate(b0) \o Tail(todo) /\ mode' = mode
    <2>1. b = l
      <3>1. Current(blk[b])
        BY <1>8, <1>12 DEF IsCurrent, IsList, Current
      <3>2. b \in 0 .. Total - 1
        BY <1>5, <1>10
      <3>3. QED
        BY <1>3, <3>1, <3>2 DEF Sole
    <2> DEFINE d == [blk[b] EXCEPT !.st = "CLOSED"]
    <2>2. d \in Content /\ d.st = "CLOSED" /\ Current(d) /\ d.at = blk[b].at
      <3>1. Current(blk[b])
        BY <1>8, <1>12 DEF IsCurrent, IsList, Current
      <3>2. QED
        BY <1>10, <3>1 DEF Content, Current
    <2>3. blk' = [blk EXCEPT ![b] = d]
      BY <1>8, <1>12
    <2> HIDE DEF d
    <2>4. Harmless(blk, scr, files, b, d, blk')
      BY <1>2, <1>10, <2>2, <2>3, ListHarmless
    <2>5. Sound(blk', scr, files) /\ blk'[b] = d /\ Sole(blk', scr, files, b)
      BY <1>3, <2>1, <2>2, <2>4, OneBlock
    <2>6. Listing'
      BY <1>1, <1>8, <1>12, <2>2, <2>5 DEF Listing
    <2>7. todo' = Cons(<<"alloc", 0, b, 0>>, Mounting)
      <3>1. todo' = Consolidate(b) \o Cleaning
        BY <1>4, <1>8, <1>12
      <3>2. QED
        BY <1>10, <3>1, ConsolidateIs
    <2>8. IsAlloc(todo', 0)
      <3>1. b \in {NONE} \cup 0 .. Total - 1 /\ 0 \in 0 .. Len(Limit)
        BY <1>5, <1>10 DEF Limit
      <3>2. QED
        BY <2>7, <3>1 DEF IsAlloc, After
    <2>9. mode' = "boot" /\ 0 \in Serials
      BY <1>3, <1>12 DEF Serials
    <2>10. AtAlloc'
      BY <2>6, <2>8, <2>9 DEF AtAlloc, Settled, Calling
    <2>11. QED
      BY <1>1, <2>5, <2>10 DEF Here, Place
  <1>13. CASE /\ ~IsCurrent(b0) /\ blk' = [blk EXCEPT ![b0].st = "DIRTY"]
              /\ todo' = <<<<"zero", b0>>, <<"find", b0 + 1>>>> \o Tail(todo)
              /\ mode' = mode
    <2>1. b # l /\ b < l
      <3>1. ~Current(blk[b])
        BY <1>8, <1>13 DEF IsCurrent, IsList, Current
      <3>2. b # l
        BY <1>3, <3>1 DEF Sole, Valid
      <3>3. QED
        BY <1>5, <1>8, <3>2
    <2> DEFINE d == [blk[b] EXCEPT !.st = "DIRTY"]
    <2>2. d \in Content /\ d.sn = 0 /\ ~Current(d)
      BY <1>10 DEF Content, Current
    <2>3. blk' = [blk EXCEPT ![b] = d]
      BY <1>8, <1>13
    <2> HIDE DEF d
    <2>4. Harmless(blk, scr, files, b, d, blk')
      BY <1>2, <1>10, <2>2, <2>3, ListHarmless
    <2>5. Sound(blk', scr, files) /\ blk'[b] = d /\ Sole(blk', scr, files, l)
      BY <1>3, <2>1, <2>2, <2>4, OneBlock
    <2>6. todo' = Cons(<<"zero", b>>, Cons(<<"find", b + 1>>, Cleaning))
      <3>1. <<"zero", b>> \in Step /\ <<"find", b + 1>> \in Step /\ Cleaning \in Steps
        BY <1>10, StepIs, Shapes DEF Word
      <3>2. todo' = <<<<"zero", b>>, <<"find", b + 1>>>> \o Cleaning
        BY <1>4, <1>8, <1>13
      <3>3. QED
        BY <3>1, <3>2, ConsMore, Zenon
    <2>7. AtZero'
      <3>1. mode' = "boot" /\ Sole(blk', scr', files', l) /\ blk'[b].sn = 0
        BY <1>1, <1>3, <1>13, <2>2, <2>5
      <3>2. QED
        BY <1>10, <2>1, <2>6, <3>1 DEF AtZero
    <2>8. QED
      BY <1>1, <2>5, <2>7 DEF Here, Place
  <1>14. QED
    BY <1>1, <1>11, <1>12, <1>13

\* The discarding of an old list is completed.
LEMMA FindZeroStep ==
    ASSUME Here, FindZero
    PROVE  Here'
  <1>1. /\ Busy("zero") /\ scr' = scr /\ files' = files /\ mode' = mode
        /\ blk' = [blk EXCEPT ![Head(todo)[2]].zero = "DIRTY"]
        /\ todo' = <<>> \o Tail(todo)
    BY DEF FindZero, Keep, Then
  <1>2. AtZero /\ Sound(blk, scr, files)
    BY <1>1, Places DEF Here
  <1>3. PICK b \in Nat, l \in 1 .. Total - 1 :
            /\ mode = "boot" /\ Sole(blk, scr, files, l) /\ b < l /\ blk[b].sn = 0
            /\ todo = Cons(<<"zero", b>>, Cons(<<"find", b + 1>>, Cleaning))
    BY <1>2 DEF AtZero
  <1>4. Head(todo)[2] = b /\ todo' = Cons(<<"find", b + 1>>, Cleaning)
    <2>1. <<"zero", b>> \in Step /\ <<"find", b + 1>> \in Step /\ Cleaning \in Steps
      BY StepIs, Shapes DEF Word
    <2>2. Cons(<<"find", b + 1>>, Cleaning) \in Steps
      BY <2>1, Calls, Zenon
    <2>3. Head(todo) = <<"zero", b>> /\ Tail(todo) = Cons(<<"find", b + 1>>, Cleaning)
      BY <1>3, <2>1, <2>2, ConsIs, Zenon
    <2>4. todo' = Cons(<<"find", b + 1>>, Cleaning)
      BY <1>1, <2>2, <2>3, ConsMore, Zenon
    <2>5. QED
      BY <2>3, <2>4
  <1>5. b \in 1 .. Total - 1 /\ blk[b] \in Content
    <2>1. blk \in [0 .. Total -> Content] /\ blk[0].sn # 0 /\ Total \in Nat \ {0, 1}
      BY <1>2, BlankIs, Sizes DEF Sound, Types
    <2>2. b # 0
      BY <1>3, <2>1
    <2>3. QED
      BY <1>3, <2>1, <2>2
  <1> DEFINE d == [blk[b] EXCEPT !.zero = "DIRTY"]
  <1>6. d \in Content /\ ~Current(d)
    BY <1>5 DEF Content, Current
  <1>7. blk' = [blk EXCEPT ![b] = d]
    BY <1>1, <1>4
  <1> HIDE DEF d
  <1>8. Harmless(blk, scr, files, b, d, blk')
    BY <1>2, <1>3, <1>5, <1>6, <1>7, ListHarmless
  <1>9. Sound(blk', scr, files) /\ Sole(blk', scr, files, l)
    <2>1. b # l
      BY <1>3, <1>5, Sizes
    <2>2. QED
      BY <1>3, <1>6, <1>8, <2>1, OneBlock
  <1>10. AtFind'
    <2>1. b + 1 \in Nat /\ b + 1 <= l
      BY <1>3, <1>5, Sizes
    <2>2. mode' = "boot" /\ Sole(blk', scr', files', l)
      BY <1>1, <1>3, <1>9
    <2>3. QED
      BY <1>4, <2>1, <2>2 DEF AtFind
  <1>11. QED
    BY <1>1, <1>9, <1>10 DEF Here, Place

\* cl_list_consolidate(): there are two lists.
LEMMA CopyStep ==
    ASSUME Here, Copy
    PROVE  Here'
  <1>1. /\ Busy("copy") /\ scr' = scr /\ files' = files /\ mode' = mode /\ got' = got /\ cur' = cur
        /\ blk' = [blk EXCEPT ![got] = [blk[cur] EXCEPT !.st = "OPEN"]]
        /\ todo' = <<>> \o Tail(todo)
    BY DEF Copy, Keep, Then
  <1>2. AtCopy /\ Sound(blk, scr, files)
    BY <1>1, Places DEF Here
  <1>3. /\ mode = "boot" /\ Listing /\ todo = Mounting
        /\ got \in 1 .. Total - 1 /\ blk[got].sn = 0 /\ got # cur
    BY <1>2 DEF AtCopy
  <1>4. todo' = Discarding
    BY <1>1, <1>3, MountSteps
  <1>5. PICK c \in 1 .. Total - 1 : c = cur
    BY <1>3 DEF Listing, Sole, Valid
  <1>6. PICK g \in 1 .. Total - 1 : g = got
    BY <1>3
  <1>7. /\ blk[c] \in Content /\ blk[c].sn = 0 /\ blk[c].zero = "CLOSED"
        /\ Valid(blk, scr, files, c)
        /\ \A b \in 0 .. Total - 1 : Current(blk[b]) => b = c
    BY <1>2, <1>3, <1>5, ListingIs DEF Sole
  <1> DEFINE d == [blk[c] EXCEPT !.st = "OPEN"]
  <1>8. d \in Content /\ Current(d) /\ d.at = blk[c].at
    BY <1>7 DEF Content, Current
  <1>9. blk' = [blk EXCEPT ![g] = d]
    BY <1>1, <1>5, <1>6
  <1> HIDE DEF d
  <1>10. Harmless(blk, scr, files, g, d, blk')
    BY <1>2, <1>3, <1>6, <1>8, <1>9, ListHarmless
  <1>11. /\ Sound(blk', scr, files) /\ blk'[g] = d /\ Valid(blk', scr, files, c)
         /\ \A b \in 0 .. Total : b # g => blk'[b] = blk[b]
    BY <1>3, <1>5, <1>6, <1>7, <1>10, OneBlock
  <1>12. /\ c \in 0 .. Total /\ c # g /\ \A b \in 0 .. Total - 1 : b \in 0 .. Total
    BY <1>3, <1>5, <1>6, Sizes
  <1>13. Valid(blk', scr, files, g)
    <2>1. blk'[g].at = blk'[c].at
      BY <1>8, <1>11, <1>12
    <2>2. QED
      BY <1>8, <1>11, <2>1 DEF Valid, Names
  <1>14. \A b \in 0 .. Total - 1 : Current(blk'[b]) => b \in {c, g}
    BY <1>7, <1>11, <1>12
  <1>15. AtDiscarding'
    BY <1>1, <1>3, <1>4, <1>5, <1>6, <1>11, <1>13, <1>14 DEF AtDiscarding
  <1>16. QED
    BY <1>1, <1>11, <1>15 DEF Here, Place

\* From now on the new list is the one that will be found.
LEMMA MarkDiscardingStep ==
    ASSUME Here, MarkDiscarding
    PROVE  Here'
  <1>1. /\ Busy("discarding") /\ scr' = scr /\ files' = files /\ mode' = mode /\ got' = got /\ cur' = cur
        /\ blk' = [blk EXCEPT ![cur].zero = "DISCARDING"]
        /\ todo' = <<>> \o Tail(todo)
    BY DEF MarkDiscarding, Keep, Then
  <1>2. AtDiscarding /\ Sound(blk, scr, files)
    BY <1>1, Places DEF Here
  <1>3. /\ mode = "boot" /\ todo = Discarding /\ got # cur
        /\ Valid(blk, scr, files, cur) /\ Valid(blk, scr, files, got)
        /\ \A b \in 0 .. Total - 1 : Current(blk[b]) => b \in {cur, got}
    BY <1>2 DEF AtDiscarding
  <1>4. todo' = Closing
    BY <1>1, <1>3, MountSteps
  <1>5. PICK c \in 1 .. Total - 1 : c = cur
    BY <1>3 DEF Valid
  <1>6. PICK g \in 1 .. Total - 1 : g = got
    BY <1>3 DEF Valid
  <1>7. /\ \A b \in 0 .. Total - 1 : b \in 0 .. Total
        /\ c \in 0 .. Total /\ c # g
    BY <1>3, <1>5, <1>6, Sizes
  <1>8. blk[c] \in Content /\ blk[c].sn = 0
    BY <1>2, <1>3, <1>5, <1>7 DEF Sound, Types, Valid, Current
  <1> DEFINE d == [blk[c] EXCEPT !.zero = "DISCARDING"]
  <1>9. d \in Content /\ ~Current(d) /\ d.sn = 0
    BY <1>8 DEF Content, Current
  <1>10. blk' = [blk EXCEPT ![c] = d]
    BY <1>1, <1>5
  <1> HIDE DEF d
  <1>11. Harmless(blk, scr, files, c, d, blk')
    BY <1>2, <1>8, <1>9, <1>10, ListHarmless
  <1>12. /\ Sound(blk', scr, files) /\ blk'[c] = d /\ Valid(blk', scr, files, g)
         /\ \A b \in 0 .. Total : b # c => blk'[b] = blk[b]
    BY <1>3, <1>6, <1>7, <1>11, OneBlock
  <1>13. Sole(blk', scr, files, g)
    <2>1. \A b \in 0 .. Total - 1 : Current(blk'[b]) => b = g
      BY <1>3, <1>5, <1>6, <1>7, <1>9, <1>12
    <2>2. QED
      BY <1>12, <2>1 DEF Sole
  <1>14. AtClose'
    BY <1>1, <1>3, <1>4, <1>5, <1>6, <1>9, <1>12, <1>13 DEF AtClose
  <1>15. QED
    BY <1>1, <1>12, <1>14 DEF Here, Place

\* What is known when the new list is closed and the old one discarded.
LEMMA AtCloseIs ==
    ASSUME Here, AtClose
    PROVE  /\ mode = "boot" /\ todo \in {Closing, Dropping, Switching} /\ got # cur
           /\ cur \in 1 .. Total - 1 /\ cur \in 0 .. Total /\ blk[cur] \in Content /\ blk[cur].sn = 0
           /\ got \in 1 .. Total - 1 /\ got \in 0 .. Total /\ blk[got] \in Content /\ blk[got].sn = 0
           /\ Sole(blk, scr, files, got) /\ Current(blk[got])
           /\ todo # Closing => blk[got].st = "CLOSED"
           /\ Sound(blk, scr, files)
  <1>1. /\ mode = "boot" /\ todo \in {Closing, Dropping, Switching} /\ got # cur
        /\ cur \in 1 .. Total - 1 /\ blk[cur].sn = 0 /\ Sole(blk, scr, files, got)
        /\ todo # Closing => blk[got].st = "CLOSED"
    BY DEF AtClose
  <1>2. got \in 1 .. Total - 1 /\ Current(blk[got]) /\ blk[got].sn = 0
    BY <1>1 DEF Sole, Valid, Current
  <1>3. cur \in 0 .. Total /\ got \in 0 .. Total
    BY <1>1, <1>2, Sizes
  <1>4. Sound(blk, scr, files) /\ blk \in [0 .. Total -> Content]
    BY DEF Here, Sound, Types
  <1>5. QED
    BY <1>1, <1>2, <1>3, <1>4

LEMMA CloseNewStep ==
    ASSUME Here, CloseNew
    PROVE  Here'
  <1>1. /\ Busy("close") /\ scr' = scr /\ files' = files /\ mode' = mode /\ got' = got /\ cur' = cur
        /\ blk' = [blk EXCEPT ![got].st = "CLOSED"]
        /\ todo' = <<>> \o Tail(todo)
    BY DEF CloseNew, Keep, Then
  <1>2. AtClose
    BY <1>1, Places DEF Here
  <1>3. todo = Closing
    <2>1. todo \in {Closing, Dropping, Switching}
      BY <1>2 DEF AtClose
    <2>2. QED
      BY <1>1, <2>1, MountSteps DEF Busy
  <1>4. todo' = Dropping
    BY <1>1, <1>3, MountSteps
  <1>5. PICK g \in 1 .. Total - 1 : g = got
    BY <1>2, AtCloseIs
  <1> DEFINE d == [blk[g] EXCEPT !.st = "CLOSED"]
  <1>6. d \in Content /\ Current(d) /\ d.st = "CLOSED" /\ d.at = blk[g].at
    <2>1. blk[g] \in Content /\ Current(blk[g])
      BY <1>2, <1>5, AtCloseIs
    <2>2. QED
      BY <2>1 DEF Content, Current
  <1>7. blk' = [blk EXCEPT ![g] = d]
    BY <1>1, <1>5
  <1> HIDE DEF d
  <1>8. Sound(blk, scr, files) /\ blk[g].sn = 0 /\ Sole(blk, scr, files, g)
    BY <1>2, <1>5, AtCloseIs
  <1>9. Harmless(blk, scr, files, g, d, blk')
    BY <1>6, <1>7, <1>8, ListHarmless
  <1>10. /\ Sound(blk', scr, files) /\ blk'[g] = d /\ Sole(blk', scr, files, g)
         /\ \A b \in 0 .. Total : b # g => blk'[b] = blk[b]
    BY <1>6, <1>8, <1>9, OneBlock
  <1>11. cur \in 1 .. Total - 1 /\ blk'[cur].sn = 0 /\ got # cur /\ mode = "boot"
    BY <1>2, <1>5, <1>10, AtCloseIs
  <1>12. AtClose'
    BY <1>1, <1>4, <1>5, <1>6, <1>10, <1>11 DEF AtClose
  <1>13. QED
    BY <1>1, <1>10, <1>12 DEF Here, Place

\* The old list changes, in a way that leaves it discarded.
LEMMA OldList ==
    ASSUME Here, AtClose, NEW d \in Content, ~Current(d), d.sn = 0, blk' = [blk EXCEPT ![cur] = d],
           scr' = scr, files' = files
    PROVE  /\ Sound(blk', scr', files') /\ Sole(blk', scr', files', got)
           /\ blk'[got] = blk[got] /\ blk'[cur] = d
  <1>1. PICK c \in 1 .. Total - 1 : c = cur
    BY AtCloseIs
  <1>2. blk' = [blk EXCEPT ![c] = d]
    BY <1>1
  <1>3. Sound(blk, scr, files) /\ blk[c].sn = 0
    BY <1>1, AtCloseIs
  <1>4. Harmless(blk, scr, files, c, d, blk')
    BY <1>2, <1>3, ListHarmless
  <1>5. got # c /\ got \in 0 .. Total /\ Sole(blk, scr, files, got)
    BY <1>1, AtCloseIs
  <1>6. /\ Sound(blk', scr, files) /\ Sole(blk', scr, files, got)
        /\ blk'[got] = blk[got] /\ blk'[c] = d
    <2>1. PICK g : g = got
      OBVIOUS
    <2>2. g # c /\ g \in 0 .. Total /\ Sole(blk, scr, files, g) /\ ~Current(d)
      BY <1>5, <2>1
    <2>3. PICK m : m = blk'
      OBVIOUS
    <2>4. PICK k : k = blk
      OBVIOUS
    <2>5. Harmless(k, scr, files, c, d, m)
      BY <1>4, <2>3, <2>4
    <2>6. /\ Sound(m, scr, files) /\ m[c] = d /\ \A b \in 0 .. Total : b # c => m[b] = k[b]
          /\ Sole(k, scr, files, g) => Sole(m, scr, files, g)
      BY <2>2, <2>5, OneBlock
    <2>7. QED
      BY <2>1, <2>2, <2>3, <2>4, <2>6
  <1>7. QED
    BY <1>1, <1>6

LEMMA DiscardOldStep ==
    ASSUME Here, DiscardOld
    PROVE  Here'
  <1>1. /\ Busy("discard") /\ scr' = scr /\ files' = files /\ mode' = mode /\ got' = got /\ cur' = cur
        /\ blk' = [blk EXCEPT ![cur].st = "DIRTY"]
        /\ todo' = <<>> \o Tail(todo)
    BY DEF DiscardOld, Keep, Then
  <1>2. AtClose
    BY <1>1, Places DEF Here
  <1>3. todo = Dropping
    <2>1. todo \in {Closing, Dropping, Switching}
      BY <1>2 DEF AtClose
    <2>2. QED
      BY <1>1, <2>1, MountSteps DEF Busy
  <1>4. todo' = Switching
    BY <1>1, <1>3, MountSteps
  <1>5. PICK d : d = [blk[cur] EXCEPT !.st = "DIRTY"]
    OBVIOUS
  <1>6. d \in Content /\ ~Current(d) /\ d.sn = 0
    <2>1. blk[cur] \in Content /\ blk[cur].sn = 0
      BY <1>2, AtCloseIs
    <2>2. QED
      BY <1>5, <2>1 DEF Content, Current
  <1>7. blk' = [blk EXCEPT ![cur] = d]
    BY <1>1, <1>5
  <1>8. /\ Sound(blk', scr', files') /\ Sole(blk', scr', files', got)
        /\ blk'[got] = blk[got] /\ blk'[cur] = d
    BY <1>1, <1>2, <1>6, <1>7, OldList
  <1>9. /\ mode = "boot" /\ got # cur /\ cur \in 1 .. Total - 1
        /\ blk[got].st = "CLOSED"
    <2>1. todo # Closing
      BY <1>1, <1>3, MountSteps DEF Busy
    <2>2. QED
      BY <1>2, <2>1, AtCloseIs
  <1>10. AtClose'
    BY <1>1, <1>4, <1>6, <1>8, <1>9 DEF AtClose
  <1>11. QED
    BY <1>8, <1>10 DEF Here, Place

LEMMA SwitchListStep ==
    ASSUME Here, SwitchList
    PROVE  Here'
  <1>1. /\ Busy("switch") /\ scr' = scr /\ files' = files /\ mode' = mode /\ got' = got /\ cur' = got
        /\ blk' = [blk EXCEPT ![cur].zero = "DIRTY"]
        /\ todo' = <<>> \o Tail(todo)
    BY DEF SwitchList, Then
  <1>2. AtClose
    BY <1>1, Places DEF Here
  <1>3. todo = Switching
    <2>1. todo \in {Closing, Dropping, Switching}
      BY <1>2 DEF AtClose
    <2>2. QED
      BY <1>1, <2>1, MountSteps DEF Busy
  <1>4. todo' = Cleaning
    BY <1>1, <1>3, MountSteps
  <1>5. PICK d : d = [blk[cur] EXCEPT !.zero = "DIRTY"]
    OBVIOUS
  <1>6. d \in Content /\ ~Current(d) /\ d.sn = 0
    <2>1. blk[cur] \in Content /\ blk[cur].sn = 0
      BY <1>2, AtCloseIs
    <2>2. QED
      BY <1>5, <2>1 DEF Content, Current
  <1>7. blk' = [blk EXCEPT ![cur] = d]
    BY <1>1, <1>5
  <1>8. /\ Sound(blk', scr', files') /\ Sole(blk', scr', files', got)
        /\ blk'[got] = blk[got] /\ blk'[cur] = d
    BY <1>1, <1>2, <1>6, <1>7, OldList
  <1>9. mode = "boot" /\ blk[got].st = "CLOSED"
    <2>1. todo # Closing
      BY <1>1, <1>3, MountSteps DEF Busy
    <2>2. QED
      BY <1>2, <2>1, AtCloseIs
  <1>10. AtClean'
    BY <1>1, <1>4, <1>8, <1>9 DEF AtClean, Listing
  <1>11. QED
    BY <1>8, <1>10 DEF Here, Place

\* cl_file_clean() of every file that was open.
LEMMA CleanStep ==
    ASSUME Here, Clean
    PROVE  Here'
  <1>1. /\ Busy("clean") /\ scr' = scr /\ files' = files /\ mode' = mode /\ cur' = cur
        /\ blk' = [blk EXCEPT ![cur].open = {}]
        /\ todo' = Tail(todo) \o (IF blk[cur].open # {} THEN <<<<"discardopen">>>> ELSE <<>>)
    BY DEF Clean, Keep
  <1>2. AtClean /\ Sound(blk, scr, files)
    BY <1>1, Places DEF Here
  <1>3. mode = "boot" /\ Listing /\ Tail(todo) = Cons(<<"restore", 1>>, <<>>)
    BY <1>2, MountSteps DEF AtClean
  <1>4. todo' \in Ending(1)
    <2>1. <<"restore", 1>> \in Step /\ <<"discardopen">> \in Step
      BY StepIs DEF Word
    <2>2. PICK r : r = <<"restore", 1>>
      OBVIOUS
    <2>3. PICK o : o = <<"discardopen">>
      OBVIOUS
    <2>4. Cons(r, <<>>) \o <<>> = Cons(r, <<>>)
      BY <2>1, <2>2 DEF Cons
    <2>5. Cons(r, <<>>) \o <<o>> = Cons(r, Cons(o, <<>>))
      <3>1. <<r>> \in Steps /\ <<o>> \in Steps /\ <<>> \in Steps
        BY <2>1, <2>2, <2>3 DEF Steps
      <3>2. <<r>> \o <<>> = <<r>> /\ <<o>> \o <<>> = <<o>>
        BY <3>1 DEF Steps
      <3>3. QED
        BY <3>2 DEF Cons
    <2>6. QED
      BY <1>1, <1>3, <2>2, <2>3, <2>4, <2>5 DEF Ending
  <1>5. PICK c \in 1 .. Total - 1 : c = cur
    BY <1>3 DEF Listing, Sole, Valid
  <1> DEFINE d == [blk[c] EXCEPT !.open = {}]
  <1>6. d \in Content /\ Current(d) /\ d.st = "CLOSED" /\ d.at = blk[c].at
    <2>1. blk[c] \in Content /\ Current(blk[c]) /\ blk[c].st = "CLOSED"
      BY <1>2, <1>3, <1>5, ListingIs
    <2>2. QED
      BY <2>1 DEF Content, Current
  <1>7. blk' = [blk EXCEPT ![c] = d]
    BY <1>1, <1>5
  <1> HIDE DEF d
  <1>8. blk[c].sn = 0 /\ Sole(blk, scr, files, c)
    BY <1>2, <1>3, <1>5, ListingIs
  <1>9. Harmless(blk, scr, files, c, d, blk')
    BY <1>2, <1>6, <1>7, <1>8, ListHarmless
  <1>10. Sound(blk', scr, files) /\ blk'[c] = d /\ Sole(blk', scr, files, c)
    BY <1>6, <1>8, <1>9, OneBlock
  <1>11. AtLast'
    <2>1. From(1)'
      BY Sizes DEF From, Copied, Entries
    <2>2. QED
      BY <1>1, <1>3, <1>4, <1>5, <1>6, <1>10, <2>1 DEF AtLast, Listing
  <1>12. QED
    BY <1>1, <1>10, <1>11 DEF Here, Place

\* cl_block_discardopen(), once nothing waits in the scratch area.
LEMMA DiscardOpenStep ==
    ASSUME Here, DiscardOpen
    PROVE  Here'
  <1> DEFINE S == {b \in 1 .. Total - 1 : blk[b].st = "OPEN"}
  <1>1. /\ Busy("discardopen") /\ scr' = scr /\ files' = files /\ mode' = mode /\ cur' = cur
        /\ \/ S = {} /\ todo' = <<>> \o Tail(todo) /\ blk' = blk
           \/ S # {} /\ blk' = [blk EXCEPT ![Min(S)].st = "DIRTY"] /\ todo' = todo
    BY DEF DiscardOpen, Keep, Then
  <1>2. AtEnd /\ Sound(blk, scr, files)
    BY <1>1, Places DEF Here
  <1>3. mode = "boot" /\ Listing /\ Copied(scr) = {} /\ todo \in {<<>>, Cons(<<"discardopen">>, <<>>)}
    BY <1>2 DEF AtEnd
  <1>4. CASE S = {} /\ todo' = <<>> \o Tail(todo) /\ blk' = blk
    <2>1. todo' = <<>>
      <3>1. <<"discardopen">> \in Step /\ <<>> \in Steps
        BY StepIs, Shapes DEF Word
      <3>2. todo = Cons(<<"discardopen">>, <<>>)
        BY <1>1, <1>3 DEF Busy
      <3>3. Tail(todo) = <<>>
        BY <3>1, <3>2, ConsIs
      <3>4. QED
        BY <1>4, <3>3
    <2>2. Sound(blk', scr', files') /\ Listing'
      BY <1>1, <1>2, <1>3, <1>4, StayListing
    <2>3. AtEnd'
      BY <1>1, <1>3, <2>1, <2>2 DEF AtEnd
    <2>4. QED
      BY <2>2, <2>3 DEF Here, Place
  <1>5. CASE S # {} /\ blk' = [blk EXCEPT ![Min(S)].st = "DIRTY"] /\ todo' = todo
    <2>1. PICK b \in S : b = Min(S)
      <3>1. S \in SUBSET Nat
        BY Sizes
      <3>2. QED
        BY <1>5, <3>1, MinIsLeast
    <2>2. b \in 1 .. Total - 1 /\ blk[b].st = "OPEN" /\ b \in 0 .. Total
      BY <2>1, Sizes
    <2> HIDE DEF S
    <2> DEFINE d == [blk[b] EXCEPT !.st = "DIRTY"]
    <2>3. d \in Content /\ ~Current(d)
      <3>1. blk[b] \in Content
        BY <1>2, <2>2 DEF Sound, Types
      <3>2. QED
        BY <3>1 DEF Content, Current
    <2>4. blk' = [blk EXCEPT ![b] = d]
      BY <1>5, <2>1
    <2> HIDE DEF d
    <2>5. Harmless(blk, scr, files, b, d, blk')
      BY <1>2, <1>3, <2>2, <2>3, <2>4 DEF Harmless, Good
    <2>6. cur # b /\ cur \in 0 .. Total /\ Sole(blk, scr, files, cur) /\ blk[cur].st = "CLOSED"
      BY <1>2, <1>3, <2>2, ListingIs
    <2>7. Sound(blk', scr, files) /\ Sole(blk', scr, files, cur) /\ blk'[cur] = blk[cur]
      BY <2>3, <2>5, <2>6, OneBlock
    <2>8. Listing'
      BY <1>1, <2>6, <2>7 DEF Listing
    <2>9. AtEnd'
      BY <1>1, <1>3, <1>5, <2>8 DEF AtEnd
    <2>10. QED
      BY <1>1, <2>7, <2>9 DEF Here, Place
  <1>6. QED
    BY <1>1, <1>4, <1>5

-----------------------------------------------------------------------------
(* The theorems.                                                           *)

\* A new file system has an empty serial number list in block 1.
LEMMA InitIsDurable == FlashInit => DurableInv
  <1> SUFFICES ASSUME FlashInit PROVE Here
    BY DEF DurableInv, Here
  <1>1. /\ Total \in Nat \ {0, 1} /\ ScratchEntries \in Nat \ {0}
        /\ Files \subseteq Nat \ {0} /\ 1 \in 0 .. Total /\ 1 \in 1 .. Total - 1
    BY Sizes
  <1> DEFINE d == [Blank EXCEPT !.st = "CLOSED", !.sn = 0, !.zero = "CLOSED"]
  <1>2. /\ d \in Content /\ d.st = "CLOSED" /\ Current(d) /\ \A f \in Files : d.at[f] = 0
    BY BlankIs DEF Content, Current
  <1>3. /\ blk = [b \in 0 .. Total |-> IF b = 1 THEN d ELSE Blank]
        /\ scr = [i \in Entries |-> Unused]
        /\ mode = "up" /\ todo = <<>> /\ cur = 1 /\ files = [f \in Files |-> 0]
    BY DEF FlashInit, Entries
  <1> HIDE DEF d
  <1>4. /\ blk \in [0 .. Total -> Content] /\ blk[1] = d
        /\ \A b \in 0 .. Total : b # 1 => blk[b] = Blank
    BY <1>1, <1>2, <1>3, BlankIs
  <1>5. Unused \in Entry /\ Unused.st = "UNUSED" /\ Unused.data = Blank
    BY BlankIs DEF Unused, Entry
  <1>6. /\ scr \in [Entries -> Entry] /\ Copied(scr) = {} /\ Vacant(scr) = Entries
        /\ \A i \in Entries : scr[i].data = Blank
    BY <1>3, <1>5 DEF Copied, Vacant
  <1>7. files \in [Files -> 0 .. 2] /\ \A f \in Files : files[f] = 0
    BY <1>3
  <1>8. Sound(blk, scr, files)
    <2>1. blk[0] = Blank
      BY <1>1, <1>4
    <2>2. QED
      BY <1>4, <1>6, <1>7, <2>1 DEF Sound, Types, Restorable, InOrder
  <1>9. Listing
    <2>1. Valid(blk, scr, files, 1)
      BY <1>1, <1>2, <1>4, <1>7 DEF Valid, Names
    <2>2. \A b \in 0 .. Total - 1 : Current(blk[b]) => b = 1
      BY <1>1, <1>4, BlankIs
    <2>3. QED
      BY <1>2, <1>3, <1>4, <2>1, <2>2 DEF Listing, Sole
  <1>10. AtRest
    BY <1>3, <1>6, <1>9 DEF AtRest
  <1>11. QED
    BY <1>8, <1>10 DEF Here, Place

\* What was excepted once stays so.
LEMMA MishapsStay == [FlashNext]_flashVars => spoilt \subseteq spoilt'
  <1> SUFFICES ASSUME [FlashNext]_flashVars PROVE spoilt \subseteq spoilt'
    OBVIOUS
  <1>1. Alloc => spoilt' = spoilt
    BY DEF Alloc, KeepButMode
  <1>2. Mark => spoilt \subseteq spoilt'
    BY DEF Mark, KeepButMode
  <1>3. Sweep \/ SaveEntry \/ EraseSection \/ EraseScratch \/ Strike => spoilt' = spoilt
    BY DEF Sweep, SaveEntry, EraseSection, EraseScratch, Strike, Keep
  <1>4. Save \/ Restore => spoilt' = spoilt
    BY DEF Save, Restore, KeepButMode
  <1>5. AppendOpen \/ Commit \/ BootDone \/ Find \/ FindZero => spoilt' = spoilt
    BY DEF AppendOpen, Commit, BootDone, Find, FindZero, Keep
  <1>6. Copy \/ MarkDiscarding \/ CloseNew \/ DiscardOld \/ SwitchList => spoilt' = spoilt
    BY DEF Copy, MarkDiscarding, CloseNew, DiscardOld, SwitchList, Keep
  <1>7. Clean \/ DiscardOpen => spoilt' = spoilt
    BY DEF Clean, DiscardOpen, Keep
  <1>8. Crash => spoilt \subseteq spoilt'
    BY DEF Crash
  <1>9. \A f \in Files : WriteFile(f) \/ RemoveFile(f) => spoilt' = spoilt
    BY DEF WriteFile, RemoveFile
  <1>10. flashVars' = flashVars => spoilt' = spoilt
    BY DEF flashVars
  <1>11. QED
    BY <1>1, <1>2, <1>3, <1>4, <1>5, <1>6, <1>7, <1>8, <1>9, <1>10 DEF FlashNext, Work

\* A step that changes nothing leads nowhere.
LEMMA SamePlace ==
    ASSUME Place, blk' = blk, scr' = scr, mode' = mode, todo' = todo, got' = got, cur' = cur, files' = files
    PROVE  Place'
  <1>1. Listing => Listing'
    BY DEF Listing
  <1>2. \A sn \in Serials : (Calling(sn) => Calling(sn)') /\ (Settled(sn) => Settled(sn)')
    BY <1>1 DEF Settled, Calling
  <1>3. (AtAlloc => AtAlloc') /\ (AtMark => AtMark') /\ (AtSweep => AtSweep')
    BY <1>2 DEF AtAlloc, AtMark, AtSweep
  <1>4. \A sn \in Serials : \A R, x, B : Sweeping(sn, R, x, B) => Sweeping(sn, R, x, B)'
    BY <1>2 DEF Sweeping, Erasable, Written
  <1>5. \A x, B : Saved(x, B) => Saved(x, B)'
    BY DEF Saved, Written
  <1>6. \A x : Written(x)' = Written(x)
    BY DEF Written
  <1>7. AtEraseScratch => AtEraseScratch'
    <2>1. ASSUME AtEraseScratch PROVE AtEraseScratch'
      <3>1. PICK sn \in Serials, R \in Steps, x \in 0 .. Sections - 1, B \in Blocks :
                /\ todo = Cons(<<"erase_scratch">>, Saving(B, x, R))
                /\ Sweeping(sn, R, x, B) /\ Len(B) <= ScratchEntries
                /\ \A b \in Written(x) : \E i \in DOMAIN B : B[i] = b
        BY <2>1, Zenon DEF AtEraseScratch
      <3>2. /\ todo' = Cons(<<"erase_scratch">>, Saving(B, x, R))
            /\ Sweeping(sn, R, x, B)'
            /\ \A b \in Written(x)' : \E i \in DOMAIN B : B[i] = b
        BY <1>4, <1>6, <3>1
      <3>3. QED
        BY <3>1, <3>2, Zenon DEF AtEraseScratch
    <2>2. QED
      BY <2>1
  <1>8. AtSave => AtSave'
    BY <1>4, <1>5, Zenon DEF AtSave
  <1>9. AtEntry => AtEntry'
    <2>1. ASSUME AtEntry PROVE AtEntry'
      <3>1. PICK sn \in Serials, R \in Steps, x \in 0 .. Sections - 1, B \in Blocks,
                 b \in 1 .. Total - 1, n \in Entries :
                /\ todo = Cons(<<"entry", n, b>>, Saving(B, x, R))
                /\ Sweeping(sn, R, x, B)
                /\ b \in Written(x) /\ \A c \in Written(x) \ {b} :
                      (\E i \in DOMAIN B : B[i] = c) \/ \E i \in Copied(scr) : scr[i].orig = c
                /\ Vacant(scr) = n .. ScratchEntries /\ scr[n].data = blk[b]
                /\ mode = "up" => Len(B) <= ScratchEntries - n
        BY <2>1, Zenon DEF AtEntry
      <3>2. /\ todo' = Cons(<<"entry", n, b>>, Saving(B, x, R))
            /\ Sweeping(sn, R, x, B)'
            /\ b \in Written(x)' /\ \A c \in Written(x)' \ {b} :
                  (\E i \in DOMAIN B : B[i] = c) \/ \E i \in Copied(scr') : scr'[i].orig = c
            /\ Vacant(scr') = n .. ScratchEntries /\ scr'[n].data = blk'[b]
            /\ mode' = "up" => Len(B) <= ScratchEntries - n
        BY <1>4, <1>6, <3>1
      <3>3. QED
        BY <3>2, Zenon DEF AtEntry
    <2>2. QED
      BY <2>1
  <1>10. AtRestore => AtRestore'
    BY <1>2 DEF AtRestore, From
  <1>11. (AtStrike => AtStrike') /\ (AtWriting => AtWriting')
    BY <1>1, <1>2 DEF AtStrike, AtWriting, From
  <1>12. (AtFind => AtFind') /\ (AtZero => AtZero')
    BY DEF AtFind, AtZero
  <1>13. (AtCopy => AtCopy') /\ (AtDiscarding => AtDiscarding') /\ (AtClose => AtClose')
    BY <1>1 DEF AtCopy, AtDiscarding, AtClose
  <1>14. /\ AtClean => AtClean'
         /\ AtLast => AtLast'
         /\ AtLastStrike => AtLastStrike'
         /\ AtEnd => AtEnd'
         /\ AtRest => AtRest'
    BY <1>1 DEF AtClean, AtLast, AtLastStrike, AtEnd, AtRest, From
  <1>15. QED
    BY <1>3, <1>7, <1>8, <1>9, <1>10, <1>11, <1>12, <1>13, <1>14 DEF Place

\* Every step leads from one place to another.
LEMMA NextIsDurable == DurableInv /\ [FlashNext]_flashVars => DurableInv'
  <1> SUFFICES ASSUME DurableInv, [FlashNext]_flashVars, spoilt' = {} PROVE Here'
    BY DEF DurableInv, Here
  <1>1. Here
    BY MishapsStay DEF DurableInv, Here
  <1>2. Alloc \/ Mark \/ Sweep => Here'
    BY <1>1, AllocStep, MarkStep, SweepStep
  <1>3. Save \/ SaveEntry \/ EraseSection \/ EraseScratch => Here'
    BY <1>1, SaveStep, SaveEntryStep, EraseSectionStep, EraseScratchStep
  <1>4. Restore \/ Strike \/ AppendOpen \/ Commit => Here'
    BY <1>1, RestoreStep, StrikeStep, AppendOpenStep, CommitStep
  <1>5. BootDone \/ Find \/ FindZero \/ Copy \/ MarkDiscarding \/ CloseNew => Here'
    BY <1>1, BootDoneStep, FindStep, FindZeroStep, CopyStep, MarkDiscardingStep, CloseNewStep
  <1>6. DiscardOld \/ SwitchList \/ Clean \/ DiscardOpen => Here'
    BY <1>1, DiscardOldStep, SwitchListStep, CleanStep, DiscardOpenStep
  <1>7. Crash => Here'
    BY <1>1, CrashStep
  <1>8. \A f \in Files : WriteFile(f) \/ RemoveFile(f) => Here'
    BY <1>1, WriteFileStep, RemoveFileStep
  <1>9. flashVars' = flashVars => Here'
    <2>1. ASSUME flashVars' = flashVars PROVE Here'
      <3>1. /\ blk' = blk /\ scr' = scr /\ mode' = mode /\ todo' = todo /\ got' = got
            /\ cur' = cur /\ files' = files
        BY <2>1 DEF flashVars
      <3>2. Sound(blk', scr', files')
        BY <1>1, <3>1 DEF Here
      <3>3. Place'
        BY <1>1, <3>1, SamePlace DEF Here
      <3>4. QED
        BY <3>2, <3>3 DEF Here
    <2>2. QED
      BY <2>1
  <1>10. QED
    BY <1>2, <1>3, <1>4, <1>5, <1>6, <1>7, <1>8, <1>9 DEF FlashNext, Work

\* While the device is in use the list in use is the only one, and at no place
\* has a mount failed.
LEMMA Known ==
    ASSUME Place
    PROVE  mode # "failed" /\ (mode = "up" => Listing)
  <1>1. \A sn \in Serials : Calling(sn) => mode # "failed" /\ Listing
    BY DEF Calling
  <1>2. AtAlloc \/ AtMark \/ AtSweep => mode # "failed" /\ Listing
    BY <1>1 DEF AtAlloc, AtMark, AtSweep, Settled
  <1>3. \A sn \in Serials : \A R, x, B : Sweeping(sn, R, x, B) => mode # "failed" /\ Listing
    BY <1>1 DEF Sweeping
  <1>4. AtEraseScratch => mode # "failed" /\ Listing
    BY <1>3, Zenon DEF AtEraseScratch
  <1>5. AtSave => mode # "failed" /\ Listing
    BY <1>3, Zenon DEF AtSave
  <1>6. AtEntry => mode # "failed" /\ Listing
    <2>1. ASSUME AtEntry PROVE \E sn \in Serials : \E R, x, B : Sweeping(sn, R, x, B)
      BY <2>1 DEF AtEntry
    <2>2. QED
      BY <1>3, <2>1, Zenon
  <1>7. AtRestore \/ AtStrike \/ AtWriting \/ AtRest => mode # "failed" /\ Listing
    BY <1>1 DEF AtRestore, AtStrike, AtWriting, AtRest
  <1>8. AtFind \/ AtZero \/ AtCopy \/ AtDiscarding \/ AtClose => mode = "boot"
    BY DEF AtFind, AtZero, AtCopy, AtDiscarding, AtClose
  <1>9. AtClean \/ AtLast \/ AtLastStrike \/ AtEnd => mode = "boot"
    BY DEF AtClean, AtLast, AtLastStrike, AtEnd
  <1>10. QED
    BY <1>2, <1>4, <1>5, <1>6, <1>7, <1>8, <1>9 DEF Place

\* What is held is where the file system looks for it.
LEMMA HeldIs ==
    ASSUME Sound(blk, scr, files), NEW b, NEW f, Held(blk, scr, b, f, files[f])
    PROVE  Holds(b, f)
  BY ListedIs DEF Held, Holds, Good

\* The invariant of the flash file system, whatever the number of sections,
\* blocks and files, however often power fails and between whichever writes of
\* alloc_block(), erase_dirty_block(), cl_scratch_restore() and
\* consolidate_list() it does.
THEOREM FlashInvariant == FlashSpec => []DurableInv
  <1>1. FlashInit => DurableInv
    BY InitIsDurable
  <1>2. DurableInv /\ [FlashNext]_flashVars => DurableInv'
    BY NextIsDurable
  <1>3. QED
    BY <1>1, <1>2, PTL DEF FlashSpec

\* Whenever power fails, every file that cl_file_close() has committed is there, with its last
\* contents, when cafs_lite_init() has mounted the device, and no other: but for
\* the mishaps that spoilt names.
THEOREM FilesAreDurable == FlashSpec => []Durable
  <1>1. DurableInv => Durable
    <2> SUFFICES ASSUME DurableInv, spoilt = {}, mode = "up", NEW f \in Files
                 PROVE  LET b == blk[cur].at[f]
                        IN  IF files[f] = 0 THEN b = 0 ELSE b # 0 /\ Holds(b, f)
      BY DEF Durable, AllThere
    <2>1. Sound(blk, scr, files) /\ Place
      BY DEF DurableInv
    <2>2. Listing
      BY <2>1, Known
    <2>3. Names(blk, scr, files, cur)
      BY <2>2 DEF Listing, Sole, Valid
    <2>4. \A b : Held(blk, scr, b, f, files[f]) => Holds(b, f)
      BY <2>1, HeldIs
    <2>5. QED
      BY <2>3, <2>4 DEF Names
  <1>2. QED
    BY <1>1, FlashInvariant, PTL

\* cafs_lite_init() never finds the device without a serial number list.
THEOREM DeviceIsMountable == FlashSpec => []Mountable
  <1>1. DurableInv => Mountable
    BY Known DEF DurableInv, Mountable
  <1>2. QED
    BY <1>1, FlashInvariant, PTL

\* Nothing that was committed is only in RAM, not even between the erasing of a
\* section by erase_dirty_block() and its restoring, or while consolidate_list()
\* copies the serial number list.
THEOREM NothingIsInRam == FlashSpec => []NothingInRam
  <1>1. DurableInv => NothingInRam
    <2> SUFFICES ASSUME DurableInv, spoilt = {}
                 PROVE  \E l \in 1 .. Total - 1 :
                            /\ IsList(l) /\ blk[l].zero \in {"CLOSED", "DISCARDING"}
                            /\ \A f \in Files :
                                  files[f] # 0 => blk[l].at[f] # 0 /\ Holds(blk[l].at[f], f)
      BY DEF NothingInRam
    <2>1. Sound(blk, scr, files) /\ Place
      BY DEF DurableInv
    <2>2. \E l \in 1 .. Total - 1 : Valid(blk, scr, files, l)
      BY <2>1, OneList DEF AtDiscarding, Sole, Valid
    <2>3. PICK l \in 1 .. Total - 1 : Valid(blk, scr, files, l)
      BY <2>2
    <2>4. IsList(l) /\ blk[l].zero = "CLOSED"
      BY <2>3 DEF Valid, Current, IsList
    <2>5. ASSUME NEW f \in Files, files[f] # 0 PROVE blk[l].at[f] # 0 /\ Holds(blk[l].at[f], f)
      <3>1. blk[l].at[f] \in 1 .. Total - 1 /\ Held(blk, scr, blk[l].at[f], f, files[f])
        BY <2>3, <2>5 DEF Valid, Names
      <3>2. QED
        BY <2>1, <3>1, HeldIs
    <2>6. QED
      BY <2>4, <2>5
  <1>2. QED
    BY <1>1, FlashInvariant, PTL

-----------------------------------------------------------------------------
(* The link.                                                               *)

\* Nothing has happened but what link_handle_err() repairs.
Repairable == slips \subseteq Mild

\* The packet the host has sent last, and whether it ends the command.
Wanted     == Packets(host.cmd)[host.i]
LastPacket == host.i = Len(Packets(host.cmd))

\* The types, and what host and device know of the place they are at.
HostRecord == [pc : {"idle", "ack", "read", "resync", "settle"}, cmd : Command,
               i : 1..3, tries : 0..(MaxTries - 1), wrong : BOOLEAN,
               result : Result, open : BOOLEAN]

HostType ==
    /\ host \in HostRecord
    /\ host.pc = "ack" => host.i \in 1 .. Len(Packets(host.cmd))
    /\ host.pc = "read" => host.i \in 1 .. Len(Answers(host.cmd))

DevRecord == [pc : {"op", "arg", "exec", "reply"}, cmd : Command \cup {"none", "unknown"},
              got : 0..1, wrong : BOOLEAN, err : {"fail", "zero", "count"}]

DevType ==
    /\ dev \in DevRecord
    /\ dev.pc # "op" => dev.cmd # "none"
    /\ dev.pc \in {"arg", "reply"} => TakesArgument(dev.cmd)
    /\ dev.pc = "exec" => dev.got = 0
    /\ dev.pc = "arg" /\ dev.cmd = "unlink" => dev.got = 0

LineType == down \in Seq(Element) /\ up \in Seq(Element)

PastType ==
    /\ executed \subseteq Command \cup {"unknown"}
    /\ slips \subseteq {"late", "unreset", "abort", "unread", "hidden", "mistaken", "damaged"}

TypesInv == HostType /\ DevType /\ LineType /\ PastType

\* x is a packet that was sent with contents b.
WasSentAs(x, b) ==
    x.start /\ x.body \in {b, Garbled("data")} /\ x.sum \in {b, Garbled("checksum")}

\* The device has all of the command, and what it has answered follows position k of
\* the line; the host waits for the transfer i.
Answering(k, i) ==
    /\ dev.pc = "op" => dev.got = 0
    /\ dev.pc # "arg"
    /\ dev.pc \in {"exec", "reply"} => Len(up) = k /\ i = 1
    /\ Len(up) - k + i <= Len(Answers(host.cmd)) + 1
    /\ host.cmd = "readserialno" /\ Len(up) = k + 2 /\ ChecksumIsOk(up[k + 1])
         => up[k + 1].body = Body("reply", "count")

\* What a host that reads the answers of "read" makes of them.
AnswersOfRead(k, i) ==
    host.cmd = "read" =>
        /\ i = 1 /\ Len(up) = k + 2 /\ ChecksumIsOk(up[k + 1]) /\ ChecksumIsOk(up[k + 2]) =>
               up[k + 2].body[1] = "reply" /\ up[k + 1].body \in {Zero, Body("data", "read")}
        /\ i = 2 /\ Len(up) = k + 1 /\ ChecksumIsOk(up[k + 1]) =>
               up[k + 1].body[1] = "reply" /\ ~host.wrong

\* The device is at the host's command, or takes it for none; "readserialno"
\* has no argument, so the device is never beyond its first packet.
OwnCommand ==
    /\ dev.pc # "op" => dev.cmd \in {host.cmd, "unknown"}
    /\ host.cmd = "readserialno" =>
         \/ dev.pc = "op" /\ dev.got = 0
         \/ dev.pc = "exec" /\ dev.cmd = "readserialno"

\* The device has as much of the argument as the host has sent.
Position ==
    dev.pc = "arg" => /\ down # <<>> => host.i = dev.got + 2
                      /\ \A j \in 1 .. Len(up) : ~up[j].start => host.i = dev.got + 1

\* The host waits for an acknowledgement: one packet at most is under way, or
\* one acknowledgement, and after the last one the answers follow.
AckInv ==
    /\ OwnCommand /\ Position
    /\ Len(down) <= 1
    /\ down # <<>> => WasSentAs(down[1], Wanted) /\ \A j \in 1 .. Len(up) : up[j].start
    /\ \A j \in 1 .. Len(up) : ~up[j].start =>
          /\ \A k \in 1 .. Len(up) : ~up[k].start => k = j
          /\ LastPacket => Answering(j, 1)

\* The host reads, and what is on the line is the rest of the answers.
ReadInv == OwnCommand /\ down = <<>> /\ Answering(0, host.i)

\* The device has executed what it says it has.
DevTruth ==
    dev.pc \in {"arg", "reply"} \/ (dev.pc = "exec" /\ dev.cmd # "unknown") =>
        \/ ~dev.wrong
        \/ dev.err = "fail" /\ (dev.pc = "reply" \/ (dev.pc = "arg" /\ dev.cmd = "rename"))

\* A packet with a good checksum says what the device did.
TruthInv ==
    /\ DevTruth
    /\ \A j \in 1 .. Len(up) : ChecksumIsOk(up[j]) =>
          /\ up[j].body = Body("reply", "fail") => host.cmd # "readserialno"
          /\ up[j].body # Body("reply", "fail") => host.cmd \in executed

\* The device tells the host what it has done.
AckTruth ==
    /\ TruthInv /\ ~host.wrong
    /\ LastPacket => \A j \in 1 .. Len(up) : ~up[j].start => AnswersOfRead(j, 1)

\* What has been read of "read" is wrong only if a failure is still to come.
ReadTruth ==
    /\ TruthInv /\ AnswersOfRead(0, host.i)
    /\ host.wrong => host.cmd = "read" /\ host.i = 2

\* A packet that leaves a device which waits for a command where it is.
Inert(p) == ChecksumIsOk(p) => p.body = Zero
Ready == dev.pc # "arg" /\ (dev.pc = "op" => dev.got = 0)
Recovered == Ready /\ \A j \in 1 .. Len(down) : Inert(down[j])

\* The device is not at a command with two arguments, and the line has none.
NoRename == /\ ~(dev.pc = "arg" /\ dev.cmd = "rename")
            /\ \A j \in 1 .. Len(down) : down[j].body # Body("op", "rename")

\* Once a packet of length zero is acknowledged the device waits for a command,
\* and nothing but such packets is behind the first.
Fresh ==
    /\ NoRename
    /\ host.pc = "settle" \/ (\E j \in 1 .. Len(up) : Acknowledges(up[j], Zero)) => Recovered
    /\ \A j \in 2 .. Len(down) : Inert(down[j])

\* A device that waits for a command is at its beginning.
Whole == dev.pc = "op" => dev.got = 0

\* A line that was out of step before ends in a packet that leaves the device
\* at the beginning of a command, if it waits for one, when it arrives.
Arriving == IF down = <<>> THEN Whole
            ELSE ~(ChecksumIsOk(down[Len(down)]) /\ Full(down[Len(down)]))

\* link_handle_err() ends in step, if all of its packets arrive.
RecoveryInv == "damaged" \notin slips => Fresh \/ (~Repairable /\ Arriving)

\* Packets are lost from a line that is out of step for a reason.
Reasons == "damaged" \in slips => slips \cap {"late", "unreset", "abort", "mistaken"} # {}

\* Between calls nothing is on the line.
IdleInv == down = <<>> /\ up = <<>> /\ dev.pc = "op" /\ dev.got = 0

\* The invariant, by the place of the host.
LinkInv ==
    /\ Reasons
    /\ host.pc = "idle" /\ Repairable => IdleInv
    /\ host.pc = "ack" /\ Repairable => AckInv
    /\ host.pc = "read" /\ Repairable => ReadInv
    /\ host.pc \in {"resync", "settle"} => RecoveryInv
    /\ host.pc = "ack" /\ slips = {} => AckTruth
    /\ host.pc = "read" /\ slips = {} => ReadTruth
    /\ Truthful

-----------------------------------------------------------------------------
\* What a call sends, packet by packet.
LEMMA PacketsAre ==
    ASSUME NEW c \in Command
    PROVE  /\ Packets(c)[1] = Body("op", c)
           /\ c \notin {"unlink", "rename", "write"} => Len(Packets(c)) = 1
           /\ c = "unlink" => Len(Packets(c)) = 2 /\ Packets(c)[2] = Body("path", c)
           /\ c = "rename" => /\ Len(Packets(c)) = 3
                             /\ Packets(c)[2] = Body("path", c) /\ Packets(c)[3] = Body("new", c)
           /\ c = "write" => /\ Len(Packets(c)) = 3
                            /\ Packets(c)[2] = Body("first", c) /\ Packets(c)[3] = Body("last", c)
  BY DEF Packets

\* The transfers it reads.
LEMMA AnswersAre ==
    ASSUME NEW c \in Command
    PROVE  /\ c \notin {"readserialno", "read"} => Len(Answers(c)) = 1 /\ Answers(c)[1] = "reply"
           /\ c = "readserialno" => /\ Len(Answers(c)) = 2
                                   /\ Answers(c)[1] = "reply" /\ Answers(c)[2] = "data"
           /\ c = "read" => /\ Len(Answers(c)) = 2
                           /\ Answers(c)[1] = "data" /\ Answers(c)[2] = "reply"
  BY DEF Answers

LEMMA Counts ==
    ASSUME NEW c \in Command
    PROVE  Len(Packets(c)) \in 1 .. 3 /\ Len(Answers(c)) \in 1 .. 2
  BY PacketsAre, AnswersAre

\* A packet's contents tell which one it is, and that it is no other.
LEMMA WantedIs ==
    ASSUME NEW c \in Command, NEW i \in 1 .. Len(Packets(c))
    PROVE  /\ i \in 1 .. 3
           /\ Packets(c)[i] \in Bodies /\ Packets(c)[i] # Zero
           /\ Packets(c)[i] # Garbled("data") /\ Packets(c)[i] # Garbled("checksum")
           /\ Packets(c)[i][1] = "op" => i = 1
           /\ Packets(c)[i][1] = "first" => c = "write" /\ i = 2
  <1>1. PICK n : n = Len(Packets(c))
    OBVIOUS
  <1>2. /\ c \notin {"unlink", "rename", "write"} => n = 1
        /\ c = "unlink" => n = 2
        /\ c \in {"rename", "write"} => n = 3
        /\ i \in 1 .. n
    BY <1>1, PacketsAre
  <1>3. /\ i \in 1 .. 3
        /\ i = 1 \/ (i = 2 /\ c \in {"unlink", "rename", "write"}) \/ (i = 3 /\ c \in {"rename", "write"})
    BY <1>2
  <1>4. /\ Packets(c)[i] \in {<<"op", c>>, <<"path", c>>, <<"new", c>>, <<"first", c>>, <<"last", c>>}
        /\ Packets(c)[i] = <<"op", c>> => i = 1
        /\ Packets(c)[i] = <<"first", c>> => c = "write" /\ i = 2
    <2>1. i = 1 => Packets(c)[i] = <<"op", c>>
      BY PacketsAre DEF Body
    <2>2. i = 2 => /\ c \in {"unlink", "rename"} => Packets(c)[i] = <<"path", c>>
                   /\ c = "write" => Packets(c)[i] = <<"first", c>>
      BY PacketsAre DEF Body
    <2>3. i = 3 => /\ c = "rename" => Packets(c)[i] = <<"new", c>>
                   /\ c = "write" => Packets(c)[i] = <<"last", c>>
      BY PacketsAre DEF Body
    <2>4. /\ <<"path", c>> # <<"op", c>> /\ <<"new", c>> # <<"op", c>> /\ <<"first", c>> # <<"op", c>>
          /\ <<"last", c>> # <<"op", c>> /\ <<"op", c>> # <<"first", c>> /\ <<"path", c>> # <<"first", c>>
          /\ <<"new", c>> # <<"first", c>> /\ <<"last", c>> # <<"first", c>>
      OBVIOUS
    <2>5. QED
      BY <1>3, <2>1, <2>2, <2>3, <2>4
  <1>5. \A b : b \in {<<"op", c>>, <<"path", c>>, <<"new", c>>, <<"first", c>>, <<"last", c>>} =>
           /\ b \in Bodies /\ b # Zero /\ b # Garbled("data") /\ b # Garbled("checksum")
           /\ b[1] = "op" => b = <<"op", c>>
           /\ b[1] = "first" => b = <<"first", c>>
    BY DEF Bodies, Zero, Garbled
  <1>6. QED
    BY <1>3, <1>4, <1>5

\* What is put on the line has the type of the line.
LEMMA ElementsAre ==
    /\ \A b \in Bodies : Packet(b) \in Element
    /\ \A x \in Sums : Ack(x) \in Element /\ Nack(x) \in Element
    /\ \A t \in Element : Damaged(t) \subseteq Element
    /\ \A t \in Element : t.sum \in Sums /\ (ChecksumIsOk(t) => t.body \in Bodies)
  <1>1. /\ Garbled("data") \notin Bodies /\ Garbled("data") # Garbled("checksum")
        /\ Garbled("checksum") \notin Bodies
        /\ <<"ack", "ack">> # Garbled("checksum") /\ <<"nack", "nack">> # Garbled("checksum")
        /\ <<"ack", "ack">> \notin Bodies /\ <<"nack", "nack">> \notin Bodies
    BY DEF Bodies, Zero, Garbled
  <1>2. \A b \in Bodies : b \in Sums
    BY DEF Sums
  <1>3. \A b \in Bodies : Packet(b) \in Element
    BY <1>2 DEF Packet, Element
  <1>4. \A x \in Sums : Ack(x) \in Element /\ Nack(x) \in Element
    BY DEF Ack, Nack, Element
  <1>5. \A t \in Element : Damaged(t) \subseteq Element
    BY DEF Damaged, Element, Sums
  <1>6. \A t \in Element : t.sum \in Sums /\ (ChecksumIsOk(t) => t.body \in Bodies)
    BY <1>1 DEF Element, Sums, ChecksumIsOk
  <1>7. QED
    BY <1>3, <1>4, <1>5, <1>6

\* The bodies of the device's answers, and what a packet names.
LEMMA BodiesAre ==
    /\ Zero \in Bodies
    /\ \A c \in Command : /\ Body("op", c) \in Bodies /\ Body("path", c) \in Bodies
                          /\ Body("new", c) \in Bodies
                          /\ Body("first", c) \in Bodies /\ Body("last", c) \in Bodies
                          /\ Body("data", c) \in Bodies /\ Body("data", c)[1] = "data"
    /\ \A e \in {"fail", "zero", "count"} : Body("reply", e) \in Bodies /\ Body("reply", e)[1] = "reply"
    /\ \A b \in Bodies : b[1] = "op" => b[2] \in Command
  BY DEF Bodies, Zero, Body

\* Two elements are appended.
LEMMA TwoMore ==
    ASSUME NEW S, NEW u \in Seq(S), NEW a \in S, NEW b \in S, NEW w, w = u \o <<a, b>>
    PROVE  /\ w \in Seq(S) /\ Len(w) = Len(u) + 2
           /\ \A j \in 1 .. Len(u) : w[j] = u[j]
           /\ w[Len(u) + 1] = a /\ w[Len(u) + 2] = b
  <1>1. PICK v : v = <<a, b>>
    OBVIOUS
  <1>2. v \in Seq(S) /\ Len(v) = 2 /\ v[1] = a /\ v[2] = b
    BY <1>1
  <1>3. w = u \o v
    BY <1>1
  <1>4. w \in Seq(S) /\ Len(w) = Len(u) + 2
    BY <1>2, <1>3
  <1>5. \A j \in 1 .. Len(u) : w[j] = u[j]
    BY <1>2, <1>3
  <1>6. w[Len(u) + 1] = a /\ w[Len(u) + 2] = b
    BY <1>2, <1>3
  <1>7. QED
    BY <1>4, <1>5, <1>6

\* The commands the device answers, and what it answers.
Taken   == Command \cup {"unknown", "none"}
Replies == {"fail", "zero", "count"}

\* The line that was u when the device had done a command, with the answers.
AnswersFor(u, w, c, e) ==
    /\ w \in Seq(Element)
    /\ \A j \in 1 .. Len(u) : w[j] = u[j]
    /\ c \notin {"readserialno", "read"} \/ (c = "read" /\ e = "fail") =>
         /\ Len(w) = Len(u) + 1 /\ w[Len(u) + 1] = Packet(Body("reply", e))
    /\ c = "readserialno" =>
         /\ Len(w) = Len(u) + 2 /\ w[Len(u) + 1] = Packet(Body("reply", e))
         /\ w[Len(u) + 2] = Packet(Body("data", c))
    /\ c = "read" /\ e # "fail" =>
         /\ Len(w) = Len(u) + 2 /\ w[Len(u) + 2] = Packet(Body("reply", e))
         /\ w[Len(u) + 1] = Packet(IF e = "zero" THEN Zero ELSE Body("data", c))

LEMMA SentAfter ==
    ASSUME NEW u \in Seq(Element), NEW c \in Taken, NEW e \in Replies,
           NEW w, w = u \o Sent(c, e)
    PROVE  AnswersFor(u, w, c, e)
  <1>1. PICK r \in Element : r = Packet(Body("reply", e))
    BY ElementsAre, BodiesAre DEF Replies
  <1>2. CASE c \notin {"readserialno", "read"} \/ (c = "read" /\ e = "fail")
    <2>1. w = u \o <<r>>
      BY <1>1, <1>2 DEF Sent
    <2>2. QED
      BY <1>1, <1>2, <2>1 DEF AnswersFor
  <1>3. CASE c = "readserialno"
    <2>1. PICK d \in Element : d = Packet(Body("data", c))
      BY <1>3, ElementsAre, BodiesAre DEF Command
    <2>2. w = u \o <<r, d>>
      BY <1>1, <1>3, <2>1 DEF Sent
    <2>3. /\ w \in Seq(Element) /\ Len(w) = Len(u) + 2
          /\ \A j \in 1 .. Len(u) : w[j] = u[j]
          /\ w[Len(u) + 1] = r /\ w[Len(u) + 2] = d
      BY <2>2, TwoMore
    <2>4. QED
      BY <1>1, <1>3, <2>1, <2>3 DEF AnswersFor
  <1>4. CASE c = "read" /\ e # "fail"
    <2>1. PICK d \in Element : d = Packet(IF e = "zero" THEN Zero ELSE Body("data", c))
      BY <1>4, ElementsAre, BodiesAre DEF Command
    <2>2. w = u \o <<d, r>>
      BY <1>1, <1>4, <2>1 DEF Sent
    <2>3. /\ w \in Seq(Element) /\ Len(w) = Len(u) + 2
          /\ \A j \in 1 .. Len(u) : w[j] = u[j]
          /\ w[Len(u) + 1] = d /\ w[Len(u) + 2] = r
      BY <2>2, TwoMore
    <2>4. QED
      BY <1>1, <1>4, <2>1, <2>3 DEF AnswersFor
  <1>5. QED
    BY <1>2, <1>3, <1>4

\* The line to the host at the end of a command.
LEMMA SentUp ==
    ASSUME LineType, NEW c \in Taken, NEW e \in Replies, up' = up \o Sent(c, e)
    PROVE  AnswersFor(up, up', c, e)
  <1>1. up \in Seq(Element)
    BY DEF LineType
  <1>2. AnswersFor(up, up \o Sent(c, e), c, e)
    BY <1>1, SentAfter, Zenon
  <1>3. QED
    BY <1>2, Zenon

-----------------------------------------------------------------------------
(* Types.                                                                  *)

LEMMA InitTypes == LinkInit => TypesInv
  <1> SUFFICES ASSUME LinkInit PROVE TypesInv
    OBVIOUS
  <1> USE DEF LinkInit
  <1>1. HostType
    BY LinkAssumption DEF HostType, HostRecord, Idle, Command, Result
  <1>2. DevType
    BY DEF DevType, DevRecord, TakesArgument
  <1>3. LineType
    BY DEF LineType
  <1>4. PastType
    BY DEF PastType
  <1>5. QED
    BY <1>1, <1>2, <1>3, <1>4 DEF TypesInv

\* What the host's steps assign.
LEMMA HostChanges ==
    ASSUME NEW h \in HostRecord
    PROVE  /\ \A k \in 1 .. 3 : [h EXCEPT !.i = k] \in HostRecord
           /\ \A p \in {"resync", "settle", "idle"} : [h EXCEPT !.pc = p] \in HostRecord
           /\ [h EXCEPT !.pc = "read", !.i = 1] \in HostRecord
           /\ \A k \in 1 .. 3, w \in BOOLEAN : [h EXCEPT !.i = k, !.wrong = w] \in HostRecord
           /\ \A n \in 0 .. MaxTries - 1 : [h EXCEPT !.tries = n] \in HostRecord
           /\ \A r \in Result, o \in BOOLEAN :
                 [h EXCEPT !.pc = "idle", !.result = r, !.open = o] \in HostRecord
  <1>1. \A k \in 1 .. 3 : [h EXCEPT !.i = k] \in HostRecord
    BY DEF HostRecord
  <1>2. \A p \in {"resync", "settle", "idle"} : [h EXCEPT !.pc = p] \in HostRecord
    BY DEF HostRecord
  <1>3. [h EXCEPT !.pc = "read", !.i = 1] \in HostRecord
    <2>1. ASSUME NEW k \in 1 .. 3 PROVE [h EXCEPT !.pc = "read", !.i = k] \in HostRecord
      BY DEF HostRecord
    <2>2. 1 \in 1 .. 3
      OBVIOUS
    <2>3. QED
      BY <2>1, <2>2, Zenon
  <1>4. \A k \in 1 .. 3, w \in BOOLEAN : [h EXCEPT !.i = k, !.wrong = w] \in HostRecord
    BY DEF HostRecord
  <1>5. \A n \in 0 .. MaxTries - 1 : [h EXCEPT !.tries = n] \in HostRecord
    BY DEF HostRecord
  <1>6. \A r \in Result, o \in BOOLEAN :
           [h EXCEPT !.pc = "idle", !.result = r, !.open = o] \in HostRecord
    BY DEF HostRecord
  <1>7. QED
    BY <1>1, <1>2, <1>3, <1>4, <1>5, <1>6

LEMMA CallTypes ==
    ASSUME TypesInv, NEW c \in Command, Call(c)
    PROVE  TypesInv'
  <1>1. HostType'
    <2>1. host' = [pc |-> "ack", cmd |-> c, i |-> 1, tries |-> 0, wrong |-> FALSE,
                   result |-> "none", open |-> host.open]
      BY DEF Call, Idle
    <2>2. host'.pc = "ack" /\ host'.cmd = c /\ host'.i = 1
      BY <2>1
    <2>3. host.open \in BOOLEAN
      BY DEF TypesInv, HostType, HostRecord
    <2>4. host' \in HostRecord
      BY <2>1, <2>3, LinkAssumption DEF Result, HostRecord
    <2>5. 1 \in 1 .. Len(Packets(c))
      <3>1. Len(Packets(c)) \in 1 .. 3
        BY Counts
      <3>2. QED
        BY <3>1
    <2>6. QED
      BY <2>2, <2>4, <2>5 DEF HostType
  <1>2. DevType'
    BY DEF TypesInv, DevType, Call
  <1>3. LineType'
    <2>1. Packet(Packets(c)[1]) \in Element
      BY PacketsAre, BodiesAre, ElementsAre
    <2>2. QED
      BY <2>1 DEF TypesInv, LineType, Call
  <1>4. PastType'
    BY DEF TypesInv, PastType, Call
  <1>5. QED
    BY <1>1, <1>2, <1>3, <1>4 DEF TypesInv

LEMMA NextPacket ==
    ASSUME HostType, host.pc = "ack"
    PROVE  /\ host.cmd \in Command /\ host.i \in 1 .. 3 /\ host.i \in 1 .. Len(Packets(host.cmd))
           /\ ~LastPacket => /\ host.i < Len(Packets(host.cmd))
                            /\ host.i + 1 \in 1 .. 3 /\ host.i + 1 \in 1 .. Len(Packets(host.cmd))
           /\ 1 \in 1 .. Len(Answers(host.cmd))
  <1>1. host.cmd \in Command /\ host.i \in 1 .. 3 /\ host.i \in 1 .. Len(Packets(host.cmd))
    BY DEF HostType, HostRecord
  <1>2. PICK n : n = Len(Packets(host.cmd))
    OBVIOUS
  <1>3. PICK i : i = host.i
    OBVIOUS
  <1>4. n \in 1 .. 3 /\ i \in 1 .. n
    BY <1>1, <1>2, <1>3, Counts
  <1>5. i # n => i < n /\ i + 1 \in 1 .. 3 /\ i + 1 \in 1 .. n
    BY <1>4
  <1>6. 1 \in 1 .. Len(Answers(host.cmd))
    <2>1. Len(Answers(host.cmd)) \in 1 .. 2
      BY <1>1, Counts
    <2>2. QED
      BY <2>1
  <1>7. QED
    BY <1>1, <1>2, <1>3, <1>5, <1>6 DEF LastPacket

LEMMA HostAckTypes ==
    ASSUME TypesInv, HostAck
    PROVE  TypesInv'
  <1>0. HostType /\ host.pc = "ack"
    BY DEF TypesInv, HostAck
  <1>1. HostType'
    <2>1. CASE ~LastPacket
      <3>1. host' = [host EXCEPT !.i = @ + 1]
        BY <2>1 DEF HostAck, LastPacket
      <3>2. host'.pc = "ack" /\ host'.cmd = host.cmd /\ host'.i = host.i + 1
        BY <1>0, <3>1 DEF HostType, HostRecord
      <3>3. host.i + 1 \in 1 .. 3 /\ host.i + 1 \in 1 .. Len(Packets(host.cmd))
        BY <1>0, <2>1, NextPacket
      <3>4. host' \in HostRecord
        BY <1>0, <3>1, <3>3, HostChanges DEF HostType
      <3>5. QED
        BY <3>2, <3>3, <3>4 DEF HostType
    <2>2. CASE LastPacket
      <3>1. host' = [host EXCEPT !.pc = "read", !.i = 1]
        BY <1>0, <2>2, NextPacket, Counts DEF HostAck, LastPacket
      <3>2. host'.pc = "read" /\ host'.cmd = host.cmd /\ host'.i = 1
        BY <1>0, <3>1 DEF HostType, HostRecord
      <3>3. host' \in HostRecord
        BY <1>0, <3>1, HostChanges DEF HostType
      <3>4. host'.i \in 1 .. Len(Answers(host'.cmd))
        BY <1>0, <3>2, NextPacket
      <3>5. QED
        BY <3>2, <3>3, <3>4 DEF HostType
    <2>3. QED
      BY <2>1, <2>2
  <1>2. DevType'
    BY DEF TypesInv, DevType, HostAck
  <1>3. LineType'
    <2>1. ~LastPacket => Packet(Packets(host.cmd)[host.i + 1]) \in Element
      BY <1>0, NextPacket, WantedIs, ElementsAre
    <2>2. up' = Tail(up) /\ up # <<>>
      BY DEF HostAck
    <2>3. down' = Append(down, Packet(Packets(host.cmd)[host.i + 1])) \/ down' = down
      BY DEF HostAck
    <2>4. LastPacket => down' = down
      BY <1>0, NextPacket, Counts DEF HostAck, LastPacket
    <2>5. up' \in Seq(Element)
      BY <2>2 DEF TypesInv, LineType
    <2>6. down \in Seq(Element)
      BY DEF TypesInv, LineType
    <2>7. CASE LastPacket
      BY <2>4, <2>5, <2>6, <2>7 DEF LineType
    <2>8. CASE ~LastPacket
      <3>1. PICK e \in Element : e = Packet(Packets(host.cmd)[host.i + 1])
        BY <2>1, <2>8
      <3>2. down' = Append(down, e) \/ down' = down
        BY <2>3, <3>1
      <3>3. down' \in Seq(Element)
        BY <2>6, <3>2
      <3>4. QED
        BY <2>5, <3>3 DEF LineType
    <2>9. QED
      BY <2>7, <2>8
  <1>4. PastType'
    BY DEF TypesInv, PastType, HostAck
  <1>5. QED
    BY <1>1, <1>2, <1>3, <1>4 DEF TypesInv

LEMMA ReturnsIs ==
    ASSUME HostType, NEW r \in Result
    PROVE  /\ Returns(r) \in HostRecord
           /\ Returns(r).pc = "idle" /\ Returns(r).result = r /\ Returns(r).wrong = host.wrong
           /\ Returns(r).cmd = host.cmd
  <1>1. PICK o \in BOOLEAN : o = IF host.cmd = "readserialno" THEN r = "ok" /\ ~host.wrong
                                                            ELSE host.open
    BY DEF HostType, HostRecord
  <1>2. Returns(r) = [host EXCEPT !.pc = "idle", !.result = r, !.open = o]
    BY <1>1 DEF Returns
  <1>3. PICK h \in HostRecord : h = host
    BY DEF HostType
  <1>4. Returns(r) = [h EXCEPT !.pc = "idle", !.result = r, !.open = o]
    BY <1>2, <1>3
  <1>5. [h EXCEPT !.pc = "idle", !.result = r, !.open = o] \in HostRecord
    BY <1>1, <1>3, HostChanges, Zenon
  <1>6. /\ Returns(r).pc = "idle" /\ Returns(r).result = r /\ Returns(r).wrong = h.wrong
        /\ Returns(r).cmd = h.cmd
    BY <1>3, <1>4 DEF HostRecord
  <1>7. QED
    BY <1>3, <1>4, <1>5, <1>6

\* An answer is read: the call goes on, or is over.
LEMMA ReadGoesOn ==
    ASSUME HostType, HostRead, NEW b, b = Head(up).body
    PROVE  /\ host' \in HostRecord /\ host'.cmd = host.cmd
           /\ \/ /\ host'.pc = "idle" /\ host'.result \in {"ok", "dev"}
                 /\ host'.wrong = host.wrong
                 /\ \/ host.i = Len(Answers(host.cmd))
                    \/ host.cmd = "readserialno" /\ b # Body("reply", "count")
                 /\ host'.result = "ok" =>
                      \/ host.cmd = "readserialno" /\ (b = Body("data", host.cmd) \/ host.i = 1)
                      \/ host.cmd # "readserialno" /\ b # Body("reply", "fail")
              \/ /\ host'.pc = "read" /\ host.i = 1 /\ host'.i = 2 /\ Len(Answers(host.cmd)) = 2
                 /\ host'.wrong => host.wrong \/ (host.cmd = "read" /\ b \notin {Zero, Body("data", "read")})
  <1> DEFINE IsIt(x) == x = Body("data", host.cmd) \/ (x = Zero /\ host.cmd = "read")
  <1>1. PICK ans : ans = Answers(host.cmd)
    OBVIOUS
  <1>2. PICK i : i = host.i
    OBVIOUS
  <1>3. PICK n : n = Len(ans)
    OBVIOUS
  <1>4. n \in 1 .. 2 /\ i \in 1 .. n /\ host.cmd \in Command /\ host \in HostRecord
    <2>1. host.cmd \in Command /\ host.i \in 1 .. Len(Answers(host.cmd))
      BY DEF HostType, HostRecord, HostRead
    <2>2. QED
      BY <1>1, <1>2, <1>3, <2>1, Counts DEF HostType
  <1>5. /\ ans[i] = "data" \/ host.cmd # "readserialno" \/ i = 1
        /\ ans[i] = "data" => (host.cmd = "readserialno" /\ i = n) \/ (host.cmd = "read" /\ i # n)
        /\ ans[i] # "data" /\ i # n => host.cmd = "readserialno"
    <2>1. /\ host.cmd \notin {"readserialno", "read"} => n = 1 /\ ans[1] = "reply"
          /\ host.cmd = "readserialno" => n = 2 /\ ans[1] = "reply" /\ ans[2] = "data"
          /\ host.cmd = "read" => n = 2 /\ ans[1] = "data" /\ ans[2] = "reply"
      BY <1>1, <1>3, <1>4, AnswersAre
    <2>2. i = 1 \/ i = 2
      BY <1>4
    <2>3. QED
      BY <1>4, <2>1, <2>2
  <1>6. /\ i = n /\ ans[i] = "data" => host' = Returns(IF IsIt(b) THEN "ok" ELSE "dev")
        /\ i = n /\ ans[i] # "data" => host' = Returns(Outcome(b))
        /\ i # n /\ ans[i] = "data" => host' = [host EXCEPT !.i = @ + 1, !.wrong = ~IsIt(b)]
        /\ i # n /\ ans[i] # "data" =>
             host' = IF b = Body("reply", "count") THEN [host EXCEPT !.i = @ + 1]
                     ELSE [Returns("ok") EXCEPT !.open = FALSE]
    <2>1. i = host.i /\ n = Len(Answers(host.cmd)) /\ ans = Answers(host.cmd) /\ b = Head(up).body
      BY <1>1, <1>2, <1>3
    <2>2. host' = CASE host.i = Len(Answers(host.cmd)) /\ Answers(host.cmd)[host.i] = "data"
                         -> Returns(IF IsIt(Head(up).body) THEN "ok" ELSE "dev")
                    [] host.i = Len(Answers(host.cmd)) /\ ~(Answers(host.cmd)[host.i] = "data")
                         -> Returns(Outcome(Head(up).body))
                    [] ~(host.i = Len(Answers(host.cmd))) /\ Answers(host.cmd)[host.i] = "data"
                         -> [host EXCEPT !.i = @ + 1, !.wrong = ~IsIt(Head(up).body)]
                    [] OTHER -> IF Head(up).body = Body("reply", "count") THEN [host EXCEPT !.i = @ + 1]
                                ELSE [Returns("ok") EXCEPT !.open = FALSE]
      BY DEF HostRead
    <2>3. QED
      BY <2>1, <2>2
  <1> HIDE DEF IsIt
  <1>7. Outcome(b) \in {"ok", "dev"} /\ {"ok", "dev"} \subseteq Result
    BY DEF Outcome, Result
  <1>8. CASE i = n
    <2>1. CASE ans[i] = "data"
      <3>1. PICK r \in {"ok", "dev"} : r = IF IsIt(b) THEN "ok" ELSE "dev"
        OBVIOUS
      <3>2. host' = Returns(r)
        BY <1>6, <1>8, <2>1, <3>1
      <3>3. host' \in HostRecord /\ host'.pc = "idle" /\ host'.result = r /\ host'.wrong = host.wrong
            /\ host'.cmd = host.cmd
        BY <1>7, <3>1, <3>2, ReturnsIs
      <3>4. r = "ok" => b = Body("data", host.cmd) /\ host.cmd = "readserialno"
        BY <1>5, <1>4, <1>8, <2>1, <3>1 DEF IsIt
      <3>5. QED
        BY <1>1, <1>2, <1>3, <1>8, <3>1, <3>3, <3>4
    <2>2. CASE ans[i] # "data"
      <3>1. PICK r \in {"ok", "dev"} : r = Outcome(b)
        BY <1>7
      <3>2. host' = Returns(r)
        BY <1>6, <1>8, <2>2, <3>1
      <3>3. host' \in HostRecord /\ host'.pc = "idle" /\ host'.result = r /\ host'.wrong = host.wrong
            /\ host'.cmd = host.cmd
        BY <1>7, <3>1, <3>2, ReturnsIs
      <3>4. r = "ok" => (host.cmd = "readserialno" /\ i = 1) \/ (host.cmd # "readserialno" /\ b # Body("reply", "fail"))
        BY <1>5, <2>2, <3>1 DEF Outcome
      <3>5. QED
        BY <1>1, <1>2, <1>3, <1>8, <3>1, <3>3, <3>4
    <2>3. QED
      BY <2>1, <2>2
  <1>9. CASE i # n
    <2>1. i = 1 /\ n = 2 /\ i + 1 = 2 /\ 2 \in 1 .. 3
      BY <1>4, <1>9
    <2>2. CASE ans[i] = "data"
      <3>1. PICK w \in BOOLEAN : w = ~IsIt(b)
        BY DEF IsIt
      <3>2. host' = [host EXCEPT !.i = 2, !.wrong = w]
        BY <1>2, <1>6, <1>9, <2>1, <2>2, <3>1
      <3>3. host' \in HostRecord
        BY <1>4, <2>1, <3>1, <3>2, HostChanges
      <3>4. host'.i = 2 /\ host'.pc = host.pc /\ host'.cmd = host.cmd /\ host'.wrong = w
        BY <1>4, <3>2 DEF HostRecord
      <3>5. host.cmd = "read"
        BY <1>5, <1>9, <2>2
      <3>6. QED
        BY <1>1, <1>2, <1>3, <2>1, <3>1, <3>3, <3>4, <3>5 DEF HostRead, IsIt
    <2>3. CASE ans[i] # "data" /\ b = Body("reply", "count")
      <3>1. host' = [host EXCEPT !.i = 2]
        BY <1>2, <1>6, <1>9, <2>1, <2>3
      <3>2. host' \in HostRecord
        BY <1>4, <2>1, <3>1, HostChanges
      <3>3. host'.i = 2 /\ host'.pc = host.pc /\ host'.cmd = host.cmd /\ host'.wrong = host.wrong
        BY <1>4, <3>1 DEF HostRecord
      <3>4. QED
        BY <1>1, <1>2, <1>3, <2>1, <3>2, <3>3 DEF HostRead
    <2>4. CASE ans[i] # "data" /\ b # Body("reply", "count")
      <3>1. PICK h : h = Returns("ok")
        OBVIOUS
      <3>2. h \in HostRecord /\ h.pc = "idle" /\ h.result = "ok" /\ h.wrong = host.wrong /\ h.cmd = host.cmd
        BY <1>7, <3>1, ReturnsIs
      <3>3. host' = [h EXCEPT !.open = FALSE]
        BY <1>6, <1>9, <2>4, <3>1
      <3>4. host' \in HostRecord /\ host'.pc = "idle" /\ host'.result = "ok" /\ host'.wrong = h.wrong
            /\ host'.cmd = h.cmd
        BY <3>2, <3>3 DEF HostRecord
      <3>5. host.cmd = "readserialno"
        BY <1>5, <1>9, <2>4
      <3>6. QED
        BY <1>2, <2>1, <2>4, <3>2, <3>4, <3>5
    <2>5. QED
      BY <2>2, <2>3, <2>4
  <1>10. QED
    BY <1>8, <1>9

LEMMA HostReadTypes ==
    ASSUME TypesInv, HostRead
    PROVE  TypesInv'
  <1>1. HostType'
    <2>1. host' \in HostRecord /\ host'.cmd = host.cmd
      BY ReadGoesOn DEF TypesInv
    <2>2. host'.pc = "idle" \/ (host'.pc = "read" /\ host'.i = 2 /\ Len(Answers(host.cmd)) = 2)
      BY ReadGoesOn DEF TypesInv
    <2>3. \A n : n = 2 => 2 \in 1 .. n
      OBVIOUS
    <2>4. QED
      BY <2>1, <2>2, <2>3 DEF HostType
  <1>2. DevType'
    BY DEF TypesInv, DevType, HostRead
  <1>3. LineType'
    BY DEF TypesInv, LineType, HostRead
  <1>4. PastType'
    BY DEF TypesInv, PastType, HostRead
  <1>5. QED
    BY <1>1, <1>2, <1>3, <1>4 DEF TypesInv

\* After an error the host sends a packet of length zero, or gives up.
LEMMA FailedIs ==
    ASSUME HostType, NEW why, NEW rest, Failed(why, rest)
    PROVE  /\ up' = rest /\ host' \in HostRecord /\ host'.cmd = host.cmd
           /\ \/ /\ host.pc # "resync" /\ host'.pc = "resync" /\ Recovers
                 /\ down' = Append(down, Packet(Zero))
                 /\ slips' = (slips \ {"damaged"}) \cup why
              \/ /\ host.pc = "resync" /\ host'.pc = "resync"
                 /\ down' = Append(down, Packet(Zero))
                 /\ slips' = slips \cup why
              \/ /\ host'.pc = "idle" /\ host'.result # "ok"
                 /\ down' = down
                 /\ slips' = slips \cup why \cup {"unreset"}
  <1>0. up' = rest
    BY DEF Failed
  <1>1. PICK h \in HostRecord : h = host
    BY DEF HostType
  <1>2. {"prot", "phy"} \subseteq Result
    BY DEF Result
  <1>3. CASE host.pc # "resync" /\ Recovers
    <2>1. host' = [h EXCEPT !.pc = "resync"]
      BY <1>1, <1>3 DEF Failed
    <2>2. host' \in HostRecord
      BY <1>1, <2>1, HostChanges
    <2>3. host'.cmd = h.cmd /\ host'.pc = "resync"
      BY <1>1, <2>1 DEF HostRecord
    <2>4. QED
      BY <1>0, <1>1, <1>3, <2>2, <2>3 DEF Failed
  <1>4. CASE host.pc # "resync" /\ ~Recovers
    <2>1. host' = Returns("prot")
      BY <1>4 DEF Failed
    <2>2. QED
      BY <1>0, <1>2, <1>4, <2>1, ReturnsIs DEF Failed
  <1>5. CASE host.pc = "resync" /\ TriesLeft
    <2>1. host' = [h EXCEPT !.tries = h.tries + 1]
      BY <1>1, <1>5 DEF Failed
    <2>2. h.tries + 1 \in 0 .. MaxTries - 1
      BY <1>1, <1>5, LinkAssumption DEF TriesLeft, HostRecord
    <2>3. PICK n \in 0 .. MaxTries - 1 : n = h.tries + 1
      BY <2>2
    <2>4. host' = [h EXCEPT !.tries = n]
      BY <2>1, <2>3
    <2>5. [h EXCEPT !.tries = n] \in HostRecord
      BY <1>1, <2>3, HostChanges
    <2>6. host' \in HostRecord /\ host'.cmd = h.cmd /\ host'.pc = "resync"
      BY <1>1, <1>5, <2>4, <2>5 DEF HostRecord
    <2>7. QED
      BY <1>0, <1>1, <1>5, <2>6 DEF Failed
  <1>6. CASE host.pc = "resync" /\ ~TriesLeft
    <2>1. host' = Returns("phy")
      BY <1>6 DEF Failed
    <2>2. QED
      BY <1>0, <1>2, <1>6, <2>1, ReturnsIs DEF Failed
  <1>7. QED
    BY <1>3, <1>4, <1>5, <1>6

LEMMA FailedTypes ==
    ASSUME TypesInv, NEW why, why \subseteq {"late"}, NEW rest \in Seq(Element),
           Failed(why, rest), UNCHANGED <<dev, executed>>
    PROVE  TypesInv'
  <1>1. HostType'
    BY FailedIs DEF TypesInv, HostType
  <1>2. DevType'
    BY DEF TypesInv, DevType
  <1>3. LineType'
    <2>1. Packet(Zero) \in Element
      BY ElementsAre, BodiesAre
    <2>2. up' = rest /\ (down' = Append(down, Packet(Zero)) \/ down' = down)
      BY FailedIs DEF TypesInv
    <2>3. \A u \in Seq(Element), x \in Element : Append(u, x) \in Seq(Element)
      OBVIOUS
    <2>4. QED
      BY <2>1, <2>2, <2>3, Zenon DEF TypesInv, LineType
  <1>4. PastType'
    <2>1. executed \subseteq Command \cup {"unknown"}
          /\ slips \subseteq {"late", "unreset", "abort", "unread", "hidden", "mistaken", "damaged"}
      BY DEF TypesInv, PastType
    <2>2. \/ slips' = (slips \ {"damaged"}) \cup why \/ slips' = slips \cup why
          \/ slips' = slips \cup why \cup {"unreset"}
      BY FailedIs DEF TypesInv
    <2>3. slips' \subseteq {"late", "unreset", "abort", "unread", "hidden", "mistaken", "damaged"}
      BY <2>1, <2>2
    <2>4. QED
      BY <2>1, <2>3 DEF PastType
  <1>5. QED
    BY <1>1, <1>2, <1>3, <1>4 DEF TypesInv

\* An error is noticed; something stays on the line only if nothing is repaired.
LEMMA HostFails ==
    ASSUME LineType, HostMismatch \/ HostTimeout
    PROVE  /\ UNCHANGED <<dev, executed>>
           /\ host.pc \in {"ack", "read", "resync"}
           /\ \E why \in SUBSET {"late"}, rest \in Seq(Element) :
                 Failed(why, rest) /\ (rest # <<>> => host.pc # "resync" /\ ~Recovers)
  <1>1. {} \in SUBSET {"late"} /\ {"late"} \in SUBSET {"late"} /\ <<>> \in Seq(Element)
    OBVIOUS
  <1>2. CASE HostMismatch
    <2>1. up \in Seq(Element) /\ up # <<>> /\ Failed({}, Flushed)
      BY <1>2 DEF HostMismatch, LineType
    <2>2. Flushed \in Seq(Element) /\ (Flushed # <<>> => host.pc # "resync" /\ ~Recovers)
      BY <2>1 DEF Flushed
    <2>3. QED
      BY <1>1, <1>2, <2>1, <2>2 DEF HostMismatch, bounds
  <1>3. CASE HostTimeout
    <2>1. Failed({}, <<>>) \/ Failed({"late"}, <<>>)
      BY <1>3 DEF HostTimeout
    <2>2. QED
      BY <1>1, <1>3, <2>1 DEF HostTimeout
  <1>4. QED
    BY <1>2, <1>3

LEMMA HostResyncedTypes ==
    ASSUME TypesInv, HostResynced
    PROVE  TypesInv'
  <1>1. HostType'
    <2>1. host' = [host EXCEPT !.pc = "settle"]
      BY DEF HostResynced
    <2>2. host' \in HostRecord
      BY <2>1, HostChanges DEF TypesInv, HostType
    <2>3. host'.pc = "settle"
      BY <2>1 DEF TypesInv, HostType, HostRecord
    <2>4. QED
      BY <2>2, <2>3 DEF HostType
  <1>2. DevType'
    BY DEF TypesInv, DevType, HostResynced
  <1>3. LineType'
    BY DEF TypesInv, LineType, HostResynced
  <1>4. PastType'
    BY DEF TypesInv, PastType, HostResynced
  <1>5. QED
    BY <1>1, <1>2, <1>3, <1>4 DEF TypesInv

LEMMA HostSettleTypes ==
    ASSUME TypesInv, HostSettle
    PROVE  TypesInv'
  <1>1. HostType'
    <2>1. host' = Returns("prot") /\ "prot" \in Result
      BY DEF HostSettle, Result
    <2>2. QED
      BY <2>1, ReturnsIs DEF TypesInv, HostType
  <1>2. DevType'
    BY DEF TypesInv, DevType, HostSettle
  <1>3. LineType'
    BY DEF TypesInv, LineType, HostSettle
  <1>4. PastType'
    <2>1. PICK s : s = slips
      OBVIOUS
    <2>2. slips' \in {s \cup {"late"}, s, s \cap Mild} /\ executed' = executed
      BY <2>1 DEF HostSettle
    <2>3. QED
      BY <2>1, <2>2 DEF TypesInv, PastType, Mild
  <1>5. QED
    BY <1>1, <1>2, <1>3, <1>4 DEF TypesInv

LEMMA AbortTypes ==
    ASSUME TypesInv, Abort
    PROVE  TypesInv'
  <1>1. HostType'
    <2>1. host' = [pc |-> "idle", cmd |-> "close", i |-> 1, tries |-> 0, wrong |-> FALSE,
                   result |-> "killed", open |-> FALSE]
      BY DEF Abort, Idle
    <2>2. host' \in HostRecord /\ host'.pc = "idle"
      BY <2>1, LinkAssumption DEF HostRecord, Command, Result
    <2>3. QED
      BY <2>2 DEF HostType
  <1>2. DevType'
    BY DEF TypesInv, DevType, Abort
  <1>3. LineType'
    BY DEF TypesInv, LineType, Abort
  <1>4. PastType'
    BY DEF TypesInv, PastType, Abort
  <1>5. QED
    BY <1>1, <1>2, <1>3, <1>4 DEF TypesInv

-----------------------------------------------------------------------------
(* The device's steps.                                                     *)

\* A packet is taken from the line and answered.
Receives(p) ==
    /\ down # <<>> /\ p = Head(down) /\ down' = Tail(down)
    /\ \E a \in Element : up' = Append(up, a) /\ ~a.start /\ a.sum = p.sum

\* The answer to a packet.
LEMMA ReceivesIs ==
    ASSUME LineType, down # <<>>, NEW p, p = Head(down), down' = Tail(down),
           up' = Append(up, Nack(p.sum)) \/ up' = Append(up, Ack(p.sum))
    PROVE  Receives(p) /\ p \in Element
  <1>1. p \in Element
    BY DEF LineType
  <1>2. PICK x \in Sums : x = p.sum
    BY <1>1, ElementsAre
  <1>3. up' = Append(up, Nack(x)) \/ up' = Append(up, Ack(x))
    BY <1>2
  <1>4. /\ Nack(x) \in Element /\ ~Nack(x).start /\ Nack(x).sum = x
        /\ Ack(x) \in Element /\ ~Ack(x).start /\ Ack(x).sum = x
    BY <1>2, ElementsAre DEF Ack, Nack
  <1>5. QED
    BY <1>1, <1>2, <1>3, <1>4 DEF Receives

\* Where a command begins.
BeginsAt(c) == IF c = "none" THEN "op" ELSE IF TakesArgument(c) THEN "arg" ELSE "exec"

DevPlaces == {"op", "arg", "exec", "reply"}

\* A change of the device's record.
LEMMA DevChanged ==
    ASSUME NEW d \in DevRecord, NEW n \in 0 .. 1, NEW w \in BOOLEAN, NEW e \in Replies, NEW q \in DevPlaces
    PROVE  /\ [d EXCEPT !.wrong = w, !.err = e, !.got = n, !.pc = q] \in DevRecord
           /\ \A c \in Taken :
                 [d EXCEPT !.cmd = c, !.got = n, !.wrong = w, !.err = e, !.pc = q] \in DevRecord
  BY DEF DevRecord, Replies, DevPlaces, Taken

\* What a packet makes of a device that waits for a command.
LEMMA DevCommandIs ==
    ASSUME DevType, LineType, DevCommand, NEW p, p = Head(down)
    PROVE  /\ Receives(p) /\ p \in Element
           /\ dev' \in DevRecord
           /\ \/ /\ dev'.pc = "op" /\ dev'.got = 0
                 /\ ~ChecksumIsOk(p) /\ slips' = slips
              \/ /\ dev'.pc = "op" /\ ChecksumIsOk(p) /\ dev.got = 0
                 /\ (p.body = Zero /\ dev'.got = 0) \/ Full(p)
                 /\ slips' = slips
              \/ /\ dev'.got = 0 /\ dev'.pc = BeginsAt(dev'.cmd)
                 /\ ChecksumIsOk(p) /\ (dev.got = 0 => p.body # Zero /\ ~Full(p))
                 /\ dev'.cmd \in TakenFor(p) /\ dev'.wrong = Mistaken(p, dev'.cmd)
                 /\ slips' = slips \cup IF Mistaken(p, dev'.cmd) THEN {"mistaken"} ELSE {}
  <1>1. p \in Element /\ down # <<>> /\ down' = Tail(down)
    BY DEF LineType, DevCommand
  <1>2. PICK d \in DevRecord : d = dev
    BY DEF DevType
  <1>4. ChecksumIsOk(p) => TakenFor(p) \subseteq Command \cup {"none", "unknown"}
    <2>1. ASSUME ChecksumIsOk(p) PROVE p.body \in Bodies
      BY <1>1, <2>1, ElementsAre
    <2>2. p.body \in Bodies => (p.body[1] = "op" => p.body[2] \in Command)
      BY BodiesAre
    <2>3. QED
      BY <2>1, <2>2 DEF TakenFor
  <1>5. Receives(p)
    BY ReceivesIs DEF DevCommand
  <1>6. CASE ~ChecksumIsOk(p)
    <2>1. dev' = [d EXCEPT !.got = 0]
      BY <1>2, <1>6 DEF DevCommand
    <2>2. dev' \in DevRecord /\ dev'.pc = d.pc /\ dev'.got = 0
      BY <1>2, <2>1 DEF DevRecord
    <2>3. QED
      BY <1>1, <1>2, <1>5, <1>6, <2>2 DEF DevCommand
  <1>7. CASE ChecksumIsOk(p) /\ dev.got = 0 /\ Full(p)
    <2>1. dev' = [d EXCEPT !.got = 1]
      BY <1>2, <1>7 DEF DevCommand, Full, Zero
    <2>2. dev' \in DevRecord /\ dev'.pc = d.pc
      BY <1>2, <2>1 DEF DevRecord
    <2>3. QED
      BY <1>1, <1>2, <1>5, <1>7, <2>2 DEF DevCommand
  <1>8. CASE ChecksumIsOk(p) /\ dev.got = 0 /\ ~Full(p) /\ p.body = Zero
    <2>1. dev' = dev
      BY <1>8 DEF DevCommand
    <2>2. QED
      BY <1>1, <1>2, <1>5, <1>8, <2>1 DEF DevCommand
  <1>9. CASE ChecksumIsOk(p) /\ ~(dev.got = 0 /\ (Full(p) \/ p.body = Zero))
    <2>1. PICK c \in TakenFor(p) :
             Begins(p, c) /\ slips' = slips \cup IF Mistaken(p, c) THEN {"mistaken"} ELSE {}
      BY <1>9 DEF DevCommand
    <2>2. PICK q \in {"op", "arg", "exec"} : q = BeginsAt(c)
      BY DEF BeginsAt
    <2>3. PICK w \in BOOLEAN : w = Mistaken(p, c)
      BY DEF Mistaken
    <2>4. PICK e \in {"fail", "zero", "count"} : e = IF c = "rename" THEN "zero" ELSE d.err
      BY <1>2 DEF DevRecord
    <2>5. dev' = [d EXCEPT !.cmd = c, !.got = 0, !.wrong = w, !.err = e, !.pc = q]
      <3>1. q = CASE c = "none" -> "op" [] TakesArgument(c) -> "arg" [] OTHER -> "exec"
        <4>1. ~TakesArgument("none")
          BY DEF TakesArgument
        <4>2. QED
          BY <2>2, <4>1 DEF BeginsAt
      <3>2. dev' = [d EXCEPT !.cmd = c, !.got = 0, !.wrong = Mistaken(p, c),
                      !.err = IF c = "rename" THEN "zero" ELSE d.err,
                      !.pc = CASE c = "none" -> "op" [] TakesArgument(c) -> "arg" [] OTHER -> "exec"]
        BY <1>2, <2>1 DEF Begins
      <3>3. QED
        BY <2>3, <2>4, <3>1, <3>2, Zenon
    <2>6. c \in Command \cup {"none", "unknown"}
      BY <1>4, <1>9, <2>1
    <2>7. ASSUME NEW n \in 0 .. 1
          PROVE  [d EXCEPT !.cmd = c, !.got = n, !.wrong = w, !.err = e, !.pc = q] \in DevRecord
      <3>1. q \in DevPlaces /\ e \in Replies /\ c \in Taken
        BY <2>2, <2>4, <2>6 DEF DevPlaces, Replies, Taken
      <3>2. w \in BOOLEAN
        BY <2>3
      <3>3. QED
        BY <2>7, <3>1, <3>2, DevChanged, Zenon
    <2>8. dev' \in DevRecord
      <3>1. 0 \in 0 .. 1
        OBVIOUS
      <3>2. QED
        BY <2>5, <2>7, <3>1, Zenon
    <2>9. dev'.cmd = c /\ dev'.got = 0 /\ dev'.wrong = w /\ dev'.pc = q
      BY <1>2, <2>5 DEF DevRecord
    <2>10. QED
      BY <1>1, <1>2, <1>5, <1>9, <2>1, <2>2, <2>3, <2>8, <2>9
  <1>10. QED
    BY <1>6, <1>7, <1>8, <1>9

\* What a path makes of it.
LEMMA DevPathIs ==
    ASSUME DevType, LineType, DevPath, NEW p, p = Head(down)
    PROVE  /\ Receives(p) /\ p \in Element
           /\ dev' \in DevRecord /\ dev'.cmd = dev.cmd /\ dev'.got = dev.got /\ dev'.err = dev.err
           /\ \/ ~ChecksumIsOk(p) /\ dev'.pc = "reply" /\ slips' = slips \cup {"unread"}
              \/ /\ ChecksumIsOk(p) /\ slips' = slips
                 /\ dev'.pc = "exec" \/ (dev'.pc = "arg" /\ dev.wrong /\ Full(p))
                 /\ ~dev.wrong /\ p.body = Body("path", "unlink") => ~dev'.wrong
  <1>1. Receives(p) /\ p \in Element
    BY ReceivesIs DEF DevPath
  <1>2. PICK d \in DevRecord : d = dev
    BY DEF DevType
  <1>3. CASE ~ChecksumIsOk(p)
    <2>1. dev' = [d EXCEPT !.pc = "reply", !.wrong = TRUE] /\ slips' = slips \cup {"unread"}
      BY <1>2, <1>3 DEF DevPath
    <2>2. dev' \in DevRecord /\ dev'.cmd = d.cmd /\ dev'.got = d.got /\ dev'.err = d.err /\ dev'.pc = "reply"
      BY <1>2, <2>1 DEF DevRecord
    <2>3. QED
      BY <1>1, <1>2, <1>3, <2>1, <2>2
  <1>4. CASE ChecksumIsOk(p)
    <2>1. PICK w : w = (d.wrong \/ p.body # Body("path", "unlink"))
      OBVIOUS
    <2>2. w \in BOOLEAN
      BY <1>2, <2>1 DEF DevRecord
    <2>3. PICK more \in Longer(p) :
             dev' = [d EXCEPT !.pc = IF more THEN "arg" ELSE "exec", !.wrong = w]
      BY <1>2, <1>4, <2>1 DEF DevPath
    <2>4. slips' = slips
      BY <1>2, <1>4 DEF DevPath
    <2>5. PICK q \in {"arg", "exec"} : q = IF more THEN "arg" ELSE "exec"
      OBVIOUS
    <2>6. dev' = [d EXCEPT !.pc = q, !.wrong = w]
      BY <2>3, <2>5
    <2>7. /\ dev' \in DevRecord /\ dev'.cmd = d.cmd /\ dev'.got = d.got /\ dev'.err = d.err
          /\ dev'.pc = q /\ dev'.wrong = w
      BY <1>2, <2>2, <2>5, <2>6 DEF DevRecord
    <2>8. q = "exec" \/ (q = "arg" /\ dev.wrong /\ Full(p))
      BY <2>3, <2>5 DEF Longer
    <2>9. QED
      BY <1>1, <1>2, <1>4, <2>1, <2>4, <2>7, <2>8
  <1>5. QED
    BY <1>3, <1>4

\* What the first or the second path of two makes of it.
LEMMA DevRenameIs ==
    ASSUME DevType, LineType, DevRename, NEW p, p = Head(down)
    PROVE  /\ Receives(p) /\ p \in Element
           /\ dev' \in DevRecord /\ dev'.cmd = dev.cmd
           /\ \/ dev'.pc = "arg" /\ dev'.got = dev.got /\ ChecksumIsOk(p) /\ Full(p)
              \/ /\ dev'.got = 1 - dev.got
                 /\ dev.got = 0 => dev'.pc = "arg"
                 /\ dev.got = 1 => dev'.pc \in {"reply", "exec"}
                 /\ dev.got = 1 /\ dev'.err = "fail" => dev'.pc = "reply"
                 /\ /\ ~dev.wrong \/ dev.err = "fail"
                    /\ ChecksumIsOk(p) => p.body = Packets("rename")[dev.got + 2]
                    => ~dev'.wrong \/ dev'.err = "fail"
  <1>1. Receives(p) /\ p \in Element
    BY ReceivesIs DEF DevRename
  <1>2. PICK d \in DevRecord : d = dev
    BY DEF DevType
  <1>3. PICK isIt \in BOOLEAN : isIt = (ChecksumIsOk(p) /\ p.body = Packets("rename")[d.got + 2])
    OBVIOUS
  <1>4. CASE TRUE \in Longer(p) /\ ChecksumIsOk(p) /\ dev' = [dev EXCEPT !.wrong = TRUE]
    <2>1. dev' = [d EXCEPT !.wrong = TRUE]
      BY <1>2, <1>4
    <2>2. dev' \in DevRecord /\ dev'.cmd = d.cmd /\ dev'.got = d.got /\ dev'.pc = d.pc
      BY <1>2, <2>1 DEF DevRecord
    <2>3. Full(p) /\ d.pc = "arg"
      BY <1>2, <1>4 DEF Longer, DevRename
    <2>4. /\ dev' \in DevRecord /\ dev'.cmd = dev.cmd
          /\ dev'.pc = "arg" /\ dev'.got = dev.got /\ ChecksumIsOk(p) /\ Full(p)
      BY <1>2, <1>4, <2>2, <2>3, Zenon
    <2>5. QED
      BY <1>1, <2>4, Zenon
  <1>5. CASE \E e \in IF ~ChecksumIsOk(p) THEN {"fail"}
                      ELSE IF isIt /\ ~d.wrong THEN {d.err} ELSE {d.err, "fail"} :
                 dev' = [d EXCEPT !.wrong = d.wrong \/ ~isIt, !.err = e, !.got = 1 - d.got,
                           !.pc = CASE d.got = 0 -> "arg"
                                    [] d.got = 1 /\ e = "fail" -> "reply"
                                    [] OTHER -> "exec"]
    <2>1. PICK e \in IF ~ChecksumIsOk(p) THEN {"fail"}
                      ELSE IF isIt /\ ~d.wrong THEN {d.err} ELSE {d.err, "fail"} :
                 dev' = [d EXCEPT !.wrong = d.wrong \/ ~isIt, !.err = e, !.got = 1 - d.got,
                           !.pc = CASE d.got = 0 -> "arg"
                                    [] d.got = 1 /\ e = "fail" -> "reply"
                                    [] OTHER -> "exec"]
      BY <1>5
    <2>2. d.err \in {"fail", "zero", "count"} /\ d.got \in 0 .. 1 /\ d.wrong \in BOOLEAN
      BY <1>2 DEF DevRecord
    <2>3. /\ e \in {"fail", "zero", "count"}
          /\ ~ChecksumIsOk(p) => e = "fail"
          /\ d.err = "fail" => e = "fail"
      BY <2>1, <2>2
    <2>4. PICK w \in BOOLEAN : w = (d.wrong \/ ~isIt)
      BY <2>2
    <2>5. PICK g \in 0 .. 1 : g = 1 - d.got
      BY <2>2
    <2>6. PICK q \in {"arg", "reply", "exec"} :
              q = IF d.got = 0 THEN "arg" ELSE IF e = "fail" THEN "reply" ELSE "exec"
      OBVIOUS
    <2>7. dev' = [d EXCEPT !.wrong = w, !.err = e, !.got = g, !.pc = q]
      <3>1. q = CASE d.got = 0 -> "arg" [] d.got = 1 /\ e = "fail" -> "reply" [] OTHER -> "exec"
        <4>1. d.got = 0 \/ d.got = 1
          BY <2>2
        <4>2. CASE d.got = 0
          BY <2>6, <4>2
        <4>3. CASE d.got = 1
          BY <2>6, <4>3
        <4>4. QED
          BY <4>1, <4>2, <4>3
      <3>2. QED
        BY <2>1, <2>4, <2>5, <3>1, Zenon
    <2>8. dev' \in DevRecord
      <3>1. q \in DevPlaces /\ e \in Replies
        BY <2>3, <2>6 DEF DevPlaces, Replies
      <3>2. w \in BOOLEAN /\ g \in 0 .. 1
        BY <2>4, <2>5
      <3>3. QED
        BY <2>7, <3>1, <3>2, DevChanged, Zenon
    <2>9. dev'.cmd = d.cmd /\ dev'.wrong = w /\ dev'.err = e /\ dev'.got = g /\ dev'.pc = q
      BY <1>2, <2>7 DEF DevRecord
    <2>10. /\ ~d.wrong \/ d.err = "fail"
           /\ ChecksumIsOk(p) => p.body = Packets("rename")[d.got + 2]
           => ~w \/ e = "fail"
      BY <1>3, <2>3, <2>4
    <2>11. d.got = 1 => d.got # 0
      OBVIOUS
    <2>12. QED
      BY <1>1, <1>2, <2>5, <2>6, <2>8, <2>9, <2>10, <2>11
  <1>6. QED
    <2>1. /\ TRUE \in Longer(p) /\ ChecksumIsOk(p) /\ dev' = [dev EXCEPT !.wrong = TRUE]
          \/ \E e \in IF ~ChecksumIsOk(p) THEN {"fail"}
                      ELSE IF isIt /\ ~dev.wrong THEN {dev.err} ELSE {dev.err, "fail"} :
                 dev' = [dev EXCEPT !.wrong = @ \/ ~isIt, !.err = e, !.got = 1 - @,
                           !.pc = CASE dev.got = 0 -> "arg"
                                    [] dev.got = 1 /\ e = "fail" -> "reply"
                                    [] OTHER -> "exec"]
      BY <1>2, <1>3 DEF DevRename
    <2>2. QED
      BY <1>2, <1>4, <1>5, <2>1

\* What the data of a write make of it.
LEMMA DevWriteIs ==
    ASSUME DevType, LineType, DevWrite, NEW p, p = Head(down)
    PROVE  /\ Receives(p) /\ p \in Element
           /\ dev' \in DevRecord /\ dev'.cmd = dev.cmd
           /\ \/ dev'.pc = "reply" /\ dev'.err = "fail"
              \/ /\ ChecksumIsOk(p)
                 /\ ~dev.wrong /\ p.body = Packets("write")[dev.got + 2] => ~dev'.wrong
                 /\ \/ dev'.pc = "arg" /\ Full(p) /\ dev'.got = 1 /\ (~dev.wrong => dev.got = 0)
                    \/ dev'.pc = "reply"
  <1>1. Receives(p) /\ p \in Element
    BY ReceivesIs DEF DevWrite
  <1>2. PICK d \in DevRecord : d = dev
    BY DEF DevType
  <1>3. CASE dev' = [dev EXCEPT !.pc = "reply", !.got = 0, !.err = "fail", !.wrong = TRUE]
    <2>1. ASSUME NEW n \in 0 .. 1
          PROVE  [d EXCEPT !.pc = "reply", !.got = n, !.err = "fail", !.wrong = TRUE] \in DevRecord
      BY <1>2 DEF DevRecord
    <2>2. dev' = [d EXCEPT !.pc = "reply", !.got = 0, !.err = "fail", !.wrong = TRUE] /\ 0 \in 0 .. 1
      BY <1>2, <1>3
    <2>3. dev' \in DevRecord
      BY <2>1, <2>2, Zenon
    <2>4. dev'.cmd = d.cmd /\ dev'.pc = "reply" /\ dev'.err = "fail"
      BY <1>2, <2>2 DEF DevRecord
    <2>5. QED
      BY <1>1, <1>2, <2>3, <2>4
  <1>4. CASE dev' # [dev EXCEPT !.pc = "reply", !.got = 0, !.err = "fail", !.wrong = TRUE]
    <2>1. PICK w : w = (d.wrong \/ p.body # Packets("write")[d.got + 2])
      OBVIOUS
    <2>2. w \in BOOLEAN /\ d.err \in {"fail", "zero", "count"}
      BY <1>2, <2>1 DEF DevRecord
    <2>3. PICK more \in IF d.wrong THEN Longer(p) ELSE {Full(p) /\ d.got = 0} :
             dev' = [d EXCEPT !.pc = IF more THEN "arg" ELSE "reply",
                              !.got = IF more THEN 1 ELSE 0, !.wrong = w,
                              !.err = IF more THEN d.err ELSE "count"]
      BY <1>2, <1>4, <2>1 DEF DevWrite
    <2>4. ChecksumIsOk(p)
      BY <1>4 DEF DevWrite
    <2>5. more => Full(p) /\ (~d.wrong => d.got = 0)
      BY <2>3 DEF Longer
    <2>6. ASSUME NEW n \in 0 .. 1, NEW q \in {"arg", "reply"}, NEW e \in {"fail", "zero", "count"}
          PROVE  [d EXCEPT !.pc = q, !.got = n, !.wrong = w, !.err = e] \in DevRecord
      BY <1>2, <2>2 DEF DevRecord
    <2>7. CASE more
      <3>1. dev' = [d EXCEPT !.pc = "arg", !.got = 1, !.wrong = w, !.err = d.err] /\ 1 \in 0 .. 1
        BY <2>3, <2>7
      <3>2. dev' \in DevRecord
        BY <2>2, <2>6, <3>1, Zenon
      <3>3. dev'.pc = "arg" /\ dev'.got = 1 /\ dev'.wrong = w /\ dev'.cmd = d.cmd
        BY <1>2, <3>1 DEF DevRecord
      <3>4. QED
        BY <1>1, <1>2, <2>1, <2>4, <2>5, <2>7, <3>2, <3>3
    <2>8. CASE ~more
      <3>1. dev' = [d EXCEPT !.pc = "reply", !.got = 0, !.wrong = w, !.err = "count"] /\ 0 \in 0 .. 1
        BY <2>3, <2>8
      <3>2. dev' \in DevRecord
        BY <2>6, <3>1, Zenon
      <3>3. dev'.pc = "reply" /\ dev'.wrong = w /\ dev'.cmd = d.cmd
        BY <1>2, <3>1 DEF DevRecord
      <3>4. QED
        BY <1>1, <1>2, <2>1, <2>4, <3>2, <3>3
    <2>9. QED
      BY <2>7, <2>8
  <1>5. QED
    BY <1>3, <1>4

LEMMA DevExecIs ==
    ASSUME DevType, DevExec
    PROVE  \E e \in Errors(dev.cmd) :
              /\ e \in {"fail", "zero", "count"}
              /\ up' = up \o Sent(dev.cmd, e)
              /\ dev' \in DevRecord /\ dev'.pc = "op" /\ dev'.got = dev.got
              /\ executed \subseteq executed' /\ executed' \subseteq executed \cup {dev.cmd}
              /\ \/ slips' = slips /\ (~dev.wrong /\ e # "fail" => dev.cmd \in executed')
                 \/ slips' = slips \cup {"hidden"}
  <1>1. PICK d \in DevRecord : d = dev
    BY DEF DevType
  <1>2. PICK e \in Errors(dev.cmd) :
           /\ up' = up \o Sent(dev.cmd, e)
           /\ dev' = [dev EXCEPT !.pc = "op", !.cmd = "none", !.err = e, !.wrong = FALSE]
           /\ \/ /\ executed' = executed \cup IF dev.wrong \/ e = "fail" THEN {} ELSE {dev.cmd}
                 /\ slips' = slips
              \/ slips' = slips \cup {"hidden"} /\ executed' = executed
    BY DEF DevExec
  <1>3. e \in {"fail", "zero", "count"}
    BY <1>2 DEF Errors
  <1>4. dev' = [d EXCEPT !.pc = "op", !.cmd = "none", !.err = e, !.wrong = FALSE]
    BY <1>1, <1>2
  <1>5. dev' \in DevRecord /\ dev'.pc = "op" /\ dev'.got = d.got
    BY <1>1, <1>3, <1>4 DEF DevRecord
  <1>6. QED
    BY <1>1, <1>2, <1>3, <1>5

LEMMA DevReplyIs ==
    ASSUME DevType, DevReply
    PROVE  /\ up' = up \o Sent(dev.cmd, dev.err)
           /\ dev' \in DevRecord /\ dev'.pc = "op" /\ dev'.got = 0
           /\ executed \subseteq executed' /\ executed' \subseteq executed \cup {dev.cmd}
           /\ ~dev.wrong => dev.cmd \in executed'
  <1>1. PICK d \in DevRecord : d = dev
    BY DEF DevType
  <1>2. dev' = [d EXCEPT !.pc = "op", !.cmd = "none", !.got = 0, !.wrong = FALSE]
    BY <1>1 DEF DevReply
  <1>3. dev' \in DevRecord
    <2>1. ASSUME NEW n \in 0 .. 1, NEW w \in BOOLEAN
          PROVE  [d EXCEPT !.pc = "op", !.cmd = "none", !.got = n, !.wrong = w] \in DevRecord
      BY <1>1 DEF DevRecord
    <2>2. 0 \in 0 .. 1 /\ FALSE \in BOOLEAN
      OBVIOUS
    <2>3. QED
      BY <1>2, <2>1, <2>2, Zenon
  <1>4. dev'.pc = "op" /\ dev'.got = 0
    BY <1>1, <1>2 DEF DevRecord
  <1>5. QED
    BY <1>3, <1>4 DEF DevReply

LEMMA ReceivesLine ==
    ASSUME LineType, NEW p, Receives(p)
    PROVE  LineType'
  BY DEF LineType, Receives

LEMMA AnswersLine ==
    ASSUME LineType, NEW c \in Taken, NEW e \in Replies,
           up' = up \o Sent(c, e), down' = down
    PROVE  LineType'
  BY SentUp DEF AnswersFor, LineType

LEMMA DevCommandTypes ==
    ASSUME TypesInv, DevCommand
    PROVE  TypesInv'
  <1>0. DevType /\ LineType
    BY DEF TypesInv
  <1>1. HostType'
    BY DEF TypesInv, HostType, DevCommand
  <1>2. PICK p : p = Head(down)
    OBVIOUS
  <1>3. DevType'
    BY <1>0, <1>2, DevCommandIs DEF DevType, TakesArgument, BeginsAt
  <1>4. LineType'
    BY <1>0, <1>2, DevCommandIs, ReceivesLine
  <1>5. PastType'
    <2>1. executed' = executed /\ (slips' = slips \/ slips' = slips \cup {"mistaken"})
      BY <1>0, <1>2, DevCommandIs DEF DevCommand
    <2>2. QED
      BY <2>1 DEF TypesInv, PastType
  <1>6. QED
    BY <1>1, <1>3, <1>4, <1>5 DEF TypesInv

LEMMA DevPathTypes ==
    ASSUME TypesInv, DevPath
    PROVE  TypesInv'
  <1>0. DevType /\ LineType
    BY DEF TypesInv
  <1>1. HostType'
    BY DEF TypesInv, HostType, DevPath
  <1>2. PICK p : p = Head(down)
    OBVIOUS
  <1>3. DevType'
    BY <1>0, <1>2, DevPathIs DEF DevType, DevPath
  <1>4. LineType'
    BY <1>0, <1>2, DevPathIs, ReceivesLine
  <1>5. PastType'
    BY DEF TypesInv, PastType, DevPath
  <1>6. QED
    BY <1>1, <1>3, <1>4, <1>5 DEF TypesInv

LEMMA DevRenameTypes ==
    ASSUME TypesInv, DevRename
    PROVE  TypesInv'
  <1>0. DevType /\ LineType
    BY DEF TypesInv
  <1>1. HostType'
    BY DEF TypesInv, HostType, DevRename
  <1>2. PICK p : p = Head(down)
    OBVIOUS
  <1>3. DevType'
    <2>1. dev.cmd = "rename" /\ dev.got \in 0 .. 1 /\ TakesArgument("rename")
      BY <1>0 DEF DevType, DevRecord, DevRename, TakesArgument
    <2>2. dev'.pc = "exec" => dev'.got = 0
      BY <1>0, <1>2, <2>1, DevRenameIs
    <2>3. dev' \in DevRecord /\ dev'.cmd = "rename"
      BY <1>0, <1>2, <2>1, DevRenameIs
    <2>4. QED
      BY <2>1, <2>2, <2>3 DEF DevType
  <1>4. LineType'
    BY <1>0, <1>2, DevRenameIs, ReceivesLine
  <1>5. PastType'
    BY DEF TypesInv, PastType, DevRename
  <1>6. QED
    BY <1>1, <1>3, <1>4, <1>5 DEF TypesInv

LEMMA DevWriteTypes ==
    ASSUME TypesInv, DevWrite
    PROVE  TypesInv'
  <1>0. DevType /\ LineType
    BY DEF TypesInv
  <1>1. HostType'
    BY DEF TypesInv, HostType, DevWrite
  <1>2. PICK p : p = Head(down)
    OBVIOUS
  <1>3. DevType'
    BY <1>0, <1>2, DevWriteIs DEF DevType, DevWrite
  <1>4. LineType'
    BY <1>0, <1>2, DevWriteIs, ReceivesLine
  <1>5. PastType'
    BY DEF TypesInv, PastType, DevWrite
  <1>6. QED
    BY <1>1, <1>3, <1>4, <1>5 DEF TypesInv

LEMMA DevExecTypes ==
    ASSUME TypesInv, DevExec
    PROVE  TypesInv'
  <1>0. DevType /\ LineType
    BY DEF TypesInv
  <1>1. HostType'
    BY DEF TypesInv, HostType, DevExec
  <1>2. dev.cmd \in Command \cup {"unknown"} /\ dev.got = 0
    BY <1>0 DEF DevType, DevRecord, DevExec
  <1>3. DevType'
    BY <1>0, DevExecIs DEF DevType
  <1>4. LineType'
    BY <1>0, <1>2, DevExecIs, AnswersLine DEF Taken, Replies, DevExec
  <1>5. PastType'
    <2>1. executed' \subseteq executed \cup {dev.cmd} /\ (slips' = slips \/ slips' = slips \cup {"hidden"})
      BY <1>0, DevExecIs DEF DevExec
    <2>2. QED
      BY <1>2, <2>1 DEF TypesInv, PastType
  <1>6. QED
    BY <1>1, <1>3, <1>4, <1>5 DEF TypesInv

LEMMA DevReplyTypes ==
    ASSUME TypesInv, DevReply
    PROVE  TypesInv'
  <1>0. DevType /\ LineType
    BY DEF TypesInv
  <1>1. HostType'
    BY DEF TypesInv, HostType, DevReply
  <1>2. dev.cmd \in Command \cup {"unknown"} /\ dev.err \in {"fail", "zero", "count"}
    BY <1>0 DEF DevType, DevRecord, DevReply
  <1>3. DevType'
    BY <1>0, DevReplyIs DEF DevType
  <1>4. LineType'
    BY <1>0, <1>2, DevReplyIs, AnswersLine DEF Taken, Replies, DevReply
  <1>5. PastType'
    <2>1. executed' \subseteq executed \cup {dev.cmd} /\ slips' = slips
      BY <1>0, DevReplyIs DEF DevReply
    <2>2. QED
      BY <1>2, <2>1 DEF TypesInv, PastType
  <1>6. QED
    BY <1>1, <1>3, <1>4, <1>5 DEF TypesInv

-----------------------------------------------------------------------------
(* The line.                                                               *)

\* Damage is seen, and does not make an answer of a packet.
LEMMA DamagedIs ==
    ASSUME NEW x \in Element, NEW t \in Damaged(x)
    PROVE  /\ t \in Element /\ t.start = x.start /\ ~ChecksumIsOk(t)
           /\ t.body \in {x.body, Garbled("data")} /\ t.sum \in {x.sum, Garbled("checksum")}
  <1>1. /\ Garbled("data") \notin Sums
        /\ Garbled("checksum") \notin Bodies \cup {Garbled("data"), <<"ack", "ack">>, <<"nack", "nack">>}
    BY DEF Sums, Bodies, Zero, Garbled
  <1>2. t \in Element
    BY ElementsAre
  <1>3. CASE t = [x EXCEPT !.body = Garbled("data")]
    <2>1. t.body = Garbled("data") /\ t.sum = x.sum /\ t.start = x.start /\ x.sum \in Sums
      BY <1>3 DEF Element
    <2>2. QED
      BY <1>1, <1>2, <2>1 DEF ChecksumIsOk
  <1>4. CASE t = [x EXCEPT !.sum = Garbled("checksum")]
    <2>1. t.body = x.body /\ t.sum = Garbled("checksum") /\ t.start = x.start
      BY <1>4 DEF Element
    <2>2. x.body \in Bodies \cup {Garbled("data"), <<"ack", "ack">>, <<"nack", "nack">>}
      BY DEF Element
    <2>3. QED
      BY <1>1, <1>2, <2>1, <2>2 DEF ChecksumIsOk
  <1>5. QED
    BY <1>3, <1>4 DEF Damaged

\* The first element of line u is lost, or damaged.
Lost(u, w) ==
    /\ Len(u) >= 1 /\ Len(w) = Len(u) - 1
    /\ \A j \in 1 .. Len(w) : w[j] = u[j + 1]

Hurt(u, w) ==
    /\ Len(u) >= 1 /\ Len(w) = Len(u)
    /\ \A j \in 2 .. Len(u) : w[j] = u[j]
    /\ w[1].start = u[1].start /\ ~ChecksumIsOk(w[1])
    /\ w[1].body \in {u[1].body, Garbled("data")} /\ w[1].sum \in {u[1].sum, Garbled("checksum")}

LEMMA TailIsLost ==
    ASSUME NEW u \in Seq(Element), u # <<>>
    PROVE  Tail(u) \in Seq(Element) /\ Lost(u, Tail(u)) /\ Head(u) = u[1] /\ Head(u) \in Element
  <1>1. /\ Head(u) \in Element /\ Tail(u) \in Seq(Element) /\ Len(Tail(u)) = Len(u) - 1
        /\ \A j \in 1 .. Len(Tail(u)) : Tail(u)[j] = u[j + 1]
    BY HeadTailProperties
  <1>2. Len(u) >= 1
    OBVIOUS
  <1>3. Head(u) = u[1]
    BY <1>2
  <1>4. QED
    BY <1>1, <1>2, <1>3 DEF Lost

LEMMA HeadIsHurt ==
    ASSUME NEW u \in Seq(Element), u # <<>>, NEW t \in Damaged(Head(u))
    PROVE  <<t>> \o Tail(u) \in Seq(Element) /\ Hurt(u, <<t>> \o Tail(u))
  <1>1. PICK x \in Element : x = Head(u) /\ x = u[1]
    BY TailIsLost
  <1>2. /\ t \in Element /\ t.start = x.start /\ ~ChecksumIsOk(t)
        /\ t.body \in {x.body, Garbled("data")} /\ t.sum \in {x.sum, Garbled("checksum")}
    BY <1>1, DamagedIs
  <1>3. PICK v \in Seq(Element) : v = Tail(u)
    BY TailIsLost
  <1>4. Len(u) >= 1 /\ Len(v) = Len(u) - 1 /\ \A j \in 1 .. Len(v) : v[j] = u[j + 1]
    BY <1>3, TailIsLost DEF Lost
  <1>5. PICK w : w = <<t>> \o v
    OBVIOUS
  <1>6. w \in Seq(Element) /\ Len(w) = Len(u) /\ w[1] = t
    BY <1>2, <1>4, <1>5
  <1>7. \A j \in 2 .. Len(u) : w[j] = u[j]
    <2>1. \A j \in 2 .. Len(u) : w[j] = v[j - 1]
      BY <1>2, <1>4, <1>5
    <2>2. QED
      BY <1>4, <2>1
  <1>8. Hurt(u, w)
    BY <1>1, <1>2, <1>4, <1>6, <1>7 DEF Hurt
  <1>9. QED
    BY <1>3, <1>5, <1>6, <1>8

LEMMA FaultIs ==
    ASSUME LineType, Fault
    PROVE  /\ LineType' /\ UNCHANGED <<host, dev, executed>>
           /\ \/ up' = up /\ (Lost(down, down') \/ Hurt(down, down'))
              \/ down' = down /\ (Lost(up, up') \/ Hurt(up, up'))
           /\ slips' = slips \cup IF host.pc \in {"resync", "settle"} /\ slips \ Mild # {}
                                  THEN {"damaged"} ELSE {}
  <1>1. UNCHANGED <<host, dev, executed>>
    BY DEF Fault
  <1>2. CASE /\ down # <<>> /\ UNCHANGED up
             /\ \/ down' = Tail(down)
                \/ \E t \in Damaged(Head(down)) : down' = <<t>> \o Tail(down)
    <2>1. down' \in Seq(Element) /\ (Lost(down, down') \/ Hurt(down, down'))
      BY <1>2, TailIsLost, HeadIsHurt DEF LineType
    <2>2. QED
      BY <1>1, <1>2, <2>1 DEF LineType, Fault
  <1>3. CASE /\ up # <<>> /\ UNCHANGED down
             /\ \/ up' = Tail(up)
                \/ \E t \in Damaged(Head(up)) : up' = <<t>> \o Tail(up)
    <2>1. up' \in Seq(Element) /\ (Lost(up, up') \/ Hurt(up, up'))
      BY <1>3, TailIsLost, HeadIsHurt DEF LineType
    <2>2. QED
      BY <1>1, <1>3, <2>1 DEF LineType, Fault
  <1>4. QED
    BY <1>2, <1>3 DEF Fault

LEMMA FaultTypes ==
    ASSUME TypesInv, Fault
    PROVE  TypesInv'
  <1>1. LineType' /\ UNCHANGED <<host, dev, executed>>
    BY FaultIs DEF TypesInv
  <1>2. PastType'
    BY <1>1 DEF TypesInv, PastType, Fault
  <1>3. QED
    BY <1>1, <1>2 DEF TypesInv, HostType, DevType

LEMMA NextTypes == TypesInv /\ [LinkNext]_linkVars => TypesInv'
  <1> SUFFICES ASSUME TypesInv, [LinkNext]_linkVars PROVE TypesInv'
    OBVIOUS
  <1>1. CASE \E c \in Command : Call(c)
    BY <1>1, CallTypes
  <1>2. CASE HostMismatch \/ HostTimeout
    <2>1. PICK why \in SUBSET {"late"}, rest \in Seq(Element) : Failed(why, rest)
      BY <1>2, HostFails DEF TypesInv
    <2>2. QED
      BY <1>2, <2>1, HostFails, FailedTypes DEF TypesInv
  <1>3. CASE HostAck \/ HostRead \/ HostResynced \/ HostSettle
    BY <1>3, HostAckTypes, HostReadTypes, HostResyncedTypes, HostSettleTypes
  <1>4. CASE DevNext
    BY <1>4, DevCommandTypes, DevPathTypes, DevRenameTypes, DevWriteTypes,
       DevExecTypes, DevReplyTypes DEF DevNext
  <1>5. CASE Abort \/ Fault
    BY <1>5, AbortTypes, FaultTypes
  <1>6. CASE UNCHANGED linkVars
    BY <1>6 DEF linkVars, TypesInv, HostType, DevType, LineType, PastType
  <1>7. QED
    BY <1>1, <1>2, <1>3, <1>4, <1>5, <1>6 DEF LinkNext, HostNext

-----------------------------------------------------------------------------
(* The host's steps.                                                       *)

LEMMA CallStep ==
    ASSUME TypesInv, LinkInv, NEW c \in Command, Call(c)
    PROVE  LinkInv'
  <1>1. /\ host'.pc = "ack" /\ host'.cmd = c /\ host'.i = 1 /\ ~host'.wrong
        /\ dev' = dev /\ up' = up /\ slips' = slips \ Mild /\ host.pc = "idle"
        /\ down' = Append(down, Packet(Packets(c)[1]))
    BY DEF Call, Idle
  <1>2. Reasons'
    BY <1>1 DEF LinkInv, Reasons, Mild
  <1>3. Repairable' => IdleInv
    BY <1>1 DEF LinkInv, Repairable, Mild
  <1>4. ASSUME IdleInv
        PROVE  AckInv' /\ AckTruth'
    <2>1. dev'.pc = "op" /\ dev'.got = 0 /\ Len(up') = 0
      BY <1>1, <1>4 DEF IdleInv
    <2>2. PICK x : x = Packet(Body("op", c))
      OBVIOUS
    <2>3. down' = <<x>>
      BY <1>1, <1>4, <2>2, PacketsAre DEF IdleInv
    <2>4. WasSentAs(x, Body("op", c))
      BY <2>2 DEF Packet, WasSentAs
    <2>5. Wanted' = Body("op", c)
      BY <1>1, PacketsAre DEF Wanted
    <2>6. AckInv'
      BY <2>1, <2>3, <2>4, <2>5 DEF AckInv, OwnCommand, Position
    <2>7. AckTruth'
      BY <1>1, <2>1 DEF AckTruth, TruthInv, DevTruth
    <2>8. QED
      BY <2>6, <2>7
  <1>5. slips' = {} => Repairable'
    BY DEF Repairable
  <1>6. QED
    BY <1>1, <1>2, <1>3, <1>4, <1>5 DEF LinkInv, Truthful

LEMMA HostAckStep ==
    ASSUME TypesInv, LinkInv, HostAck
    PROVE  LinkInv'
  <1>0. HostType /\ LineType /\ host.pc = "ack" /\ host \in HostRecord
    BY DEF TypesInv, HostType, HostAck
  <1>1. /\ dev' = dev /\ executed' = executed /\ slips' = slips
        /\ up # <<>> /\ up' = Tail(up) /\ ~up[1].start
    <2>1. up # <<>> /\ Head(up) = up[1]
      BY <1>0, TailIsLost DEF HostAck, LineType
    <2>2. QED
      BY <2>1 DEF HostAck, Acknowledges
  <1>2. Lost(up, up')
    BY <1>0, <1>1, TailIsLost DEF LineType
  <1>3. /\ 1 \in 1 .. Len(up) /\ Len(up') = Len(up) - 1
        /\ \A j \in 1 .. Len(up') : up'[j] = up[j + 1] /\ j + 1 \in 1 .. Len(up) /\ j + 1 # 1
    BY <1>0, <1>1, <1>2 DEF Lost, LineType
  <1>4. CASE ~LastPacket
    <2>1. host' = [host EXCEPT !.i = @ + 1] /\ down' = Append(down, Packet(Packets(host.cmd)[host.i + 1]))
      BY <1>4 DEF HostAck, LastPacket
    <2>2. /\ host'.pc = "ack" /\ host'.cmd = host.cmd /\ host'.i = host.i + 1
          /\ host'.wrong = host.wrong
      BY <1>0, <2>1 DEF HostRecord
    <2>3. Wanted' = Packets(host.cmd)[host.i + 1]
      BY <2>2 DEF Wanted
    <2>4. ASSUME AckInv
          PROVE  /\ \A j \in 1 .. Len(up') : up'[j].start
                 /\ AckInv'
      <3>1. down = <<>> /\ \A j \in 1 .. Len(up) : ~up[j].start => j = 1
        BY <1>1, <1>3, <2>4 DEF AckInv
      <3>2. \A j \in 1 .. Len(up') : up'[j].start
        BY <1>3, <3>1
      <3>3. PICK x : x = Packet(Packets(host.cmd)[host.i + 1])
        OBVIOUS
      <3>4. down' = <<x>> /\ WasSentAs(x, Wanted')
        BY <2>1, <2>3, <3>1, <3>3 DEF Packet, WasSentAs
      <3>5. OwnCommand'
        BY <1>1, <2>2, <2>4 DEF AckInv, OwnCommand
      <3>6. dev.pc = "arg" => host.i = dev.got + 1
        BY <1>1, <1>3, <2>4 DEF AckInv, Position
      <3>7. host.i \in Nat /\ dev.got \in Nat
        BY <1>0 DEF HostRecord, TypesInv, DevType, DevRecord
      <3>8. dev'.pc = "arg" => host'.i = dev'.got + 2
        BY <1>1, <2>2, <3>6, <3>7
      <3>9. Position'
        BY <3>2, <3>8 DEF Position
      <3>10. QED
        BY <3>2, <3>4, <3>5, <3>9 DEF AckInv
    <2>5. ASSUME AckInv, AckTruth
          PROVE  AckTruth'
      <3>1. TruthInv'
        BY <1>1, <1>3, <2>2, <2>5 DEF AckTruth, TruthInv, DevTruth
      <3>2. QED
        BY <2>2, <2>4, <2>5, <3>1 DEF AckTruth
    <2>6. QED
      BY <1>0, <1>1, <2>2, <2>4, <2>5 DEF LinkInv, Truthful, Repairable, Reasons
  <1>5. CASE LastPacket
    <2>1. host' = [host EXCEPT !.pc = "read", !.i = 1] /\ down' = down
      BY <1>0, <1>5, NextPacket, Counts DEF HostAck, LastPacket
    <2>2. /\ host'.pc = "read" /\ host'.cmd = host.cmd /\ host'.i = 1
          /\ host'.wrong = host.wrong
      BY <1>0, <2>1 DEF HostRecord
    <2>3. Len(up) \in Nat /\ Len(Answers(host.cmd)) \in Nat
      BY <1>0, Counts DEF LineType, HostRecord
    <2>4. ASSUME AckInv PROVE ReadInv'
      <3>1. Answering(1, 1) /\ down = <<>>
        BY <1>1, <1>3, <1>5, <2>4 DEF AckInv
      <3>2. Answering(0, 1)'
        BY <1>1, <1>3, <2>2, <2>3, <3>1 DEF Answering
      <3>3. OwnCommand'
        BY <1>1, <2>2, <2>4 DEF AckInv, OwnCommand
      <3>4. QED
        BY <2>1, <2>2, <3>1, <3>2, <3>3 DEF ReadInv, Answering
    <2>5. ASSUME AckTruth PROVE ReadTruth'
      <3>1. TruthInv'
        BY <1>1, <1>3, <2>2, <2>5 DEF AckTruth, TruthInv, DevTruth
      <3>2. AnswersOfRead(1, 1)
        BY <1>1, <1>3, <1>5, <2>5 DEF AckTruth
      <3>3. AnswersOfRead(0, host.i)'
        BY <1>1, <1>3, <2>2, <2>3, <3>2 DEF AnswersOfRead
      <3>4. QED
        BY <2>2, <2>5, <3>1, <3>3 DEF ReadTruth, AckTruth
    <2>6. QED
      BY <1>0, <1>1, <2>2, <2>4, <2>5 DEF LinkInv, Truthful, Repairable, Reasons
  <1>6. QED
    BY <1>4, <1>5

LEMMA HostReadStep ==
    ASSUME TypesInv, LinkInv, HostRead
    PROVE  LinkInv'
  <1>0. HostType /\ LineType /\ host.pc = "read" /\ host \in HostRecord
    BY DEF TypesInv, HostType, HostRead
  <1>1. /\ dev' = dev /\ executed' = executed /\ slips' = slips /\ down' = down
        /\ up # <<>> /\ up' = Tail(up)
    BY DEF HostRead
  <1>2. Lost(up, up') /\ Head(up) = up[1]
    BY <1>0, <1>1, TailIsLost DEF LineType
  <1>3. /\ 1 \in 1 .. Len(up) /\ Len(up') = Len(up) - 1 /\ Len(up) \in Nat
        /\ \A j \in 1 .. Len(up') : up'[j] = up[j + 1] /\ j + 1 \in 1 .. Len(up) /\ j + 1 # 1
    BY <1>0, <1>1, <1>2 DEF Lost, LineType
  <1>4. PICK b : b = up[1].body
    OBVIOUS
  <1>5. b = Head(up).body /\ ChecksumIsOk(up[1])
    BY <1>2, <1>4 DEF HostRead
  <1>6. /\ host.cmd \in Command /\ host.i \in 1 .. Len(Answers(host.cmd)) /\ host.i \in Nat
        /\ Len(Answers(host.cmd)) \in 1 .. 2
    BY <1>0, Counts DEF HostType, HostRecord
  <1>7. CASE host'.pc = "idle"
    <2>1. /\ host'.cmd = host.cmd /\ host'.wrong = host.wrong
          /\ \/ host.i = Len(Answers(host.cmd))
             \/ host.cmd = "readserialno" /\ b # Body("reply", "count")
          /\ host'.result = "ok" =>
               \/ host.cmd = "readserialno" /\ (b = Body("data", host.cmd) \/ host.i = 1)
               \/ host.cmd # "readserialno" /\ b # Body("reply", "fail")
      BY <1>0, <1>5, <1>7, ReadGoesOn
    <2>2. ASSUME ReadInv PROVE IdleInv'
      <3>1. Answering(0, host.i) /\ down = <<>>
        BY <2>2 DEF ReadInv
      <3>2. dev.pc = "op" /\ dev.got = 0
        BY <1>3, <3>1, <1>0 DEF Answering, TypesInv, DevType, DevRecord
      <3>3. Len(up) = 1
        <4>1. PICK n : n = Len(up)
          OBVIOUS
        <4>2. PICK i : i = host.i
          OBVIOUS
        <4>3. PICK m : m = Len(Answers(host.cmd))
          OBVIOUS
        <4>4. n \in Nat /\ n >= 1 /\ i \in 1 .. m /\ m \in 1 .. 2
          BY <1>3, <1>6, <4>1, <4>2, <4>3
        <4>5. n - 0 + i <= m + 1
          BY <3>1, <4>1, <4>2, <4>3 DEF Answering
        <4>6. CASE i = m
          BY <4>1, <4>4, <4>5, <4>6
        <4>7. CASE host.cmd = "readserialno" /\ b # Body("reply", "count")
          <5>1. ~(Len(up) = 0 + 2 /\ ChecksumIsOk(up[0 + 1]))
            BY <1>4, <3>1, <4>7 DEF Answering
          <5>2. n # 2
            BY <1>5, <4>1, <5>1
          <5>3. QED
            BY <4>1, <4>4, <4>5, <5>2
        <4>8. QED
          BY <2>1, <4>2, <4>3, <4>6, <4>7
      <3>4. up' = <<>>
        BY <1>0, <1>1, <1>3, <3>3, TailIsLost DEF LineType
      <3>5. QED
        BY <1>1, <3>1, <3>2, <3>4 DEF IdleInv
    <2>3. ASSUME ReadInv, ReadTruth, host'.result = "ok"
          PROVE  host.cmd \in executed /\ ~host.wrong
      <3>1. /\ b = Body("reply", "fail") => host.cmd # "readserialno"
            /\ b # Body("reply", "fail") => host.cmd \in executed
        BY <1>3, <1>4, <1>5, <2>3 DEF ReadTruth, TruthInv
      <3>2. host.wrong => host.cmd = "read" /\ host.i = 2
        BY <2>3 DEF ReadTruth
      <3>4. ASSUME host.cmd = "read" PROVE ~host.wrong
        <4>1. host.i = 2 /\ Len(Answers(host.cmd)) = 2
          BY <2>1, <3>4, <1>6, AnswersAre
        <4>2. Len(up) - 0 + host.i <= Len(Answers(host.cmd)) + 1
          BY <2>3 DEF ReadInv, Answering
        <4>3. Len(up) = 0 + 1
          BY <1>3, <4>1, <4>2
        <4>4. QED
          BY <1>4, <1>5, <2>3, <3>4, <4>1, <4>3 DEF ReadTruth, AnswersOfRead
      <3>5. QED
        BY <2>1, <2>3, <3>1, <3>2, <3>4
    <2>4. QED
      <3>1. slips = {} => Repairable
        BY DEF Repairable
      <3>2. (slips = {} => ReadTruth) /\ (Repairable => ReadInv) /\ Reasons
        BY <1>0 DEF LinkInv
      <3>3. Truthful'
        BY <1>1, <2>1, <2>3, <3>1, <3>2 DEF Truthful, Success
      <3>4. Reasons' /\ (Repairable' => IdleInv')
        BY <1>1, <2>2, <3>2 DEF Repairable, Reasons
      <3>5. QED
        BY <1>7, <3>3, <3>4 DEF LinkInv
  <1>8. CASE host'.pc # "idle"
    <2>1. /\ host'.cmd = host.cmd /\ host'.pc = "read" /\ host.i = 1 /\ host'.i = 2
          /\ Len(Answers(host.cmd)) = 2
          /\ host'.wrong => host.wrong \/ (host.cmd = "read" /\ b \notin {Zero, Body("data", "read")})
      BY <1>0, <1>5, <1>8, ReadGoesOn
    <2>2. ASSUME ReadInv PROVE ReadInv'
      <3>1. Answering(0, 1) /\ down = <<>>
        BY <2>1, <2>2 DEF ReadInv
      <3>2. Answering(0, 2)'
        BY <1>1, <1>3, <2>1, <3>1 DEF Answering
      <3>3. OwnCommand'
        BY <1>1, <2>1, <2>2 DEF ReadInv, OwnCommand
      <3>4. QED
        BY <1>1, <2>1, <3>1, <3>2, <3>3 DEF ReadInv, Answering
    <2>3. ASSUME ReadTruth PROVE ReadTruth'
      <3>1. TruthInv'
        BY <1>1, <1>3, <2>1, <2>3 DEF ReadTruth, TruthInv, DevTruth
      <3>2. ~host.wrong /\ AnswersOfRead(0, 1)
        BY <2>1, <2>3 DEF ReadTruth
      <3>3. AnswersOfRead(0, host.i)'
        <4>1. Len(up') = 0 + 1 => Len(up) = 0 + 2 /\ up'[1] = up[2]
          <5>1. \A n \in Nat : n - 1 = 0 + 1 => n = 0 + 2
            OBVIOUS
          <5>2. Len(up') = 0 + 1 => Len(up) = 0 + 2
            BY <1>3, <5>1, Zenon
          <5>3. \A n : n = 0 + 1 => 1 \in 1 .. n /\ 1 + 1 = 2
            OBVIOUS
          <5>4. Len(up') = 0 + 1 => up'[1] = up[1 + 1]
            BY <1>3, <5>3, Zenon
          <5>5. up[1 + 1] = up[2]
            OBVIOUS
          <5>6. QED
            BY <5>2, <5>4, <5>5, Zenon
        <4>2. host'.i = 2 /\ host'.cmd = host.cmd /\ ~(host'.i = 1)
          BY <2>1
        <4>3. QED
          BY <1>4, <1>5, <2>1, <3>2, <4>1, <4>2 DEF AnswersOfRead
      <3>4. host'.wrong => host'.cmd = "read" /\ host'.i = 2
        BY <2>1, <3>2
      <3>5. QED
        BY <3>1, <3>3, <3>4 DEF ReadTruth
    <2>4. QED
      BY <1>0, <1>1, <2>1, <2>2, <2>3 DEF LinkInv, Truthful, Repairable, Reasons
  <1>9. QED
    BY <1>7, <1>8

\* The packet of length zero is the last on the line.
LEMMA ZeroAppended ==
    ASSUME LineType, down' = Append(down, Packet(Zero))
    PROVE  /\ Arriving'
           /\ Len(down') = Len(down) + 1 /\ Len(down) \in Nat
           /\ \A k \in 1 .. Len(down') :
                 \/ Inert(down'[k]) /\ down'[k].body = Zero /\ k = Len(down) + 1
                 \/ k \in 1 .. Len(down) /\ down'[k] = down[k]
  <1>1. PICK z \in Element : z = Packet(Zero)
    BY ElementsAre, BodiesAre
  <1>2. Inert(z) /\ z.body = Zero /\ ~Full(z)
    BY <1>1 DEF Inert, Packet, ChecksumIsOk, Full, Zero
  <1>3. PICK d \in Seq(Element) : d = down
    BY DEF LineType
  <1>4. PICK e : e = Append(d, z)
    OBVIOUS
  <1>5. /\ e # <<>> /\ e[Len(e)] = z /\ Len(e) = Len(d) + 1 /\ Len(d) \in Nat
        /\ \A k \in 1 .. Len(e) :
              \/ e[k] = z /\ k = Len(d) + 1
              \/ k \in 1 .. Len(d) /\ e[k] = d[k]
    BY <1>1, <1>3, <1>4
  <1>6. e = down'
    BY <1>1, <1>3, <1>4
  <1>7. QED
    BY <1>1, <1>2, <1>3, <1>5, <1>6, Zenon DEF Arriving

\* No packet of another command begins one with two arguments.
LEMMA NoneRenames ==
    ASSUME NEW c \in Command, NEW i \in 1 .. Len(Packets(c)), c # "rename"
    PROVE  Packets(c)[i] # Body("op", "rename")
  <1>1. Packets(c)[i][1] = "op" => i = 1
    BY WantedIs
  <1>2. Packets(c)[1] = Body("op", c)
    BY PacketsAre
  <1>3. Body("op", c) # Body("op", "rename") /\ Body("op", "rename")[1] = "op"
    BY DEF Body
  <1>4. QED
    BY <1>1, <1>2, <1>3

\* The first packet of length zero is sent on a line that was in step.
LEMMA FreshBegins ==
    ASSUME TypesInv, LinkInv, Repairable, host.pc \in {"ack", "read"}, Recovers,
           dev' = dev, host'.pc = "resync", down' = Append(down, Packet(Zero)), up' = <<>>
    PROVE  Fresh'
  <1>0. /\ HostType /\ LineType
    BY DEF TypesInv
  <1>1. Len(down) <= 1 /\ OwnCommand
    BY DEF LinkInv, AckInv, ReadInv
  <1>2. host.cmd # "rename" /\ host.cmd \in Command
    BY <1>0 DEF Recovers, HostType, HostRecord
  <1>3. /\ Len(down') = Len(down) + 1 /\ Len(down) \in Nat
        /\ \A k \in 1 .. Len(down') :
              \/ Inert(down'[k]) /\ down'[k].body = Zero /\ k = Len(down) + 1
              \/ k \in 1 .. Len(down) /\ down'[k] = down[k]
    BY <1>0, ZeroAppended
  <1>4. ~(dev.pc = "arg" /\ dev.cmd = "rename")
    BY <1>1, <1>2 DEF OwnCommand
  <1>5. ASSUME NEW j \in 1 .. Len(down) PROVE down[j].body # Body("op", "rename")
    <2>1. j = 1 /\ down # <<>>
      BY <1>0, <1>1, <1>3 DEF LineType
    <2>2. host.pc = "ack" /\ AckInv
      BY <2>1 DEF LinkInv, ReadInv
    <2>3. WasSentAs(down[1], Wanted)
      BY <2>1, <2>2 DEF AckInv
    <2>4. host.i \in 1 .. Len(Packets(host.cmd))
      BY <1>0, <2>2 DEF HostType
    <2>5. Wanted # Body("op", "rename")
      BY <1>2, <2>4, NoneRenames DEF Wanted
    <2>6. Garbled("data") # Body("op", "rename")
      BY DEF Garbled, Body
    <2>7. QED
      BY <2>1, <2>3, <2>5, <2>6 DEF WasSentAs
  <1>6. Zero # Body("op", "rename")
    BY DEF Zero, Body
  <1>7. NoRename'
    BY <1>3, <1>4, <1>5, <1>6, Zenon DEF NoRename
  <1>8. ASSUME NEW k \in 2 .. Len(down') PROVE Inert(down'[k])
    <2>1. k \in 1 .. Len(down') /\ k \notin 1 .. Len(down)
      BY <1>1, <1>3
    <2>2. QED
      BY <1>3, <2>1
  <1>9. 1 .. Len(up') = {}
    OBVIOUS
  <1>10. QED
    BY <1>7, <1>8, <1>9 DEF Fresh

\* An error is noticed, and the recovery begins, goes on or is given up.
LEMMA FailedStep ==
    ASSUME TypesInv, LinkInv, HostMismatch \/ HostTimeout
    PROVE  LinkInv'
  <1>0. HostType /\ LineType
    BY DEF TypesInv
  <1>1. PICK why \in SUBSET {"late"}, rest \in Seq(Element) :
           Failed(why, rest) /\ (rest # <<>> => host.pc # "resync" /\ ~Recovers)
    BY <1>0, HostFails
  <1>2. dev' = dev /\ host.pc \in {"ack", "read", "resync"}
    BY <1>0, HostFails
  <1>3. PICK s : s = slips
    OBVIOUS
  <1>4. CASE /\ host.pc # "resync" /\ host'.pc = "resync" /\ Recovers /\ up' = rest
             /\ down' = Append(down, Packet(Zero))
             /\ slips' = (slips \ {"damaged"}) \cup why
    <2>1. "damaged" \notin slips'
      BY <1>1, <1>4
    <2>2. ASSUME ~Repairable PROVE ~Repairable' /\ Arriving'
      <3>1. ~(s \subseteq Mild)
            /\ ("damaged" \in s => s \cap {"late", "unreset", "abort", "mistaken"} # {})
        BY <1>3, <2>2 DEF Repairable, LinkInv, Reasons
      <3>2. PICK x \in s : x # "damaged" /\ x \notin Mild
        BY <3>1 DEF Mild
      <3>3. QED
        BY <1>0, <1>3, <1>4, <3>2, ZeroAppended DEF Repairable
    <2>3. up' = <<>>
      BY <1>1, <1>4
    <2>4. ASSUME Repairable PROVE Fresh'
      BY <1>2, <1>4, <2>3, <2>4, FreshBegins
    <2>5. RecoveryInv'
      BY <2>2, <2>4 DEF RecoveryInv
    <2>6. QED
      BY <1>4, <2>1, <2>5 DEF LinkInv, Reasons, Truthful
  <1>5. CASE /\ host.pc = "resync" /\ host'.pc = "resync" /\ up' = rest
             /\ down' = Append(down, Packet(Zero))
             /\ slips' = slips \cup why
    <2>1. "damaged" \in slips' => "damaged" \in slips
      BY <1>1, <1>5
    <2>2. ~Repairable => ~Repairable' /\ Arriving'
      BY <1>0, <1>5, ZeroAppended DEF Repairable
    <2>3. ASSUME Fresh PROVE Fresh'
      <3>1. /\ Len(down') = Len(down) + 1 /\ Len(down) \in Nat
            /\ \A k \in 1 .. Len(down') :
                  \/ Inert(down'[k]) /\ down'[k].body = Zero /\ k = Len(down) + 1
                  \/ k \in 1 .. Len(down) /\ down'[k] = down[k]
        BY <1>0, <1>5, ZeroAppended
      <3>2. Zero # Body("op", "rename")
        BY DEF Zero, Body
      <3>3. NoRename'
        BY <1>2, <2>3, <3>1, <3>2, Zenon DEF Fresh, NoRename
      <3>4. ASSUME NEW k \in 2 .. Len(down') PROVE Inert(down'[k])
        <4>1. k \in 1 .. Len(down') /\ (k \in 1 .. Len(down) => k \in 2 .. Len(down))
          BY <3>1
        <4>2. QED
          BY <2>3, <3>1, <4>1 DEF Fresh
      <3>5. up' = <<>>
        BY <1>1, <1>5
      <3>6. 1 .. Len(up') = {}
        BY <3>5
      <3>7. QED
        BY <1>5, <3>3, <3>4, <3>6 DEF Fresh
    <2>4. RecoveryInv'
      BY <1>5, <2>1, <2>2, <2>3 DEF RecoveryInv, LinkInv
    <2>5. Reasons'
      BY <1>5, <2>1 DEF LinkInv, Reasons
    <2>6. QED
      BY <1>5, <2>4, <2>5 DEF LinkInv, Truthful
  <1>6. CASE host'.pc = "idle" /\ host'.result # "ok" /\ slips' = slips \cup why \cup {"unreset"}
    <2>1. ~Repairable' /\ Reasons'
      BY <1>6 DEF Repairable, Reasons, Mild
    <2>2. QED
      BY <1>6, <2>1 DEF LinkInv, Truthful, Repairable
  <1>7. QED
    BY <1>0, <1>1, <1>4, <1>5, <1>6, FailedIs

LEMMA HostResyncedStep ==
    ASSUME TypesInv, LinkInv, HostResynced
    PROVE  LinkInv'
  <1>1. /\ dev' = dev /\ down' = down /\ slips' = slips /\ host.pc = "resync" /\ host'.pc = "settle"
        /\ up # <<>> /\ Acknowledges(Head(up), Zero)
    <2>1. host' = [host EXCEPT !.pc = "settle"]
      BY DEF HostResynced
    <2>2. host'.pc = "settle"
      BY <2>1 DEF TypesInv, HostType, HostRecord
    <2>3. QED
      BY <2>2 DEF HostResynced
  <1>2. \E j \in 1 .. Len(up) : Acknowledges(up[j], Zero)
    <2>1. Head(up) = up[1] /\ Len(up) \in Nat /\ Len(up) >= 1
      BY <1>1, TailIsLost DEF TypesInv, LineType, Lost
    <2>2. 1 \in 1 .. Len(up)
      BY <2>1
    <2>3. QED
      BY <1>1, <2>1, <2>2
  <1>3. Fresh => Fresh'
    BY <1>1, <1>2 DEF Fresh, Recovered, Ready, Inert, ChecksumIsOk, NoRename
  <1>4. RecoveryInv'
    BY <1>1, <1>3 DEF LinkInv, RecoveryInv, Repairable, Arriving, Whole, Full, ChecksumIsOk
  <1>5. QED
    BY <1>1, <1>4 DEF LinkInv, Reasons, Truthful

LEMMA HostSettleStep ==
    ASSUME TypesInv, LinkInv, HostSettle
    PROVE  LinkInv'
  <1>1. /\ dev' = dev /\ down' = down /\ up' = <<>> /\ host.pc = "settle"
        /\ host'.pc = "idle" /\ host'.result # "ok"
    <2>1. host' = Returns("prot") /\ "prot" \in Result
      BY DEF HostSettle, Result
    <2>2. host'.pc = "idle" /\ host'.result = "prot"
      BY <2>1, ReturnsIs DEF TypesInv
    <2>3. QED
      BY <2>2 DEF HostSettle
  <1>2. /\ ~Quiet => slips' = slips \cup {"late"}
        /\ Quiet /\ ("damaged" \in slips \/ dev.pc # "op") => slips' = slips
        /\ Quiet /\ "damaged" \notin slips /\ dev.pc = "op" => slips' = slips \cap Mild
    BY DEF HostSettle
  <1>3. Reasons'
    BY <1>2 DEF LinkInv, Reasons, Mild
  <1>4. ASSUME Repairable' PROVE IdleInv'
    <2>1. Quiet /\ "damaged" \notin slips
      BY <1>2, <1>4 DEF Repairable, Mild
    <2>2. Fresh \/ (~Repairable /\ Arriving)
      BY <1>1, <2>1 DEF LinkInv, RecoveryInv
    <2>3. dev.pc = "op"
      <3>1. CASE Fresh
        BY <1>1, <2>1, <3>1 DEF Fresh, Recovered, Ready, Quiet
      <3>2. CASE ~Repairable
        BY <1>2, <1>4, <2>1, <3>2 DEF Repairable
      <3>3. QED
        BY <2>2, <3>1, <3>2
    <2>4. dev.got = 0
      BY <1>1, <2>1, <2>2, <2>3 DEF Fresh, Arriving, Whole, Recovered, Ready, Quiet
    <2>5. QED
      BY <1>1, <2>1, <2>3, <2>4 DEF IdleInv, Quiet
  <1>5. QED
    BY <1>1, <1>3, <1>4 DEF LinkInv, Truthful

LEMMA AbortStep ==
    ASSUME TypesInv, LinkInv, Abort
    PROVE  LinkInv'
  <1>1. host'.pc = "idle" /\ host'.result # "ok" /\ slips' = slips \cup {"abort"}
    BY DEF Abort, Idle
  <1>2. ~Repairable' /\ Reasons'
    BY <1>1 DEF Repairable, Reasons, Mild
  <1>3. QED
    BY <1>1, <1>2 DEF LinkInv, Truthful

-----------------------------------------------------------------------------
(* The device's steps.                                                     *)

\* What is left of the line when its first element is taken, and what is on
\* the other when it is answered.
LEMMA ReceivesLines ==
    ASSUME LineType, NEW p, Receives(p)
    PROVE  /\ p = down[1] /\ 1 \in 1 .. Len(down) /\ Lost(down, down')
           /\ Len(down) \in Nat /\ Len(down') \in Nat
           /\ \A j \in 1 .. Len(down') : /\ j + 1 \in 1 .. Len(down) /\ j + 1 \in Nat
                                         /\ 1 < j + 1 /\ down'[j] = down[j + 1]
           /\ \A j, k \in 1 .. Len(down') : j < k => j + 1 < k + 1
           /\ Len(up) \in Nat /\ Len(up') = Len(up) + 1 /\ Len(up') \in 1 .. Len(up')
           /\ \A j \in 1 .. Len(up') : j \in 1 .. Len(up) \/ j = Len(up')
           /\ \A j \in 1 .. Len(up) : up'[j] = up[j]
           /\ ~up'[Len(up')].start /\ up'[Len(up')].sum = p.sum
  <1>1. down \in Seq(Element) /\ up \in Seq(Element) /\ down # <<>> /\ p = Head(down) /\ down' = Tail(down)
    BY DEF LineType, Receives
  <1>2. Lost(down, down') /\ p = down[1] /\ down' \in Seq(Element)
    BY <1>1, TailIsLost
  <1>3. PICK a \in Element : up' = Append(up, a) /\ ~a.start /\ a.sum = p.sum
    BY DEF Receives
  <1>4. /\ Len(up) \in Nat /\ Len(up') = Len(up) + 1
        /\ \A j \in 1 .. Len(up) : up'[j] = up[j]
        /\ up'[Len(up) + 1] = a
    BY <1>1, <1>3
  <1>5. \A n \in Nat : n + 1 \in 1 .. n + 1 /\ \A j \in 1 .. n + 1 : j \in 1 .. n \/ j = n + 1
    OBVIOUS
  <1>6. /\ Len(up') \in 1 .. Len(up') /\ up'[Len(up')] = a
        /\ \A j \in 1 .. Len(up') : j \in 1 .. Len(up) \/ j = Len(up')
    BY <1>4, <1>5, Zenon
  <1>7. Len(down) \in Nat /\ Len(down') \in Nat /\ Len(down) >= 1 /\ Len(down') = Len(down) - 1
    BY <1>1, <1>2 DEF Lost
  <1>8. \A n \in Nat : n >= 1 =>
           /\ 1 \in 1 .. n
           /\ \A j \in 1 .. n - 1 : j + 1 \in 1 .. n /\ j + 1 \in Nat /\ 1 < j + 1
           /\ \A j, k \in 1 .. n - 1 : j < k => j + 1 < k + 1
    OBVIOUS
  <1>9. /\ 1 \in 1 .. Len(down)
        /\ \A j \in 1 .. Len(down') : j + 1 \in 1 .. Len(down) /\ j + 1 \in Nat /\ 1 < j + 1
        /\ \A j, k \in 1 .. Len(down') : j < k => j + 1 < k + 1
    BY <1>7, <1>8, Zenon
  <1>10. \A j \in 1 .. Len(down') : down'[j] = down[j + 1]
    BY <1>2, Zenon DEF Lost
  <1>11. /\ Len(up) \in Nat /\ Len(up') = Len(up) + 1
         /\ \A j \in 1 .. Len(up) : up'[j] = up[j]
         /\ ~up'[Len(up')].start /\ up'[Len(up')].sum = p.sum
    BY <1>3, <1>4, <1>6, Zenon
  <1>12. QED
    BY <1>2, <1>6, <1>7, <1>9, <1>10, <1>11, Zenon

\* While the host recovers: a packet of length zero brings the device back, or
\* is taken for a command, and what comes after it leaves it there.
LEMMA ReceivesRecovery ==
    ASSUME LineType, NEW p, Receives(p), host' = host,
           Ready /\ Inert(p) => Ready',
           NoRename /\ p.sum = Zero => Ready' \/ ("mistaken" \in slips' /\ Whole'),
           NoRename => ~(dev'.pc = "arg" /\ dev'.cmd = "rename") \/ ("mistaken" \in slips' /\ Whole'),
           ~(ChecksumIsOk(p) /\ Full(p)) => Whole'
    PROVE  /\ Fresh => Fresh' \/ (~Repairable' /\ Arriving')
           /\ Arriving => Arriving'
  <1>0. /\ down # <<>> /\ p = down[1] /\ down' \in Seq(Element)
        /\ Len(down) \in Nat /\ Len(down') = Len(down) - 1 /\ Len(down) >= 1
    BY ReceivesLines, ReceivesLine DEF Receives, Lost, LineType
  <1>1. down' # <<>> =>
           /\ Len(down) \in 2 .. Len(down) /\ down'[Len(down')] = down[Len(down)]
    <2>1. ASSUME down' # <<>>
          PROVE  Len(down') \in 1 .. Len(down') /\ Len(down') + 1 = Len(down)
                 /\ Len(down) \in 2 .. Len(down)
      BY <1>0, <2>1
    <2>2. QED
      BY <2>1, ReceivesLines, Zenon
  <1>2. ASSUME NEW j \in 1 .. Len(down')
        PROVE  j + 1 \in 2 .. Len(down) /\ j + 1 \in 1 .. Len(down) /\ down'[j] = down[j + 1]
    BY <1>0, ReceivesLines
  <1>3. ASSUME Fresh, "mistaken" \in slips', Whole' PROVE ~Repairable' /\ Arriving'
    <2>1. ~Repairable'
      BY <1>3 DEF Repairable, Mild
    <2>2. ASSUME down' # <<>> PROVE ~(ChecksumIsOk(down'[Len(down')]) /\ Full(down'[Len(down')]))
      <3>1. Inert(down[Len(down)])
        BY <1>1, <1>3, <2>2 DEF Fresh
      <3>2. QED
        BY <1>1, <2>2, <3>1 DEF Inert, Full, Zero
    <2>3. QED
      BY <1>3, <2>1, <2>2 DEF Arriving
  <1>4. ASSUME Fresh, ~("mistaken" \in slips' /\ Whole') PROVE Fresh'
    <2>1. NoRename /\ (\A j \in 2 .. Len(down) : Inert(down[j]))
      BY <1>4 DEF Fresh
    <2>2. NoRename'
      BY <1>2, <1>4, <2>1 DEF NoRename
    <2>3. \A j \in 1 .. Len(down') : Inert(down'[j])
      BY <1>2, <2>1
    <2>4. \A j \in 2 .. Len(down') : Inert(down'[j])
      <3>1. \A j \in 2 .. Len(down') : j \in 1 .. Len(down')
        BY <1>0
      <3>2. QED
        BY <2>3, <3>1
    <2>5. ASSUME Recovered PROVE Ready'
      <3>1. 1 \in 1 .. Len(down)
        BY <1>0
      <3>2. Inert(p)
        BY <1>0, <2>5, <3>1 DEF Recovered
      <3>3. QED
        BY <2>5, <3>2 DEF Recovered
    <2>6. p.sum = Zero => Ready'
      BY <1>4, <2>1
    <2>7. ASSUME NEW j \in 1 .. Len(up'), Acknowledges(up'[j], Zero)
          PROVE  p.sum = Zero \/ \E k \in 1 .. Len(up) : Acknowledges(up[k], Zero)
      BY <2>7, ReceivesLines, Zenon DEF Acknowledges
    <2>8. host'.pc = "settle" \/ (\E j \in 1 .. Len(up') : Acknowledges(up'[j], Zero)) => Ready'
      BY <1>4, <2>5, <2>6, <2>7, Zenon DEF Fresh
    <2>9. QED
      BY <2>2, <2>3, <2>4, <2>8 DEF Fresh, Recovered, Inert
  <1>5. ASSUME Arriving PROVE Arriving'
    <2>1. ~(ChecksumIsOk(down[Len(down)]) /\ Full(down[Len(down)]))
      BY <1>0, <1>5 DEF Arriving
    <2>2. CASE down' = <<>>
      <3>1. Len(down') = 0
        BY <2>2
      <3>2. Len(down) = 1
        BY <1>0, <3>1
      <3>3. p = down[Len(down)]
        BY <1>0, <3>2, Zenon
      <3>4. Whole'
        BY <2>1, <3>3
      <3>5. QED
        BY <2>2, <3>4 DEF Arriving
    <2>3. CASE down' # <<>>
      BY <1>1, <2>1, <2>3 DEF Arriving, ChecksumIsOk, Full
    <2>4. QED
      BY <2>2, <2>3
  <1>6. QED
    BY <1>3, <1>4, <1>5

\* A packet of a command is taken, while the host waits for its
\* acknowledgement.
LEMMA ReceivesAck ==
    ASSUME TypesInv, AckInv, NEW p, Receives(p), host' = host, host.pc = "ack",
           WasSentAs(p, Wanted) =>
               OwnCommand' /\ (LastPacket => Ready') /\ (dev'.pc = "arg" => host.i = dev'.got + 1)
    PROVE  /\ AckInv' /\ WasSentAs(p, Wanted)
           /\ AckTruth /\ executed' = executed /\ DevTruth' => AckTruth'
  <1>0. LineType /\ HostType
    BY DEF TypesInv
  <1>1. PICK n \in Nat : n = Len(up')
    <2>1. Len(up') \in Nat
      BY <1>0, ReceivesLine DEF LineType
    <2>2. QED
      BY <2>1, Zenon
  <1>2. /\ Len(down) = 1 /\ WasSentAs(p, Wanted) /\ \A j \in 1 .. Len(up) : up[j].start
    <2>1. down # <<>> /\ p = down[1] /\ 1 \in 1 .. Len(down) /\ Len(down) \in Nat
      BY <1>0, ReceivesLines DEF Receives
    <2>2. Len(down) <= 1
      BY DEF AckInv
    <2>3. Len(down) = 1
      <3>1. \A m \in Nat : 1 \in 1 .. m /\ m <= 1 => m = 1
        OBVIOUS
      <3>2. QED
        BY <2>1, <2>2, <3>1, Zenon
    <2>4. QED
      BY <2>1, <2>3, Zenon DEF AckInv
  <1>3. down' = <<>>
    <2>1. Len(down') = 0
      BY <1>0, <1>2, ReceivesLines DEF Lost
    <2>2. down' \in Seq(Element)
      BY <1>0, ReceivesLine DEF LineType
    <2>3. QED
      BY <2>1, <2>2
  <1>4. /\ n \in 1 .. n /\ ~up'[n].start
        /\ \A j \in 1 .. n : j # n => up'[j].start
        /\ \A j \in 1 .. n : j # n => j \in 1 .. Len(up) /\ up'[j] = up[j]
    BY <1>0, <1>1, <1>2, ReceivesLines, Zenon
  <1>5. OwnCommand' /\ (LastPacket => Ready') /\ (dev'.pc = "arg" => host.i = dev'.got + 1)
    BY <1>2
  <1>6. Len(Answers(host.cmd)) \in 1 .. 2
    BY <1>0, Counts DEF HostType, HostRecord
  <1>7. LastPacket => Answering(n, 1)'
    <2>1. PICK m : m = Len(Answers(host.cmd))
      OBVIOUS
    <2>2. n - n + 1 <= m + 1 /\ n # n + 2
      BY <1>6, <2>1
    <2>3. QED
      BY <1>1, <1>5, <2>1, <2>2 DEF Answering, Ready
  <1>8. Len(down') <= 1
    BY <1>3
  <1>9. AckInv'
    <2>1. Position'
      BY <1>3, <1>5 DEF Position
    <2>2. QED
      BY <1>1, <1>3, <1>4, <1>5, <1>7, <1>8, <2>1 DEF AckInv, LastPacket
  <1>10. ASSUME AckTruth, executed' = executed, DevTruth'
         PROVE  AckTruth'
    <2>1. TruthInv'
      <3>1. \A j \in 1 .. n : ChecksumIsOk(up'[j]) =>
               /\ up'[j].body = Body("reply", "fail") => host.cmd # "readserialno"
               /\ up'[j].body # Body("reply", "fail") => host.cmd \in executed
        BY <1>4, <1>10 DEF AckTruth, TruthInv, ChecksumIsOk
      <3>2. QED
        BY <1>1, <1>10, <3>1 DEF TruthInv, ChecksumIsOk
    <2>2. AnswersOfRead(n, 1)'
      <3>1. n # n + 2 /\ 1 # 2
        OBVIOUS
      <3>2. QED
        BY <1>1, <3>1 DEF AnswersOfRead
    <2>3. QED
      BY <1>1, <1>3, <1>4, <1>10, <2>1, <2>2 DEF AckTruth, LastPacket
  <1>11. QED
    BY <1>2, <1>9, <1>10

\* A packet is taken and acknowledged.
LEMMA ReceivesStep ==
    ASSUME TypesInv, LinkInv, NEW p, Receives(p), UNCHANGED <<host, executed>>,
           slips' \in {slips, slips \cup {"unread"}, slips \cup {"mistaken"}},
           Ready /\ Inert(p) => Ready',
           NoRename /\ p.sum = Zero => Ready' \/ ("mistaken" \in slips' /\ Whole'),
           NoRename => ~(dev'.pc = "arg" /\ dev'.cmd = "rename") \/ ("mistaken" \in slips' /\ Whole'),
           ~(ChecksumIsOk(p) /\ Full(p)) => Whole',
           host.pc = "ack" /\ AckInv /\ WasSentAs(p, Wanted) /\ "mistaken" \notin slips' =>
               /\ OwnCommand' /\ (LastPacket => Ready') /\ (dev'.pc = "arg" => host.i = dev'.got + 1)
               /\ slips' = {} /\ AckTruth => DevTruth'
    PROVE  LinkInv'
  <1>1. LineType /\ down # <<>>
    BY DEF TypesInv, Receives
  <1>2. host' = host /\ executed' = executed
    OBVIOUS
  <1>3. /\ Repairable' => Repairable /\ "mistaken" \notin slips'
        /\ "damaged" \in slips' <=> "damaged" \in slips
        /\ slips' = {} => slips = {}
    BY DEF Repairable, Mild
  <1>4. Reasons'
    <2>1. slips \subseteq slips'
      OBVIOUS
    <2>2. QED
      BY <1>3, <2>1 DEF LinkInv, Reasons
  <1>5. Repairable => host.pc \notin {"idle", "read"}
    BY <1>1 DEF LinkInv, IdleInv, ReadInv
  <1>6. host.pc \in {"resync", "settle"} => RecoveryInv'
    <2>1. /\ Fresh => Fresh' \/ (~Repairable' /\ Arriving')
          /\ Arriving => Arriving'
      BY <1>1, <1>2, ReceivesRecovery
    <2>2. QED
      BY <1>2, <1>3, <2>1 DEF LinkInv, RecoveryInv
  <1>7. ASSUME host.pc = "ack", Repairable, "mistaken" \notin slips'
        PROVE  AckInv' /\ (slips' = {} => AckTruth')
    <2>1. AckInv
      BY <1>7 DEF LinkInv
    <2>2. AckInv' /\ WasSentAs(p, Wanted)
      BY <1>2, <1>7, <2>1, ReceivesAck
    <2>3. slips' = {} => AckTruth
      BY <1>3, <1>7 DEF LinkInv
    <2>4. slips' = {} => AckTruth'
      BY <1>2, <1>7, <2>1, <2>2, <2>3, ReceivesAck
    <2>5. QED
      BY <2>2, <2>4
  <1>8. Truthful'
    BY <1>2, <1>3 DEF LinkInv, Truthful, Success
  <1>9. slips' = {} => Repairable'
    BY DEF Repairable
  <1>10. QED
    BY <1>2, <1>3, <1>4, <1>5, <1>6, <1>7, <1>8, <1>9 DEF LinkInv

\* A packet that arrives with a good checksum is the one the host has sent.
LEMMA ArrivedIs ==
    ASSUME HostType, host.pc = "ack", NEW p, WasSentAs(p, Wanted), ChecksumIsOk(p)
    PROVE  /\ p.body = Wanted /\ p.body # Zero
           /\ p.body[1] = "op" => host.i = 1 /\ p.body[2] = host.cmd
           /\ Full(p) => host.cmd = "write" /\ host.i = 2 /\ ~LastPacket
           /\ host.i = 1 /\ LastPacket => ~TakesArgument(host.cmd)
           /\ host.cmd = "readserialno" => host.i = 1 /\ p.body[1] = "op"
  <1>1. host.cmd \in Command /\ host.i \in 1 .. Len(Packets(host.cmd))
    BY DEF HostType, HostRecord
  <1>2. /\ Wanted # Zero
        /\ Wanted # Garbled("data") /\ Wanted # Garbled("checksum")
        /\ Wanted[1] = "op" => host.i = 1
        /\ Wanted[1] = "first" => host.cmd = "write" /\ host.i = 2
    BY <1>1, WantedIs DEF Wanted
  <1>3. Garbled("data") # Garbled("checksum")
    BY DEF Garbled
  <1>4. p.body = Wanted
    BY <1>2, <1>3 DEF WasSentAs, ChecksumIsOk
  <1>5. host.i = 1 => Wanted[1] = "op" /\ Wanted[2] = host.cmd
    BY <1>1, PacketsAre DEF Wanted, Body
  <1>6. host.cmd = "write" => Len(Packets(host.cmd)) = 3
    BY <1>1, PacketsAre
  <1>7. host.i = 1 /\ LastPacket => ~TakesArgument(host.cmd)
    BY <1>1, PacketsAre DEF LastPacket, TakesArgument
  <1>8. host.cmd = "readserialno" => host.i = 1
    <2>1. \A n : n = 1 => \A j \in 1 .. n : j = 1
      OBVIOUS
    <2>2. host.cmd = "readserialno" => Len(Packets(host.cmd)) = 1
      BY <1>1, PacketsAre
    <2>3. QED
      BY <1>1, <2>1, <2>2, Zenon
  <1>9. Full(p) => host.cmd = "write" /\ host.i = 2 /\ ~LastPacket
    <2>1. Full(p) => host.cmd = "write" /\ host.i = 2
      BY <1>2, <1>4 DEF Full
    <2>2. LastPacket /\ host.cmd = "write" => host.i = 3
      BY <1>6 DEF LastPacket
    <2>3. QED
      BY <2>1, <2>2
  <1>10. QED
    BY <1>2, <1>4, <1>5, <1>7, <1>8, <1>9

LEMMA DevCommandStep ==
    ASSUME TypesInv, LinkInv, DevCommand
    PROVE  LinkInv'
  <1>1. HostType /\ DevType /\ LineType
    BY DEF TypesInv
  <1>2. PICK p : p = Head(down)
    OBVIOUS
  <1>3. Receives(p) /\ p = down[1] /\ 1 \in 1 .. Len(down)
    BY <1>1, <1>2, DevCommandIs, ReceivesLines
  <1>4. dev.pc = "op" /\ UNCHANGED <<host, executed>>
    BY DEF DevCommand
  <1>5. dev.got \in 0 .. 1 /\ dev' \in DevRecord /\ dev'.got \in 0 .. 1
    BY <1>1, <1>2, DevCommandIs DEF DevType, DevRecord
  <1> DEFINE Nothing == dev'.pc = "op" /\ dev'.got = 0 /\ ~ChecksumIsOk(p) /\ slips' = slips
             Part    == /\ dev'.pc = "op" /\ ChecksumIsOk(p) /\ dev.got = 0
                        /\ (p.body = Zero /\ dev'.got = 0) \/ Full(p)
                        /\ slips' = slips
             Starts  == /\ dev'.got = 0 /\ dev'.pc = BeginsAt(dev'.cmd)
                        /\ ChecksumIsOk(p) /\ (dev.got = 0 => p.body # Zero /\ ~Full(p))
                        /\ dev'.cmd \in TakenFor(p) /\ dev'.wrong = Mistaken(p, dev'.cmd)
                        /\ slips' = slips \cup IF Mistaken(p, dev'.cmd) THEN {"mistaken"} ELSE {}
  <1>6. Nothing \/ Part \/ Starts
    BY <1>1, <1>2, DevCommandIs
  <1>7. Full(p) => p.body # Zero
    BY DEF Full, Zero
  <1>8. /\ ~TakesArgument("unknown") /\ ~TakesArgument("none")
        /\ BeginsAt("unknown") = "exec" /\ BeginsAt("none") = "op"
        /\ "unknown" \notin Command /\ "none" \notin Command /\ "rename" \in Command
    BY DEF TakesArgument, BeginsAt, Command
  <1>9. Starts /\ dev'.cmd \in Command /\ "mistaken" \notin slips' =>
            /\ dev.got = 0 /\ p.body = Body("op", dev'.cmd) /\ ~dev'.wrong
    BY DEF Mistaken
  <1>10. Starts => dev'.cmd \in Command \cup {"unknown", "none"}
    <2>1. p \in Element
      BY <1>1, <1>2, DevCommandIs
    <2>2. ChecksumIsOk(p) => (p.body[1] = "op" => p.body[2] \in Command)
      BY <2>1, ElementsAre, BodiesAre
    <2>3. Starts => dev'.cmd \in TakenFor(p) /\ ChecksumIsOk(p)
      OBVIOUS
    <2>4. ASSUME Starts PROVE dev'.cmd \in Command \cup {"unknown", "none"}
      BY <2>2, <2>3, <2>4 DEF TakenFor, Command
    <2>5. QED
      BY <2>4
  <1>11. Ready /\ Inert(p) => Ready'
    BY <1>4, <1>6, <1>7 DEF Ready, Inert
  <1>12. p.sum = Zero => Ready' \/ ("mistaken" \in slips' /\ Whole')
    <2>1. ASSUME p.sum = Zero, ChecksumIsOk(p) PROVE p.body = Zero
      BY <2>1 DEF ChecksumIsOk
    <2>2. CASE Nothing \/ Part
      BY <1>7, <2>1, <2>2 DEF Ready
    <2>3. ASSUME Starts, p.sum = Zero PROVE Ready' \/ ("mistaken" \in slips' /\ Whole')
      <3>1. dev.got # 0
        BY <2>1, <2>3
      <3>2. CASE dev'.cmd \in Command
        BY <1>9, <2>3, <3>1, <3>2 DEF Whole
      <3>3. CASE dev'.cmd \in {"unknown", "none"}
        BY <1>8, <2>3, <3>3 DEF Ready
      <3>4. QED
        BY <1>10, <2>3, <3>2, <3>3
    <2>4. QED
      BY <1>6, <2>2, <2>3
  <1>13. NoRename => ~(dev'.pc = "arg" /\ dev'.cmd = "rename") \/ ("mistaken" \in slips' /\ Whole')
    <2>1. ASSUME NoRename, Starts, dev'.cmd = "rename", "mistaken" \notin slips' PROVE FALSE
      <3>1. p.body = Body("op", "rename")
        BY <1>8, <1>9, <2>1
      <3>2. p.body # Body("op", "rename")
        BY <1>3, <2>1 DEF NoRename
      <3>3. QED
        BY <3>1, <3>2
    <2>2. Starts => Whole'
      BY DEF Whole
    <2>3. QED
      BY <1>6, <2>1, <2>2
  <1>14. ~(ChecksumIsOk(p) /\ Full(p)) => Whole'
    BY <1>6 DEF Whole
  <1>15. ASSUME host.pc = "ack", AckInv, WasSentAs(p, Wanted), "mistaken" \notin slips'
         PROVE  /\ OwnCommand' /\ (LastPacket => Ready') /\ (dev'.pc = "arg" => host.i = dev'.got + 1)
                /\ DevTruth'
    <2>1. CASE Nothing
      BY <1>4, <2>1 DEF OwnCommand, Ready, DevTruth
    <2>2. ASSUME ChecksumIsOk(p)
          PROVE  /\ p.body # Zero
                 /\ p.body[1] = "op" => host.i = 1 /\ p.body[2] = host.cmd
                 /\ Full(p) => host.cmd = "write" /\ ~LastPacket
                 /\ host.i = 1 /\ LastPacket => ~TakesArgument(host.cmd)
                 /\ host.cmd = "readserialno" => p.body[1] = "op"
      BY <1>1, <1>15, <2>2, ArrivedIs
    <2>3. host.cmd = "readserialno" => dev.got = 0
      BY <1>4, <1>15 DEF AckInv, OwnCommand
    <2>4. CASE Part
      BY <1>4, <2>2, <2>4 DEF OwnCommand, Ready, DevTruth
    <2>5. CASE Starts
      <3>1. ASSUME dev'.cmd \in Command
            PROVE  dev'.cmd = host.cmd /\ host.i = 1 /\ ~dev'.wrong
        <4>1. p.body = Body("op", dev'.cmd) /\ ~dev'.wrong
          BY <1>9, <1>15, <2>5, <3>1
        <4>2. p.body[1] = "op" /\ p.body[2] = dev'.cmd
          BY <4>1 DEF Body
        <4>3. QED
          BY <2>2, <2>5, <4>1, <4>2
      <3>2. ASSUME host.cmd = "readserialno" PROVE dev'.cmd = "readserialno"
        <4>1. dev.got = 0 /\ p.body[1] = "op" /\ p.body[2] = "readserialno"
          BY <2>2, <2>3, <2>5, <3>2
        <4>2. TakenFor(p) = {"readserialno"}
          BY <4>1 DEF TakenFor
        <4>3. QED
          BY <2>5, <4>2
      <3>3. CASE dev'.cmd \in {"unknown", "none"}
        <4>1. dev'.pc \in {"exec", "op"} /\ dev'.got = 0 /\ host.cmd # "readserialno"
          BY <1>8, <2>5, <3>2, <3>3
        <4>2. dev'.pc # "op" => dev'.cmd = "unknown"
          BY <1>8, <2>5, <3>3
        <4>3. OwnCommand'
          BY <1>4, <4>1, <4>2 DEF OwnCommand
        <4>4. Ready' /\ DevTruth'
          BY <4>1, <4>2 DEF Ready, DevTruth
        <4>5. QED
          BY <4>1, <4>3, <4>4
      <3>4. CASE dev'.cmd \in Command
        <4>1. dev'.cmd = host.cmd /\ host.i = 1 /\ ~dev'.wrong /\ dev'.cmd # "none"
          BY <1>8, <3>1, <3>4
        <4>2. dev'.got = 0 /\ dev'.pc = IF TakesArgument(host.cmd) THEN "arg" ELSE "exec"
          BY <2>5, <4>1 DEF BeginsAt
        <4>3. host.cmd = "readserialno" => dev'.pc = "exec"
          BY <4>2 DEF TakesArgument
        <4>4. OwnCommand'
          BY <1>4, <4>1, <4>2, <4>3 DEF OwnCommand
        <4>5. LastPacket => Ready'
          BY <2>2, <2>5, <4>1, <4>2 DEF Ready
        <4>6. dev'.pc = "arg" => host.i = dev'.got + 1
          BY <4>1, <4>2
        <4>7. QED
          BY <4>1, <4>4, <4>5, <4>6 DEF DevTruth
      <3>5. QED
        BY <1>10, <2>5, <3>3, <3>4
    <2>6. QED
      BY <1>6, <2>1, <2>4, <2>5
  <1>16. slips' \in {slips, slips \cup {"unread"}, slips \cup {"mistaken"}}
    BY <1>6
  <1> HIDE DEF Nothing, Part, Starts
  <1>17. QED
    BY <1>3, <1>4, <1>11, <1>12, <1>13, <1>14, <1>15, <1>16, ReceivesStep

LEMMA DevPathStep ==
    ASSUME TypesInv, LinkInv, DevPath
    PROVE  LinkInv'
  <1>1. HostType /\ DevType /\ LineType
    BY DEF TypesInv
  <1>2. PICK p : p = Head(down)
    OBVIOUS
  <1>3. Receives(p)
    BY <1>1, <1>2, DevPathIs
  <1>4. /\ dev.pc = "arg" /\ dev.cmd = "unlink" /\ dev.got = 0 /\ UNCHANGED <<host, executed>>
        /\ dev'.pc \in {"exec", "reply"} \/ (dev'.pc = "arg" /\ ChecksumIsOk(p) /\ Full(p))
        /\ dev'.cmd = "unlink" /\ dev'.got = 0
        /\ slips' \in {slips, slips \cup {"unread"}, slips \cup {"mistaken"}}
        /\ slips' = {} => /\ ChecksumIsOk(p)
                          /\ ~dev.wrong /\ p.body = Body("path", "unlink") => ~dev'.wrong
    BY <1>1, <1>2, DevPathIs DEF DevPath, DevType
  <1>5. p.sum = Zero => Ready'
    <2>1. p.sum = Zero /\ ChecksumIsOk(p) => ~Full(p)
      BY DEF ChecksumIsOk, Zero, Full
    <2>2. QED
      BY <1>4, <2>1 DEF Ready
  <1>6. ~Ready /\ Whole' /\ ~(dev'.pc = "arg" /\ dev'.cmd = "rename")
    BY <1>4 DEF Ready, Whole
  <1>7. ASSUME host.pc = "ack", AckInv, WasSentAs(p, Wanted)
        PROVE  /\ OwnCommand' /\ (LastPacket => Ready') /\ (dev'.pc = "arg" => host.i = dev'.got + 1)
               /\ slips' = {} /\ AckTruth => DevTruth'
    <2>1. host.cmd = "unlink"
      BY <1>4, <1>7 DEF AckInv, OwnCommand
    <2>2. ~(ChecksumIsOk(p) /\ Full(p))
      BY <1>1, <1>7, <2>1, ArrivedIs
    <2>3. OwnCommand' /\ Ready' /\ dev'.pc \in {"exec", "reply"}
      BY <1>4, <2>1, <2>2 DEF OwnCommand, Ready
    <2>4. ASSUME slips' = {}, AckTruth PROVE ~dev'.wrong
      <3>1. p.body = Wanted
        BY <1>1, <1>4, <1>7, <2>4, ArrivedIs
      <3>2. host.i = 2
        BY <1>3, <1>4, <1>7 DEF AckInv, Position, Receives
      <3>3. Wanted = Body("path", "unlink")
        BY <2>1, <3>2, PacketsAre DEF Wanted, Command
      <3>4. ~dev.wrong
        BY <1>4, <2>4 DEF AckTruth, TruthInv, DevTruth
      <3>5. QED
        BY <1>4, <2>4, <3>1, <3>3, <3>4
    <2>5. QED
      BY <1>4, <2>3, <2>4 DEF DevTruth
  <1>8. QED
    BY <1>3, <1>4, <1>5, <1>6, <1>7, ReceivesStep

LEMMA DevRenameStep ==
    ASSUME TypesInv, LinkInv, DevRename
    PROVE  LinkInv'
  <1>1. HostType /\ DevType /\ LineType
    BY DEF TypesInv
  <1>2. PICK p : p = Head(down)
    OBVIOUS
  <1>3. Receives(p)
    BY <1>1, <1>2, DevRenameIs
  <1>4. /\ dev.pc = "arg" /\ dev.cmd = "rename" /\ UNCHANGED <<host, executed, slips>>
        /\ dev'.cmd = "rename" /\ dev.got \in 0 .. 1
    BY <1>1, <1>2, DevRenameIs DEF DevRename, DevType, DevRecord
  <1>5. \/ dev'.pc = "arg" /\ dev'.got = dev.got /\ ChecksumIsOk(p) /\ Full(p)
        \/ /\ dev'.got = 1 - dev.got
           /\ dev.got = 0 => dev'.pc = "arg"
           /\ dev.got = 1 => dev'.pc \in {"reply", "exec"}
           /\ dev.got = 1 /\ dev'.err = "fail" => dev'.pc = "reply"
           /\ /\ ~dev.wrong \/ dev.err = "fail"
              /\ ChecksumIsOk(p) => p.body = Packets("rename")[dev.got + 2]
              => ~dev'.wrong \/ dev'.err = "fail"
    BY <1>1, <1>2, DevRenameIs
  <1>6. ~Ready /\ ~NoRename /\ Whole'
    BY <1>4, <1>5 DEF Ready, NoRename, Whole
  <1>7. ASSUME host.pc = "ack", AckInv, WasSentAs(p, Wanted)
        PROVE  /\ OwnCommand' /\ (LastPacket => Ready') /\ (dev'.pc = "arg" => host.i = dev'.got + 1)
               /\ slips' = {} /\ AckTruth => DevTruth'
    <2>1. host.cmd = "rename"
      BY <1>4, <1>7 DEF AckInv, OwnCommand
    <2>2. ~(ChecksumIsOk(p) /\ Full(p))
      BY <1>1, <1>7, <2>1, ArrivedIs
    <2>3. OwnCommand'
      BY <1>4, <2>1 DEF OwnCommand
    <2>4. host.i = dev.got + 2
      BY <1>3, <1>4, <1>7 DEF AckInv, Position, Receives
    <2>5. dev'.pc = "arg" => dev.got = 0 /\ dev'.got = 1
      BY <1>4, <1>5, <2>2
    <2>6. dev'.pc = "arg" => host.i = dev'.got + 1
      BY <2>4, <2>5
    <2>7. LastPacket => Ready'
      <3>1. LastPacket => host.i = 3
        BY <2>1, PacketsAre DEF LastPacket, Command
      <3>2. LastPacket => dev.got = 1
        BY <1>4, <2>4, <3>1
      <3>3. dev.got = 1 => dev'.pc \in {"reply", "exec"}
        BY <1>5, <2>2
      <3>4. QED
        BY <3>2, <3>3 DEF Ready
    <2>8. ASSUME AckTruth PROVE DevTruth'
      <3>1. ~dev.wrong \/ dev.err = "fail"
        BY <1>4, <2>8 DEF AckTruth, TruthInv, DevTruth
      <3>2. ChecksumIsOk(p) => p.body = Packets("rename")[dev.got + 2]
        BY <1>1, <1>7, <2>1, <2>4, ArrivedIs DEF Wanted
      <3>3. ~dev'.wrong \/ dev'.err = "fail"
        BY <1>5, <2>2, <3>1, <3>2
      <3>4. dev'.err = "fail" => dev'.pc \in {"arg", "reply"}
        BY <1>4, <1>5, <2>2
      <3>5. QED
        BY <1>4, <3>3, <3>4 DEF DevTruth
    <2>9. QED
      BY <2>3, <2>6, <2>7, <2>8
  <1>8. slips' \in {slips, slips \cup {"unread"}, slips \cup {"mistaken"}}
    BY <1>4
  <1>9. QED
    BY <1>3, <1>4, <1>6, <1>7, <1>8, ReceivesStep

LEMMA DevWriteStep ==
    ASSUME TypesInv, LinkInv, DevWrite
    PROVE  LinkInv'
  <1>1. HostType /\ DevType /\ LineType
    BY DEF TypesInv
  <1>2. PICK p : p = Head(down)
    OBVIOUS
  <1>3. Receives(p)
    BY <1>1, <1>2, DevWriteIs
  <1>4. /\ dev.pc = "arg" /\ dev.cmd = "write" /\ UNCHANGED <<host, executed, slips>>
        /\ dev'.cmd = "write"
        /\ \/ dev'.pc = "reply" /\ dev'.err = "fail"
           \/ /\ ChecksumIsOk(p)
              /\ ~dev.wrong /\ p.body = Packets("write")[dev.got + 2] => ~dev'.wrong
              /\ \/ dev'.pc = "arg" /\ Full(p) /\ dev'.got = 1
                 \/ dev'.pc = "reply"
    BY <1>1, <1>2, DevWriteIs DEF DevWrite
  <1>5. p.sum = Zero => Ready'
    <2>1. p.sum = Zero /\ ChecksumIsOk(p) => ~Full(p)
      BY DEF ChecksumIsOk, Zero, Full
    <2>2. QED
      BY <1>4, <2>1 DEF Ready
  <1>6. ASSUME host.pc = "ack", AckInv, WasSentAs(p, Wanted)
        PROVE  /\ OwnCommand' /\ (LastPacket => Ready')
               /\ AckTruth => DevTruth'
               /\ dev'.pc = "arg" => host.i = dev'.got + 1
    <2>1. host.cmd = "write"
      BY <1>4, <1>6 DEF AckInv, OwnCommand
    <2>2. ChecksumIsOk(p) /\ Full(p) => host.i = 2 /\ ~LastPacket
      BY <1>1, <1>6, ArrivedIs
    <2>3. OwnCommand' /\ (LastPacket => Ready')
      BY <1>4, <2>1, <2>2 DEF OwnCommand, Ready
    <2>4. dev'.pc = "arg" => host.i = dev'.got + 1
      <3>1. dev'.pc = "arg" => dev'.got = 1 /\ host.i = 2
        BY <1>4, <2>2
      <3>2. \A g : g = 1 => g + 1 = 2
        OBVIOUS
      <3>3. QED
        BY <3>1, <3>2
    <2>5. ASSUME AckTruth PROVE DevTruth'
      <3>1. ASSUME ChecksumIsOk(p) PROVE p.body = Packets("write")[dev.got + 2]
        <4>1. host.i = dev.got + 2
          BY <1>3, <1>4, <1>6 DEF AckInv, Position, Receives
        <4>2. p.body = Wanted
          BY <1>1, <1>6, <3>1, ArrivedIs
        <4>3. QED
          BY <2>1, <4>1, <4>2 DEF Wanted
      <3>2. ~dev.wrong
        BY <1>4, <2>5 DEF AckTruth, TruthInv, DevTruth
      <3>3. QED
        BY <1>4, <3>1, <3>2 DEF DevTruth
    <2>6. QED
      BY <2>3, <2>4, <2>5
  <1>7. ~Ready /\ Whole' /\ ~(dev'.pc = "arg" /\ dev'.cmd = "rename")
    BY <1>4 DEF Ready, Whole
  <1>8. slips' \in {slips, slips \cup {"unread"}, slips \cup {"mistaken"}}
    BY <1>4
  <1>9. UNCHANGED <<host, executed>>
    BY <1>4
  <1>10. /\ Ready /\ Inert(p) => Ready'
         /\ NoRename /\ p.sum = Zero => Ready' \/ ("mistaken" \in slips' /\ Whole')
         /\ NoRename => ~(dev'.pc = "arg" /\ dev'.cmd = "rename") \/ ("mistaken" \in slips' /\ Whole')
         /\ ~(ChecksumIsOk(p) /\ Full(p)) => Whole'
    BY <1>5, <1>7, Zenon
  <1>11. host.pc = "ack" /\ AckInv /\ WasSentAs(p, Wanted) /\ "mistaken" \notin slips' =>
            /\ OwnCommand' /\ (LastPacket => Ready') /\ (dev'.pc = "arg" => host.i = dev'.got + 1)
            /\ slips' = {} /\ AckTruth => DevTruth'
    <2>1. CASE host.pc = "ack" /\ AckInv /\ WasSentAs(p, Wanted)
      BY <1>6, <2>1, Zenon
    <2>2. QED
      BY <2>1, Zenon
  <1>12. QED
    BY <1>3, <1>8, <1>9, <1>10, <1>11, ReceivesStep, Zenon

\* Whatever is new on the line is an answer to c with the reply e.
Added(u, w, c, e) ==
    /\ Len(u) \in Nat /\ Len(w) \in Nat
    /\ \A j \in 1 .. Len(u) : j \in 1 .. Len(w) /\ w[j] = u[j]
    /\ \A j \in 1 .. Len(w) :
          \/ j \in 1 .. Len(u) /\ w[j] = u[j]
          \/ w[j] = Packet(Body("reply", e))
          \/ w[j] = Packet(Body("data", c)) /\ e # "fail"
          \/ w[j] = Packet(Zero) /\ c = "read" /\ e = "zero"

\* What the device adds to the line at the end of a command.
LEMMA AnswersAdded ==
    ASSUME LineType, NEW c \in Taken, NEW e \in Replies,
           up' = up \o Sent(c, e), c = "readserialno" => e = "count"
    PROVE  Added(up, up', c, e)
  <1>1. /\ up \in Seq(Element) /\ up' \in Seq(Element) /\ Len(up) \in Nat
        /\ \A j \in 1 .. Len(up) : up'[j] = up[j]
    <2>1. up' \in Seq(Element) /\ \A j \in 1 .. Len(up) : up'[j] = up[j]
      BY SentUp DEF AnswersFor
    <2>2. QED
      BY <2>1 DEF LineType
  <1>2. \A n \in Nat :
           /\ \A j \in 1 .. n + 1 : j \in 1 .. n \/ j = n + 1
           /\ \A j \in 1 .. n + 2 : j \in 1 .. n \/ j = n + 1 \/ j = n + 2
           /\ \A j \in 1 .. n : j \in 1 .. n + 1 /\ j \in 1 .. n + 2
    OBVIOUS
  <1>3. ASSUME NEW j \in 1 .. Len(up'), j \notin 1 .. Len(up)
        PROVE  \/ up'[j] = Packet(Body("reply", e))
               \/ up'[j] = Packet(Body("data", c)) /\ e # "fail"
               \/ up'[j] = Packet(Zero) /\ c = "read" /\ e = "zero"
    <2>1. CASE c \notin {"readserialno", "read"} \/ (c = "read" /\ e = "fail")
      <3>1. Len(up') = Len(up) + 1 /\ up'[Len(up) + 1] = Packet(Body("reply", e))
        BY <2>1, SentUp DEF AnswersFor
      <3>2. j = Len(up) + 1
        BY <1>1, <1>2, <1>3, <3>1, Zenon
      <3>3. QED
        BY <3>1, <3>2, Zenon
    <2>2. CASE c = "readserialno"
      <3>1. /\ Len(up') = Len(up) + 2 /\ up'[Len(up) + 1] = Packet(Body("reply", e))
            /\ up'[Len(up) + 2] = Packet(Body("data", c)) /\ e # "fail"
        BY <2>2, SentUp DEF AnswersFor
      <3>2. j = Len(up) + 1 \/ j = Len(up) + 2
        BY <1>1, <1>2, <1>3, <3>1, Zenon
      <3>3. QED
        BY <3>1, <3>2, Zenon
    <2>3. CASE c = "read" /\ e # "fail"
      <3>1. /\ Len(up') = Len(up) + 2 /\ up'[Len(up) + 2] = Packet(Body("reply", e))
            /\ e = "zero" => up'[Len(up) + 1] = Packet(Zero)
            /\ e # "zero" => up'[Len(up) + 1] = Packet(Body("data", c))
        BY <2>3, SentUp DEF AnswersFor
      <3>2. j = Len(up) + 1 \/ j = Len(up) + 2
        BY <1>1, <1>2, <1>3, <3>1, Zenon
      <3>3. QED
        BY <2>3, <3>1, <3>2, Zenon
    <2>4. QED
      BY <2>1, <2>2, <2>3
  <1>4. Len(up') \in Nat
    BY <1>1
  <1>5. \A j \in 1 .. Len(up) : j \in 1 .. Len(up')
    <2>1. Len(up') = Len(up) + 1 \/ Len(up') = Len(up) + 2
      BY SentUp DEF AnswersFor
    <2>2. QED
      BY <1>1, <1>2, <2>1, Zenon
  <1>6. QED
    BY <1>1, <1>3, <1>4, <1>5, Zenon DEF Added

\* They are the answers that the host reads, if nothing is before them.
LEMMA AnswersFollow ==
    ASSUME TypesInv, OwnCommand, dev.pc # "op",
           NEW c \in Taken, c = dev.cmd, NEW e \in Replies,
           up' = up \o Sent(c, e), host' = host, dev'.pc = "op", dev'.got = 0,
           c = "readserialno" => e = "count",
           NEW k, k = Len(up)
    PROVE  Answering(k, 1)' /\ AnswersOfRead(k, 1)'
  <1>0. LineType /\ host.cmd \in Command
    BY DEF TypesInv, HostType, HostRecord
  <1>1. c \in {host.cmd, "unknown"} /\ (host.cmd = "readserialno" => c = "readserialno")
    BY DEF OwnCommand
  <1>2. PICK n : n = Len(up')
    OBVIOUS
  <1>3. PICK m : m = Len(Answers(host.cmd))
    OBVIOUS
  <1>4. k \in Nat /\ m \in 1 .. 2
    BY <1>0, <1>3, Counts DEF LineType
  <1>5. /\ c \notin {"readserialno", "read"} \/ (c = "read" /\ e = "fail") => n = k + 1
        /\ c = "readserialno" => n = k + 2 /\ m = 2 /\ up'[k + 1] = Packet(Body("reply", e))
        /\ c = "read" /\ e # "fail" =>
              /\ n = k + 2 /\ m = 2 /\ up'[k + 2] = Packet(Body("reply", e))
              /\ up'[k + 1] = Packet(IF e = "zero" THEN Zero ELSE Body("data", c))
    <2>1. /\ c \notin {"readserialno", "read"} \/ (c = "read" /\ e = "fail") => Len(up') = Len(up) + 1
          /\ c = "readserialno" => Len(up') = Len(up) + 2 /\ up'[Len(up) + 1] = Packet(Body("reply", e))
          /\ c = "read" /\ e # "fail" =>
                /\ Len(up') = Len(up) + 2 /\ up'[Len(up) + 2] = Packet(Body("reply", e))
                /\ up'[Len(up) + 1] = Packet(IF e = "zero" THEN Zero ELSE Body("data", c))
      BY <1>0, SentUp DEF AnswersFor
    <2>2. c \in {"readserialno", "read"} => m = 2
      BY <1>0, <1>1, <1>3, AnswersAre
    <2>3. QED
      BY <1>2, <2>1, <2>2
  <1>6. n - k + 1 <= m + 1
    <2>1. n = k + 1 \/ (n = k + 2 /\ m = 2)
      BY <1>5
    <2>2. QED
      BY <1>4, <2>1
  <1>7. Packet(Body("reply", e)).body = Body("reply", e) /\ Body("reply", e)[1] = "reply"
    BY DEF Packet, Body
  <1>8. Answering(k, 1)'
    <2>1. host.cmd = "readserialno" => up'[k + 1].body = Body("reply", "count")
      BY <1>1, <1>5, <1>7
    <2>2. QED
      BY <1>2, <1>3, <1>6, <2>1 DEF Answering
  <1>9. AnswersOfRead(k, 1)'
    <2>1. k + 1 # k + 2 /\ 1 # 2
      BY <1>4
    <2>2. ASSUME host.cmd = "read", n = k + 2
          PROVE  /\ up'[k + 2].body[1] = "reply"
                 /\ up'[k + 1].body \in {Zero, Body("data", "read")}
      <3>1. c = "read" /\ e # "fail"
        BY <1>1, <1>5, <2>1, <2>2
      <3>2. PICK b \in {Zero, Body("data", "read")} : up'[k + 1] = Packet(b)
        BY <1>5, <3>1
      <3>3. Packet(b).body = b
        BY DEF Packet
      <3>4. QED
        BY <1>5, <1>7, <3>1, <3>2, <3>3
    <2>3. QED
      BY <1>2, <2>1, <2>2 DEF AnswersOfRead
  <1>10. QED
    BY <1>8, <1>9

\* A command is over and answered.
LEMMA AnswersStep ==
    ASSUME TypesInv, LinkInv, dev.pc \in {"exec", "reply"},
           NEW c \in Taken, c = dev.cmd, NEW e \in Replies,
           up' = up \o Sent(c, e), UNCHANGED <<host, down>>,
           slips' \in {slips, slips \cup {"hidden"}},
           dev'.pc = "op", dev'.got = 0, executed \subseteq executed',
           c = "readserialno" => e = "count",
           c = "unknown" => e = "fail",
           slips' = {} /\ DevTruth /\ e # "fail" => c \in executed'
    PROVE  LinkInv'
  <1>0. /\ LineType /\ HostType /\ host.cmd \in Command
        /\ host' = host /\ down' = down
    BY DEF TypesInv, HostType, HostRecord
  <1>1. /\ Len(up) \in Nat /\ Len(up') \in Nat
        /\ \A j \in 1 .. Len(up) : j \in 1 .. Len(up') /\ up'[j] = up[j]
        /\ \A j \in 1 .. Len(up') :
              \/ j \in 1 .. Len(up) /\ up'[j] = up[j]
              \/ up'[j] = Packet(Body("reply", e))
              \/ up'[j] = Packet(Body("data", c)) /\ e # "fail"
              \/ up'[j] = Packet(Zero) /\ c = "read" /\ e = "zero"
    <2>1. Added(up, up', c, e)
      BY <1>0, AnswersAdded, Zenon
    <2>2. QED
      BY <2>1, Zenon DEF Added
  <1>2. \A b : Packet(b).start /\ Packet(b).body = b
    BY DEF Packet
  <1>3. \A j \in 1 .. Len(up') : ~up'[j].start => j \in 1 .. Len(up) /\ up'[j] = up[j]
    <2>1. \A j, b : up'[j] = Packet(b) => up'[j].start
      BY <1>2
    <2>2. QED
      BY <1>1, <2>1, Zenon
  <1>4. dev.pc # "op"
    OBVIOUS
  <1>5. ASSUME OwnCommand, NEW k, k = Len(up)
        PROVE  OwnCommand' /\ Answering(k, 1)' /\ AnswersOfRead(k, 1)'
    <2>1. OwnCommand'
      BY <1>0 DEF OwnCommand
    <2>2. QED
      BY <1>0, <1>4, <1>5, <2>1, AnswersFollow
  <1>6. ASSUME OwnCommand, TruthInv, slips' = {}
        PROVE  TruthInv'
    <2>1. c \in {host.cmd, "unknown"} /\ (host.cmd = "readserialno" => c = "readserialno")
      BY <1>5, <1>6, <1>4 DEF OwnCommand
    <2>2. e # "fail" => host.cmd \in executed'
      BY <1>6, <2>1 DEF TruthInv
    <2>3. /\ Zero # Body("reply", "fail") /\ Body("data", c) # Body("reply", "fail")
          /\ Body("reply", e) = Body("reply", "fail") <=> e = "fail"
      BY DEF Zero, Body
    <2>4. ASSUME NEW j \in 1 .. Len(up'), ChecksumIsOk(up'[j])
          PROVE  /\ up'[j].body = Body("reply", "fail") => host.cmd # "readserialno"
                 /\ up'[j].body # Body("reply", "fail") => host.cmd \in executed'
      <3>1. CASE j \in 1 .. Len(up) /\ up'[j] = up[j]
        BY <1>6, <2>4, <3>1 DEF TruthInv
      <3>2. CASE up'[j] = Packet(Body("reply", e))
        <4>1. up'[j].body = Body("reply", e)
          BY <1>2, <3>2
        <4>2. e = "fail" => host.cmd # "readserialno"
          BY <2>1
        <4>3. QED
          BY <2>2, <2>3, <4>1, <4>2
      <3>3. CASE up'[j] = Packet(Body("data", c)) /\ e # "fail"
        BY <1>2, <2>2, <2>3, <3>3
      <3>4. CASE up'[j] = Packet(Zero) /\ c = "read" /\ e = "zero"
        <4>1. up'[j].body = Zero /\ e # "fail"
          BY <1>2, <3>4
        <4>2. QED
          BY <2>2, <2>3, <4>1
      <3>5. QED
        BY <1>1, <3>1, <3>2, <3>3, <3>4
    <2>5. DevTruth'
      BY DEF DevTruth
    <2>6. QED
      BY <1>0, <2>4, <2>5 DEF TruthInv, ChecksumIsOk
  <1>7. ASSUME host.pc = "ack", Repairable
        PROVE  AckInv' /\ (slips' = {} => AckTruth')
    <2>1. AckInv
      BY <1>7 DEF LinkInv
    <2>2. ASSUME NEW j \in 1 .. Len(up'), ~up'[j].start
          PROVE  /\ \A k \in 1 .. Len(up') : ~up'[k].start => k = j
                 /\ LastPacket => j = Len(up)
      <3>1. j \in 1 .. Len(up) /\ ~up[j].start
        BY <1>3, <2>2
      <3>2. /\ \A k \in 1 .. Len(up) : ~up[k].start => k = j
            /\ LastPacket => Answering(j, 1)
        BY <2>1, <3>1 DEF AckInv
      <3>3. QED
        BY <1>3, <3>2 DEF Answering
    <2>3. AckInv'
      <3>1. OwnCommand'
        BY <1>5, <2>1 DEF AckInv
      <3>2. down # <<>> => WasSentAs(down[1], Wanted) /\ \A j \in 1 .. Len(up') : up'[j].start
        <4>1. ASSUME down # <<>>, NEW j \in 1 .. Len(up') PROVE up'[j].start
          BY <1>3, <2>1, <4>1 DEF AckInv
        <4>2. QED
          BY <2>1, <4>1 DEF AckInv
      <3>3. \A j \in 1 .. Len(up') : ~up'[j].start => (LastPacket => Answering(j, 1)')
        BY <1>5, <2>1, <2>2 DEF AckInv
      <3>4. QED
        BY <1>0, <2>1, <2>2, <3>1, <3>2, <3>3 DEF AckInv, LastPacket, Wanted, Position
    <2>4. ASSUME slips' = {} PROVE AckTruth'
      <3>1. AckTruth
        BY <1>7, <2>4 DEF LinkInv
      <3>2. TruthInv'
        BY <1>6, <2>1, <2>4, <3>1 DEF AckInv, AckTruth
      <3>3. \A j \in 1 .. Len(up') : ~up'[j].start => (LastPacket => AnswersOfRead(j, 1)')
        BY <1>5, <2>1, <2>2 DEF AckInv
      <3>4. QED
        BY <1>0, <3>1, <3>2, <3>3 DEF AckTruth, LastPacket
    <2>5. QED
      BY <2>3, <2>4
  <1>8. ASSUME host.pc = "read", Repairable
        PROVE  ReadInv' /\ (slips' = {} => ReadTruth')
    <2>1. OwnCommand /\ down = <<>> /\ Answering(0, host.i)
      BY <1>8 DEF LinkInv, ReadInv
    <2>2. Len(up) = 0 /\ host.i = 1
      BY <2>1 DEF Answering
    <2>3. OwnCommand' /\ Answering(0, 1)' /\ AnswersOfRead(0, 1)'
      BY <1>5, <2>1, <2>2
    <2>4. Answering(0, host.i)' /\ AnswersOfRead(0, host.i)'
      BY <1>0, <2>2, <2>3 DEF Answering, AnswersOfRead
    <2>5. ReadInv'
      BY <1>0, <2>1, <2>3, <2>4 DEF ReadInv
    <2>6. ASSUME slips' = {} PROVE ReadTruth'
      <3>1. ReadTruth
        BY <1>8, <2>6 DEF LinkInv
      <3>2. TruthInv'
        BY <1>6, <2>1, <2>6, <3>1 DEF ReadTruth
      <3>3. QED
        BY <1>0, <2>4, <3>1, <3>2 DEF ReadTruth
    <2>7. QED
      BY <2>5, <2>6
  <1>9. /\ Repairable' <=> Repairable
        /\ slips' = {} => slips = {}
        /\ slips' = {} => Repairable
        /\ "damaged" \in slips' <=> "damaged" \in slips
        /\ slips \subseteq slips'
    BY DEF Repairable, Mild
  <1>10. host.pc \in {"resync", "settle"} => RecoveryInv'
    <2>1. Ready' /\ Whole' /\ ~(dev'.pc = "arg" /\ dev'.cmd = "rename")
      BY DEF Ready, Whole
    <2>2. ASSUME Fresh PROVE Fresh'
      <3>1. ASSUME NEW j \in 1 .. Len(up'), Acknowledges(up'[j], Zero)
            PROVE  \E k \in 1 .. Len(up) : Acknowledges(up[k], Zero)
        BY <1>3, <3>1, Zenon DEF Acknowledges
      <3>2. Recovered => Recovered'
        BY <1>0, <2>1 DEF Recovered, Inert, ChecksumIsOk
      <3>3. host'.pc = "settle" \/ (\E j \in 1 .. Len(up') : Acknowledges(up'[j], Zero)) => Recovered'
        BY <1>0, <2>2, <3>1, <3>2, Zenon DEF Fresh
      <3>4. \A j \in 2 .. Len(down') : Inert(down'[j])
        BY <1>0, <2>2 DEF Fresh
      <3>5. NoRename'
        BY <1>0, <2>1, <2>2 DEF Fresh, NoRename
      <3>6. QED
        BY <3>3, <3>4, <3>5 DEF Fresh, Inert, ChecksumIsOk
    <2>3. Arriving => Arriving'
      BY <1>0, <2>1 DEF Arriving, ChecksumIsOk, Full
    <2>4. QED
      BY <1>0, <1>9, <2>2, <2>3 DEF LinkInv, RecoveryInv
  <1>11. ~(host.pc = "idle" /\ Repairable)
    BY <1>4 DEF LinkInv, IdleInv
  <1>12. Truthful'
    BY <1>0, <1>9 DEF LinkInv, Truthful, Success
  <1>13. Reasons'
    BY <1>9 DEF LinkInv, Reasons
  <1>14. QED
    BY <1>0, <1>7, <1>8, <1>9, <1>10, <1>11, <1>12, <1>13 DEF LinkInv

LEMMA DevExecStep ==
    ASSUME TypesInv, LinkInv, DevExec
    PROVE  LinkInv'
  <1>1. DevType /\ dev.pc = "exec" /\ dev.got = 0 /\ dev.cmd \in Taken
    BY DEF TypesInv, DevType, DevRecord, DevExec, Taken
  <1>2. PICK e \in Errors(dev.cmd) :
           /\ e \in {"fail", "zero", "count"}
           /\ up' = up \o Sent(dev.cmd, e)
           /\ dev' \in DevRecord /\ dev'.pc = "op" /\ dev'.got = dev.got
           /\ executed \subseteq executed' /\ executed' \subseteq executed \cup {dev.cmd}
           /\ \/ slips' = slips /\ (~dev.wrong /\ e # "fail" => dev.cmd \in executed')
              \/ slips' = slips \cup {"hidden"}
    BY <1>1, DevExecIs
  <1>3. PICK c \in Taken : c = dev.cmd
    BY <1>1
  <1>4. UNCHANGED <<host, down>> /\ slips' \in {slips, slips \cup {"hidden"}}
    <2>1. UNCHANGED <<host, down>>
      BY DEF DevExec
    <2>2. QED
      BY <1>2, <2>1
  <1>5. /\ c = "readserialno" => e = "count"
        /\ c = "unknown" => e = "fail"
    BY <1>2, <1>3 DEF Errors
  <1>6. slips' = {} /\ DevTruth /\ e # "fail" => c \in executed'
    <2>1. slips' = {} => slips' # slips \cup {"hidden"}
      OBVIOUS
    <2>2. QED
      BY <1>1, <1>2, <1>3, <1>5, <2>1 DEF DevTruth
  <1>7. e \in Replies
    BY <1>2 DEF Replies
  <1>8. up' = up \o Sent(c, e) /\ dev'.pc = "op" /\ dev'.got = 0 /\ executed \subseteq executed'
    BY <1>1, <1>2, <1>3, Zenon
  <1>9. dev.pc \in {"exec", "reply"}
    BY <1>1
  <1>10. QED
    BY <1>3, <1>4, <1>5, <1>6, <1>7, <1>8, <1>9, AnswersStep, Zenon

LEMMA DevReplyStep ==
    ASSUME TypesInv, LinkInv, DevReply
    PROVE  LinkInv'
  <1>1. DevType /\ dev.pc = "reply" /\ dev.cmd \in {"unlink", "rename", "write"} /\ dev.err \in Replies
    BY DEF TypesInv, DevType, DevRecord, DevReply, Replies, TakesArgument
  <1>2. PICK c \in Taken : c = dev.cmd
    BY <1>1 DEF Taken, Command
  <1>3. PICK e \in Replies : e = dev.err
    BY <1>1
  <1>4. UNCHANGED <<host, down>> /\ slips' \in {slips, slips \cup {"hidden"}}
    BY DEF DevReply
  <1>5. up' = up \o Sent(c, e) /\ dev'.pc = "op" /\ dev'.got = 0 /\ executed \subseteq executed'
    BY <1>1, <1>2, <1>3, DevReplyIs, Zenon
  <1>6. slips' = {} /\ DevTruth /\ e # "fail" => c \in executed'
    BY <1>1, <1>2, <1>3, DevReplyIs DEF DevTruth
  <1>7. c \notin {"readserialno", "unknown"}
    BY <1>1, <1>2
  <1>8. dev.pc \in {"exec", "reply"}
    BY <1>1
  <1>9. (c = "readserialno" => e = "count") /\ (c = "unknown" => e = "fail")
    BY <1>7
  <1>10. QED
    BY <1>2, <1>3, <1>4, <1>5, <1>6, <1>8, <1>9, AnswersStep, Zenon

-----------------------------------------------------------------------------
(* What is lost, and what is damaged.                                      *)

\* Line w is line u without its first d elements, which may be none; what is
\* damaged is no acknowledgement of a packet of length zero, and no answer.
Wasted(u, w, d) ==
    /\ Len(u) \in Nat /\ Len(u) >= 1 /\ Len(w) \in Nat /\ Len(u) = Len(w) + d
    /\ \A j \in 1 .. Len(w) :
          /\ j + d \in 1 .. Len(u)
          /\ w[j].start = u[j + d].start
          /\ w[j].sum = Zero => u[j + d].sum = Zero
          /\ w[j].body = Body("op", "rename") => u[j + d].body = Body("op", "rename")
          /\ ChecksumIsOk(w[j]) => w[j] = u[j + d]
          /\ d = 0 /\ j = 1 => ~ChecksumIsOk(w[j])

LEMMA WastedIs ==
    ASSUME NEW u \in Seq(Element), NEW w \in Seq(Element), Lost(u, w) \/ Hurt(u, w)
    PROVE  \E d \in 0 .. 1 : Wasted(u, w, d)
  <1>1. /\ Len(u) \in Nat /\ Len(w) \in Nat /\ Len(u) >= 1
        /\ \A n : n + 1 - 1 = n + 0
    BY DEF Lost, Hurt
  <1>2. CASE Lost(u, w)
    <2>1. Len(u) = Len(w) + 1 /\ \A j \in 1 .. Len(w) : j + 1 \in 1 .. Len(u) /\ 1 # 0
      BY <1>1, <1>2 DEF Lost
    <2>2. \A j \in 1 .. Len(w) : w[j] = u[j + 1]
      BY <1>2, Zenon DEF Lost
    <2>3. Wasted(u, w, 1)
      BY <1>1, <2>1, <2>2, Zenon DEF Wasted
    <2>4. 1 \in 0 .. 1
      OBVIOUS
    <2>5. QED
      BY <2>3, <2>4
  <1>3. CASE Hurt(u, w)
    <2>1. /\ Len(u) = Len(w) + 0
          /\ \A j \in 1 .. Len(w) : j + 0 \in 1 .. Len(u) /\ j + 0 = j /\ (j = 1 \/ j \in 2 .. Len(u))
      BY <1>1, <1>3 DEF Hurt
    <2>2. \A j \in 1 .. Len(w) : j = 1 \/ w[j] = u[j + 0]
      BY <1>3, <2>1, Zenon DEF Hurt
    <2>3. /\ w[1].start = u[1].start /\ ~ChecksumIsOk(w[1])
          /\ w[1].sum = Zero => u[1].sum = Zero
          /\ w[1].body = Body("op", "rename") => u[1].body = Body("op", "rename")
      <3>1. Zero # Garbled("checksum") /\ Body("op", "rename") # Garbled("data")
        BY DEF Zero, Garbled, Body
      <3>2. QED
        BY <1>3, <3>1 DEF Hurt
    <2>4. ASSUME NEW j \in 1 .. Len(w)
          PROVE  /\ j + 0 \in 1 .. Len(u)
                 /\ w[j].start = u[j + 0].start
                 /\ w[j].sum = Zero => u[j + 0].sum = Zero
                 /\ w[j].body = Body("op", "rename") => u[j + 0].body = Body("op", "rename")
                 /\ ChecksumIsOk(w[j]) => w[j] = u[j + 0]
                 /\ 0 = 0 /\ j = 1 => ~ChecksumIsOk(w[j])
      <3>1. j + 0 = j /\ j + 0 \in 1 .. Len(u)
        BY <2>1
      <3>2. CASE j = 1
        BY <2>3, <3>1, <3>2
      <3>3. CASE j # 1
        BY <2>2, <3>1, <3>3
      <3>4. QED
        BY <3>2, <3>3
    <2>5. Wasted(u, w, 0)
      BY <1>1, <2>1, <2>4, Zenon DEF Wasted
    <2>6. 0 \in 0 .. 1
      OBVIOUS
    <2>7. QED
      BY <2>5, <2>6
  <1>4. QED
    BY <1>2, <1>3

\* The answers that are left follow what is left of the line.
LEMMA AnswersStay ==
    ASSUME TypesInv, NEW d \in 0 .. 1, Wasted(up, up', d), dev' = dev, host' = host,
           NEW j \in 1 .. Len(up')
    PROVE  /\ Answering(j + d, 1) => Answering(j, 1)'
           /\ AnswersOfRead(j + d, 1) => AnswersOfRead(j, 1)'
  <1>1. PICK n : n = Len(up)
    OBVIOUS
  <1>2. PICK m : m = Len(up')
    OBVIOUS
  <1>3. PICK a : a = Len(Answers(host.cmd))
    OBVIOUS
  <1>4. a \in Nat /\ n \in Nat /\ m \in Nat /\ n = m + d /\ j \in 1 .. m
    BY <1>1, <1>2, <1>3, Counts DEF TypesInv, HostType, HostRecord, Wasted
  <1>5. ASSUME NEW k \in 1 .. m PROVE ChecksumIsOk(up'[k]) => up'[k] = up[k + d]
    BY <1>2, <1>5, Zenon DEF Wasted
  <1>6. /\ n = j + d => m = j
        /\ n - (j + d) + 1 <= a + 1 => m - j + 1 <= a + 1
        /\ m = j + 2 => n = (j + d) + 2 /\ j + 1 \in 1 .. m /\ j + 2 \in 1 .. m
        /\ (j + 1) + d = (j + d) + 1 /\ (j + 2) + d = (j + d) + 2
        /\ 1 # 2
    BY <1>4
  <1>7. m = j + 2 => /\ ChecksumIsOk(up'[j + 1]) => up'[j + 1] = up[(j + d) + 1]
                     /\ ChecksumIsOk(up'[j + 2]) => up'[j + 2] = up[(j + d) + 2]
    BY <1>5, <1>6
  <1>8. Answering(j + d, 1) => Answering(j, 1)'
    <2>1. ASSUME Answering(j + d, 1) PROVE Answering(j, 1)'
      <3>1. dev.pc \in {"exec", "reply"} => m = j
        BY <1>1, <1>6, <2>1 DEF Answering
      <3>2. m - j + 1 <= a + 1
        BY <1>1, <1>3, <1>6, <2>1 DEF Answering
      <3>3. host.cmd = "readserialno" /\ m = j + 2 /\ ChecksumIsOk(up'[j + 1])
              => up'[j + 1].body = Body("reply", "count")
        <4>1. ASSUME host.cmd = "readserialno", m = j + 2, ChecksumIsOk(up'[j + 1])
              PROVE  up'[j + 1].body = Body("reply", "count")
          <5>1. up'[j + 1] = up[(j + d) + 1] /\ n = (j + d) + 2
            BY <1>6, <1>7, <4>1
          <5>2. QED
            BY <1>1, <2>1, <4>1, <5>1 DEF Answering
        <4>2. QED
          BY <4>1
      <3>4. QED
        BY <1>2, <1>3, <2>1, <3>1, <3>2, <3>3 DEF Answering
    <2>2. QED
      BY <2>1
  <1>9. AnswersOfRead(j + d, 1) => AnswersOfRead(j, 1)'
    <2>1. ASSUME AnswersOfRead(j + d, 1), host.cmd = "read", m = j + 2,
                 ChecksumIsOk(up'[j + 1]), ChecksumIsOk(up'[j + 2])
          PROVE  /\ up'[j + 2].body[1] = "reply"
                 /\ up'[j + 1].body \in {Zero, Body("data", "read")}
      <3>1. up'[j + 1] = up[(j + d) + 1] /\ up'[j + 2] = up[(j + d) + 2] /\ n = (j + d) + 2
        BY <1>6, <1>7, <2>1
      <3>2. QED
        BY <1>1, <2>1, <3>1 DEF AnswersOfRead
    <2>2. QED
      BY <1>2, <1>6, <2>1 DEF AnswersOfRead
  <1>10. QED
    BY <1>8, <1>9

\* And what is still to be read, if nothing is before it.
LEMMA ReadingStays ==
    ASSUME TypesInv, NEW d \in 0 .. 1, Wasted(up, up', d), dev' = dev, host' = host,
           host.pc = "read", Answering(0, host.i)
    PROVE  Answering(0, host.i)' /\ AnswersOfRead(0, host.i)'
  <1>1. PICK n : n = Len(up)
    OBVIOUS
  <1>2. PICK m : m = Len(up')
    OBVIOUS
  <1>3. PICK a : a = Len(Answers(host.cmd))
    OBVIOUS
  <1>4. PICK i : i = host.i
    OBVIOUS
  <1>5. a \in 1 .. 2 /\ n \in Nat /\ m \in Nat /\ n = m + d /\ n >= 1 /\ i \in 1 .. a
    BY <1>1, <1>2, <1>3, <1>4, Counts DEF TypesInv, HostType, HostRecord, Wasted
  <1>6. n - 0 + i <= a + 1 /\ (dev.pc \in {"exec", "reply"} => n = 0)
    BY <1>1, <1>3, <1>4 DEF Answering
  <1>7. /\ m - 0 + i <= a + 1 /\ dev.pc \notin {"exec", "reply"}
        /\ i = 1 /\ m = 0 + 2 => d = 0 /\ 1 \in 1 .. m
        /\ i = 2 /\ m = 0 + 1 => d = 0 /\ 1 \in 1 .. m
        /\ 0 + 1 = 1 /\ i # 0
        /\ m = 0 + 2 => i = 1
    BY <1>5, <1>6
  <1>8. d = 0 /\ 1 \in 1 .. m => ~ChecksumIsOk(up'[1])
    BY <1>2, Zenon DEF Wasted
  <1>9. /\ m = 0 + 2 => ~ChecksumIsOk(up'[0 + 1])
        /\ i = 2 /\ m = 0 + 1 => ~ChecksumIsOk(up'[0 + 1])
    BY <1>7, <1>8
  <1>10. Answering(0, host.i)'
    BY <1>2, <1>3, <1>4, <1>7, <1>9 DEF Answering
  <1>11. AnswersOfRead(0, host.i)'
    BY <1>2, <1>4, <1>9 DEF AnswersOfRead
  <1>12. QED
    BY <1>10, <1>11

LEMMA FaultUp ==
    ASSUME TypesInv, NEW d \in 0 .. 1, Wasted(up, up', d), UNCHANGED <<host, dev, executed, down>>
    PROVE  /\ host.pc = "ack" /\ AckInv => AckInv' /\ (AckTruth => AckTruth')
           /\ host.pc = "read" /\ ReadInv => ReadInv' /\ (ReadTruth => ReadTruth')
           /\ Fresh => Fresh'
  <1>0. host' = host /\ dev' = dev /\ executed' = executed /\ down' = down
    OBVIOUS
  <1>1. \A j \in 1 .. Len(up') :
           /\ j + d \in 1 .. Len(up)
           /\ up'[j].start = up[j + d].start
           /\ up'[j].sum = Zero => up[j + d].sum = Zero
           /\ ChecksumIsOk(up'[j]) => up'[j] = up[j + d]
    BY Zenon DEF Wasted
  <1>2. \A j, k \in 1 .. Len(up') : k + d = j + d => k = j
    BY DEF Wasted
  <1>3. TruthInv => TruthInv'
    <2>1. ASSUME TruthInv, NEW j \in 1 .. Len(up'), ChecksumIsOk(up'[j])
          PROVE  /\ up'[j].body = Body("reply", "fail") => host.cmd # "readserialno"
                 /\ up'[j].body # Body("reply", "fail") => host.cmd \in executed
      <3>1. up'[j] = up[j + d] /\ j + d \in 1 .. Len(up)
        BY <1>1, <2>1, Zenon
      <3>2. QED
        BY <2>1, <3>1 DEF TruthInv
    <2>2. QED
      BY <1>0, <2>1 DEF TruthInv, DevTruth, ChecksumIsOk
  <1>4. ASSUME AckInv
        PROVE  AckInv' /\ (AckTruth => AckTruth')
    <2>1. ASSUME NEW j \in 1 .. Len(up'), ~up'[j].start
          PROVE  /\ j + d \in 1 .. Len(up) /\ ~up[j + d].start
                 /\ \A k \in 1 .. Len(up') : ~up'[k].start => k = j
                 /\ LastPacket => Answering(j, 1)'
      <3>1. j + d \in 1 .. Len(up) /\ ~up[j + d].start
        BY <1>1, <2>1, Zenon
      <3>2. /\ \A k \in 1 .. Len(up) : ~up[k].start => k = j + d
            /\ LastPacket => Answering(j + d, 1)
        BY <1>4, <3>1, Zenon DEF AckInv
      <3>3. \A k \in 1 .. Len(up') : ~up'[k].start => k = j
        BY <1>1, <1>2, <3>2, Zenon
      <3>4. LastPacket => Answering(j, 1)'
        BY <1>0, <3>2, AnswersStay
      <3>5. QED
        BY <3>1, <3>3, <3>4
    <2>2. down # <<>> => \A j \in 1 .. Len(up') : up'[j].start
      BY <1>1, <1>4, Zenon DEF AckInv
    <2>3. OwnCommand'
      BY <1>0, <1>4 DEF AckInv, OwnCommand
    <2>4. Position'
      <3>1. \A j \in 1 .. Len(up') : ~up'[j].start /\ dev.pc = "arg" => host.i = dev.got + 1
        BY <1>4, <2>1, Zenon DEF AckInv, Position
      <3>2. QED
        BY <1>0, <1>4, <3>1 DEF AckInv, Position
    <2>5. AckInv'
      BY <1>0, <1>4, <2>1, <2>2, <2>3, <2>4 DEF AckInv, LastPacket, Wanted
    <2>6. ASSUME AckTruth PROVE AckTruth'
      <3>1. TruthInv'
        BY <1>3, <2>6 DEF AckTruth
      <3>2. \A j \in 1 .. Len(up') : ~up'[j].start => (LastPacket => AnswersOfRead(j, 1)')
        <4>1. ASSUME NEW j \in 1 .. Len(up'), ~up'[j].start, LastPacket
              PROVE  AnswersOfRead(j, 1)'
          <5>1. AnswersOfRead(j + d, 1)
            BY <2>1, <2>6, <4>1, Zenon DEF AckTruth
          <5>2. QED
            BY <1>0, <5>1, AnswersStay
        <4>2. QED
          BY <4>1
      <3>3. QED
        BY <1>0, <2>6, <3>1, <3>2 DEF AckTruth, LastPacket
    <2>7. QED
      BY <2>5, <2>6
  <1>5. ASSUME host.pc = "read", ReadInv
        PROVE  ReadInv' /\ (ReadTruth => ReadTruth')
    <2>1. Answering(0, host.i)' /\ AnswersOfRead(0, host.i)'
      BY <1>0, <1>5, ReadingStays DEF ReadInv
    <2>2. ReadInv'
      BY <1>0, <1>5, <2>1 DEF ReadInv, OwnCommand
    <2>3. ReadTruth => ReadTruth'
      BY <1>0, <1>3, <2>1 DEF ReadTruth
    <2>4. QED
      BY <2>2, <2>3
  <1>6. ASSUME Fresh PROVE Fresh'
    <2>1. ASSUME NEW j \in 1 .. Len(up'), Acknowledges(up'[j], Zero)
          PROVE  \E k \in 1 .. Len(up) : Acknowledges(up[k], Zero)
      BY <1>1, <2>1, Zenon DEF Acknowledges
    <2>2. Recovered' = Recovered
      BY <1>0 DEF Recovered, Ready, Inert, ChecksumIsOk
    <2>3. host'.pc = "settle" \/ (\E j \in 1 .. Len(up') : Acknowledges(up'[j], Zero)) => Recovered'
      BY <1>0, <1>6, <2>1, <2>2 DEF Fresh
    <2>4. NoRename'
      BY <1>0, <1>6 DEF Fresh, NoRename
    <2>5. QED
      BY <1>0, <1>6, <2>3, <2>4 DEF Fresh, Inert, ChecksumIsOk
  <1>7. QED
    BY <1>4, <1>5, <1>6

LEMMA FaultDown ==
    ASSUME TypesInv, LineType', Lost(down, down') \/ Hurt(down, down'),
           UNCHANGED <<host, dev, executed, up>>
    PROVE  /\ AckInv => AckInv' /\ (AckTruth => AckTruth')
           /\ Fresh => Fresh'
  <1>0. host' = host /\ dev' = dev /\ executed' = executed /\ up' = up
    OBVIOUS
  <1>1. down \in Seq(Element) /\ down' \in Seq(Element)
    BY DEF TypesInv, LineType
  <1>2. ASSUME AckInv PROVE AckInv' /\ (AckTruth => AckTruth')
    <2>1. Len(down) = 1
      <3>1. Len(down) >= 1
        BY DEF Lost, Hurt
      <3>2. Len(down) <= 1 /\ Len(down) \in Nat
        BY <1>1, <1>2 DEF AckInv
      <3>3. \A n \in Nat : n >= 1 /\ n <= 1 => n = 1
        OBVIOUS
      <3>4. QED
        BY <3>1, <3>2, <3>3, Zenon
    <2>2. down # <<>> /\ WasSentAs(down[1], Wanted) /\ \A j \in 1 .. Len(up) : up[j].start
      <3>1. down # <<>>
        BY <2>1
      <3>2. QED
        BY <1>2, <3>1 DEF AckInv
    <2>3. Len(down') <= 1 /\ (down' # <<>> => WasSentAs(down'[1], Wanted))
      <3>1. CASE Lost(down, down')
        <4>1. Len(down') = 0
          BY <1>1, <2>1, <3>1 DEF Lost
        <4>2. down' = <<>>
          BY <1>1, <4>1
        <4>3. QED
          BY <4>1, <4>2
      <3>2. CASE Hurt(down, down')
        <4>1. Len(down') <= 1
          BY <2>1, <3>2 DEF Hurt
        <4>2. WasSentAs(down'[1], Wanted)
          BY <2>2, <3>2 DEF Hurt, WasSentAs
        <4>3. QED
          BY <4>1, <4>2
      <3>3. QED
        BY <3>1, <3>2
    <2>4. \A j \in 1 .. Len(up') : up'[j].start
      BY <1>0, <2>2
    <2>5. OwnCommand'
      BY <1>0, <1>2 DEF AckInv, OwnCommand
    <2>6. Position'
      <3>1. dev.pc = "arg" => host.i = dev.got + 2
        BY <1>2, <2>2 DEF AckInv, Position
      <3>2. QED
        BY <1>0, <2>4, <3>1 DEF Position
    <2>7. AckInv'
      BY <1>0, <2>3, <2>4, <2>5, <2>6 DEF AckInv, Wanted
    <2>8. ASSUME AckTruth PROVE AckTruth'
      <3>1. TruthInv'
        BY <1>0, <2>8 DEF AckTruth, TruthInv, DevTruth, ChecksumIsOk
      <3>2. QED
        BY <1>0, <2>4, <2>8, <3>1 DEF AckTruth
    <2>9. QED
      BY <2>7, <2>8
  <1>3. ASSUME Fresh PROVE Fresh'
    <2>1. PICK d \in 0 .. 1 : Wasted(down, down', d)
      BY <1>1, WastedIs
    <2>2. \A j \in 1 .. Len(down') :
             /\ j + d \in 1 .. Len(down)
             /\ down'[j].body = Body("op", "rename") => down[j + d].body = Body("op", "rename")
             /\ ChecksumIsOk(down'[j]) => down'[j] = down[j + d]
      BY <2>1, Zenon DEF Wasted
    <2>3. \A j \in 1 .. Len(down') : Inert(down[j + d]) => Inert(down'[j])
      BY <2>2 DEF Inert
    <2>4. \A j \in 2 .. Len(down') : j \in 1 .. Len(down') /\ j + d \in 2 .. Len(down)
      BY <2>1 DEF Wasted
    <2>5. (\A j \in 2 .. Len(down') : Inert(down'[j])) /\ NoRename'
      <3>1. \A j \in 2 .. Len(down') : Inert(down'[j])
        BY <1>3, <2>3, <2>4, Zenon DEF Fresh
      <3>2. \A j \in 1 .. Len(down') : down'[j].body # Body("op", "rename")
        BY <1>3, <2>2, Zenon DEF Fresh, NoRename
      <3>3. QED
        BY <1>0, <1>3, <3>1, <3>2 DEF Fresh, NoRename
    <2>6. ASSUME Recovered PROVE Recovered'
      <3>1. \A j \in 1 .. Len(down') : Inert(down'[j])
        BY <2>2, <2>3, <2>6, Zenon DEF Recovered
      <3>2. Ready'
        BY <1>0, <2>6 DEF Recovered, Ready
      <3>3. QED
        BY <3>1, <3>2 DEF Recovered, Inert, ChecksumIsOk
    <2>7. QED
      BY <1>0, <1>3, <2>5, <2>6 DEF Fresh, Inert, ChecksumIsOk
  <1>4. QED
    BY <1>2, <1>3

LEMMA FaultStep ==
    ASSUME TypesInv, LinkInv, Fault
    PROVE  LinkInv'
  <1>0. /\ LineType /\ LineType' /\ UNCHANGED <<host, dev, executed>>
        /\ host' = host /\ dev' = dev /\ executed' = executed
    BY FaultIs DEF TypesInv
  <1>1. slips' = slips \cup IF host.pc \in {"resync", "settle"} /\ slips \ Mild # {}
                            THEN {"damaged"} ELSE {}
    BY <1>0, FaultIs
  <1>2. /\ AckInv /\ host.pc = "ack" => AckInv' /\ (AckTruth => AckTruth')
        /\ ReadInv /\ host.pc = "read" => ReadInv' /\ (ReadTruth => ReadTruth')
        /\ Fresh => Fresh'
        /\ ~(host.pc = "idle" /\ Repairable)
    <2>1. ASSUME host.pc = "idle", Repairable PROVE FALSE
      <3>1. Len(down) = 0 /\ Len(up) = 0
        BY <2>1 DEF LinkInv, IdleInv
      <3>2. Lost(down, down') \/ Hurt(down, down') \/ Lost(up, up') \/ Hurt(up, up')
        BY <1>0, FaultIs
      <3>3. QED
        BY <3>1, <3>2 DEF Lost, Hurt
    <2>2. CASE up' = up /\ (Lost(down, down') \/ Hurt(down, down'))
      <3>1. ASSUME ReadInv PROVE FALSE
        <4>1. Len(down) = 0
          BY <3>1 DEF ReadInv
        <4>2. QED
          BY <2>2, <4>1 DEF Lost, Hurt
      <3>2. QED
        BY <1>0, <2>1, <2>2, <3>1, FaultDown
    <2>3. CASE down' = down /\ (Lost(up, up') \/ Hurt(up, up'))
      <3>1. PICK d \in 0 .. 1 : Wasted(up, up', d)
        BY <1>0, <2>3, WastedIs DEF LineType
      <3>2. QED
        BY <1>0, <2>1, <2>3, <3>1, FaultUp
    <2>4. QED
      BY <1>0, <2>2, <2>3, FaultIs
  <1>3. Reasons'
    <2>1. PICK s : s = slips
      OBVIOUS
    <2>2. PICK t : t = slips'
      OBVIOUS
    <2>3. /\ s \subseteq {"late", "unreset", "abort", "unread", "hidden", "mistaken", "damaged"}
          /\ "damaged" \in s => s \cap {"late", "unreset", "abort", "mistaken"} # {}
          /\ (t = s \cup {"damaged"} /\ s \ {"unread", "hidden"} # {}) \/ t = s
      BY <1>1, <2>1, <2>2 DEF TypesInv, PastType, LinkInv, Reasons, Mild
    <2>4. s \subseteq t
      BY <2>3
    <2>5. CASE s \ {"unread", "hidden"} # {}
      <3>1. PICK x \in s : x \notin {"unread", "hidden"}
        BY <2>5
      <3>2. x = "damaged" \/ x \in {"late", "unreset", "abort", "mistaken"}
        BY <2>3, <3>1
      <3>3. s \cap {"late", "unreset", "abort", "mistaken"} # {}
        BY <2>3, <3>2
      <3>4. t \cap {"late", "unreset", "abort", "mistaken"} # {}
        BY <2>4, <3>3
      <3>5. QED
        BY <2>2, <3>4 DEF Reasons
    <2>6. CASE s \ {"unread", "hidden"} = {}
      BY <2>1, <2>2, <2>3, <2>6 DEF LinkInv, Reasons
    <2>7. QED
      BY <2>5, <2>6
  <1>4. /\ Repairable' => Repairable
        /\ slips' = {} => slips = {}
        /\ slips = {} => Repairable
        /\ host.pc \in {"resync", "settle"} /\ "damaged" \notin slips' => Repairable /\ "damaged" \notin slips
    BY <1>1 DEF Repairable, Mild
  <1>5. host.pc \in {"resync", "settle"} => RecoveryInv'
    BY <1>2, <1>4 DEF LinkInv, RecoveryInv
  <1>6. Truthful'
    BY <1>0, <1>4 DEF LinkInv, Truthful, Success
  <1>7. QED
    BY <1>0, <1>2, <1>3, <1>4, <1>5, <1>6 DEF LinkInv

-----------------------------------------------------------------------------
(* Theorems.                                                               *)

\* It holds at the start, and every step keeps it.
LEMMA InitLink == LinkInit => LinkInv
  <1> SUFFICES ASSUME LinkInit PROVE LinkInv
    OBVIOUS
  <1>1. /\ host.pc = "idle" /\ host.result = "none" /\ slips = {} /\ down = <<>> /\ up = <<>>
        /\ dev.pc = "op" /\ dev.got = 0
    BY DEF LinkInit, Idle
  <1>2. QED
    BY <1>1 DEF LinkInv, IdleInv, Reasons, Truthful

LEMMA NextLink ==
    ASSUME TypesInv, LinkInv, [LinkNext]_linkVars
    PROVE  LinkInv'
  <1>1. CASE \E c \in Command : Call(c)
    BY <1>1, CallStep
  <1>2. CASE HostNext
    BY <1>2, HostAckStep, HostReadStep, FailedStep, HostResyncedStep, HostSettleStep DEF HostNext
  <1>3. CASE DevNext
    BY <1>3, DevCommandStep, DevPathStep, DevRenameStep, DevWriteStep, DevExecStep, DevReplyStep DEF DevNext
  <1>4. CASE Abort \/ Fault
    BY <1>4, AbortStep, FaultStep
  <1>5. CASE UNCHANGED linkVars
    <2>1. host' = host /\ dev' = dev /\ down' = down /\ up' = up /\ executed' = executed /\ slips' = slips
      BY <1>5 DEF linkVars
    <2>2. /\ Repairable' = Repairable /\ IdleInv' = IdleInv /\ Reasons' = Reasons /\ Truthful' = Truthful
          /\ OwnCommand' = OwnCommand /\ Ready' = Ready /\ Whole' = Whole /\ NoRename' = NoRename
      BY <2>1 DEF Repairable, IdleInv, Reasons, Truthful, Success, OwnCommand, Ready, Whole, NoRename
    <2>3. AckInv' = AckInv /\ ReadInv' = ReadInv
      BY <2>1, <2>2 DEF AckInv, Position, ReadInv, Answering, Wanted, LastPacket, WasSentAs, ChecksumIsOk
    <2>4. AckTruth' = AckTruth /\ ReadTruth' = ReadTruth
      BY <2>1, <2>2 DEF AckTruth, ReadTruth, TruthInv, DevTruth, AnswersOfRead, LastPacket, ChecksumIsOk
    <2>5. RecoveryInv' = RecoveryInv
      BY <2>1, <2>2 DEF RecoveryInv, Fresh, Recovered, Inert, Arriving, Acknowledges, ChecksumIsOk, Full
    <2>6. QED
      BY <2>1, <2>2, <2>3, <2>4, <2>5 DEF LinkInv
  <1>6. QED
    BY <1>1, <1>2, <1>3, <1>4, <1>5 DEF LinkNext

\* The types the invariant gives are those of the model.
LEMMA TypesSuffice == TypesInv => LinkTypeOK
  <1> SUFFICES ASSUME TypesInv PROVE LinkTypeOK
    OBVIOUS
  <1>1. host \in [pc : {"idle", "ack", "read", "resync", "settle"}, cmd : Command,
                  i : 1..3, tries : 0..(MaxTries - 1), wrong : BOOLEAN,
                  result : Result, open : BOOLEAN]
    BY DEF TypesInv, HostType, HostRecord
  <1>2. /\ dev \in [pc : {"op", "arg", "exec", "reply"}, cmd : Command \cup {"none", "unknown"},
                    got : 0..1, wrong : BOOLEAN, err : {"fail", "zero", "count"}]
        /\ dev.pc = "arg" => TakesArgument(dev.cmd)
    BY DEF TypesInv, DevType, DevRecord
  <1>3. QED
    BY <1>1, <1>2 DEF LinkTypeOK, TypesInv, LineType, PastType

\* The invariant holds: what is on the line fits the place at which the host is
\* and what the device has taken of the command, and the packets of length
\* zero of link_handle_err() bring the two together again.
THEOREM LinkInvariant == LinkSpec => [](TypesInv /\ LinkInv)
  <1>1. LinkInit => TypesInv /\ LinkInv
    BY InitTypes, InitLink
  <1>2. TypesInv /\ LinkInv /\ [LinkNext]_linkVars => (TypesInv /\ LinkInv)'
    BY NextTypes, NextLink
  <1>3. QED
    BY <1>1, <1>2, PTL DEF LinkSpec

\* The variables have their types, whatever is lost or damaged.
THEOREM LinkTypeCorrect == LinkSpec => []LinkTypeOK
  BY LinkInvariant, TypesSuffice, PTL

\* Between calls host and device are in step, for any number of tries, calls,
\* faults, time-outs and kills, unless an answer came late, the host was killed,
\* an error was returned without link_handle_err() or the device took data for a
\* command since the last recovery that ended with a device at its beginning.
THEOREM SidesInStep == LinkSpec => []InStep
  <1>1. LinkInv => InStep
    BY DEF LinkInv, InStep, NothingPending, IdleInv, Repairable
  <1>2. QED
    BY <1>1, LinkInvariant, PTL

\* A call of src/link that succeeds was executed by the device, in that call
\* and with its whole argument, unless a read() of the device failed unseen
\* ("hidden") or one of the slips of InStep was behind it.
THEOREM SuccessIsTruthful == LinkSpec => []Truthful
  <1>1. LinkInv => Truthful
    BY DEF LinkInv
  <1>2. QED
    BY <1>1, LinkInvariant, PTL

=============================================================================
