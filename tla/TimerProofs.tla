---------------------------- MODULE TimerProofs -----------------------------
(***************************************************************************)
(* The quantum is kept for every word size, quantum and instant at which   *)
(* the registers are read and written.                                     *)
(***************************************************************************)
EXTENDS Timer, TLAPS

USE TimerAssumption DEF Word

(* The words of a time that fits into the register.                        *)
LEMMA Words ==
  ASSUME NEW t \in Nat
  PROVE  /\ t \div W \in Nat /\ t % W \in Word
         /\ t = W * (t \div W) + (t % W)
  OBVIOUS

(* Multiplying by the word size keeps the order.                           *)
LEMMA Order ==
  ASSUME NEW a \in Nat, NEW b \in Nat
  PROVE  /\ a <= b => W * a <= W * b
         /\ a < b => W * a + W <= W * b
  OBVIOUS
(* A time below the last value of the high word has a high word that is    *)
(* not the last.                                                           *)
LEMMA HighWord ==
  ASSUME NEW t \in Nat, t <= W * (W - 1)
  PROVE  t \div W \in Word
<1>1. t \div W \in Nat /\ W * (t \div W) <= t
  BY Words
<1>2. ~(W - 1 < t \div W)
  <2>1. W - 1 < t \div W => W * (W - 1) + W <= W * (t \div W)
    BY <1>1, Order
  <2> QED
    BY <1>1, <2>1
<1> QED
  BY <1>1, <1>2

(* The heart of mtime_get(): if the high word of a later time is the one   *)
(* that was read first, the low word that was read in between belongs to   *)
(* the same time.                                                          *)
LEMMA SameHigh ==
  ASSUME NEW h \in Nat, NEW t \in Nat, NEW u \in Nat,
         W * h <= t, t <= u, u \div W = h
  PROVE  W * h + (t % W) = t
<1>1. /\ t \div W \in Nat /\ t % W \in Word /\ t = W * (t \div W) + (t % W)
      /\ u % W \in Word /\ u = W * h + (u % W)
  BY Words
<1>2. ~(t \div W < h)
  BY <1>1, Order
<1>3. ~(h < t \div W)
  BY <1>1, Order
<1>4. t \div W = h
  BY <1>1, <1>2, <1>3
<1> QED
  BY <1>1, <1>4

(* timer_init() has been called and has not yet written a register.        *)
LEMMA InitInv == Init => TimerInv
<1> SUFFICES ASSUME Init PROVE TimerInv
  OBVIOUS
<1>1. TypeOK
  BY DEF Init, TypeOK
<1> QED
  BY <1>1 DEF Init, TimerInv, Setting

(* Time passes at any moment.                                              *)
LEMMA TickInv == TimerInv /\ Tick => TimerInv'
<1> SUFFICES ASSUME TimerInv, Tick PROVE TimerInv'
  OBVIOUS
<1>1. /\ mtime' = mtime + 1 /\ mtime' \in 0..MaxTime
      /\ UNCHANGED <<cmpLow, cmpHigh, pc, high, low, time, due, mtimecmp>>
  BY DEF Tick, TimerInv, TypeOK, mtimecmp
<1>2. TypeOK'
  BY <1>1 DEF TimerInv, TypeOK
<1>3. mtime \in Nat /\ time \in Nat /\ due \in Nat /\ W * high \in Nat
  BY DEF TimerInv, TypeOK
<1>4. ASSUME pc' = "check"
      PROVE  \E t \in 0..mtime' : W * high' <= t /\ low' = t % W /\ due' <= t + QUANTUM
  <2>1. PICK t \in 0..mtime : W * high <= t /\ low = t % W /\ due <= t + QUANTUM
    BY <1>1, <1>4 DEF TimerInv
  <2> QED
    BY <1>1, <1>3, <2>1
<1> QED
  BY <1>1, <1>2, <1>3, <1>4 DEF TimerInv, Setting
(* Every register access of the core, and its traps and returns.           *)
LEMMA CoreInv == TimerInv /\ Core => TimerInv'
<1> SUFFICES ASSUME TimerInv, Core PROVE TimerInv'
  OBVIOUS
<1>1. /\ mtime \in Nat /\ mtime <= MaxTime /\ mtime' = mtime
      /\ cmpLow \in Word /\ cmpHigh \in Word /\ high \in Word /\ low \in Word
      /\ time \in Nat /\ time < W * (W - 1) /\ due \in 0..(W * (W - 1))
      /\ W * high \in Nat
  BY DEF TimerInv, TypeOK, Core, TimerInterrupt, SystemCall, Killed, TimerReset,
         ReadHigh, ReadLow, ReadHighAgain, CmpMax, CmpLow, CmpHigh
<1>2. mtime \div W \in Word /\ W * (mtime \div W) <= mtime /\ mtime % W \in Word
  <2>1. mtime \in Nat /\ mtime <= W * (W - 1)
    BY <1>1
  <2>2. mtime \div W \in Word
    BY <2>1, HighWord
  <2>3. mtime % W \in Word /\ mtime = W * (mtime \div W) + (mtime % W)
    BY <2>1, Words
  <2> QED
    BY <2>2, <2>3
<1>3. CASE TimerInterrupt \/ SystemCall \/ Killed
  <2>1. /\ pc \in {"user", "timer"} /\ pc' \in {"user", "timer", "syscall"}
        /\ UNCHANGED <<cmpLow, cmpHigh, high, low, time, due, mtimecmp>>
    BY <1>3 DEF TimerInterrupt, SystemCall, Killed, mtimecmp
  <2> QED
    BY <1>1, <2>1 DEF TimerInv, TypeOK, Setting
<1>4. CASE TimerReset
  <2>1. due' = mtime + QUANTUM /\ due' \in 0..(W * (W - 1))
    BY <1>1, <1>4 DEF TimerReset
  <2> QED
    BY <1>1, <1>4, <2>1 DEF TimerReset, TimerInv, TypeOK, Setting
<1>5. CASE ReadHigh
  BY <1>1, <1>2, <1>5 DEF ReadHigh, TimerInv, TypeOK, Setting
<1>6. CASE ReadLow
  <2>1. \E t \in 0..mtime' : W * high' <= t /\ low' = t % W /\ due' <= t + QUANTUM
    BY <1>1, <1>6 DEF ReadLow, TimerInv
  <2> QED
    BY <1>1, <1>2, <1>6, <2>1 DEF ReadLow, TimerInv, TypeOK, Setting
<1>7. CASE ReadHighAgain
  <2>1. PICK t \in 0..mtime : W * high <= t /\ low = t % W /\ due <= t + QUANTUM
    BY <1>7 DEF ReadHighAgain, TimerInv
  <2>2. CASE mtime \div W = high
    <3>1. W * high + low = t
      <4>1. high \in Nat /\ t \in Nat /\ t <= mtime
        BY <1>1, <2>1
      <4> QED
        BY <1>1, <2>1, <2>2, <4>1, SameHigh
    <3>2. /\ time' = t + QUANTUM /\ pc' = "cmpHigh"
          /\ UNCHANGED <<cmpLow, cmpHigh, high, low, due>>
      BY <1>7, <2>2, <3>1 DEF ReadHighAgain
    <3>3. time' \in 0..(W * (W - 1)) /\ time' <= MaxTime + QUANTUM
      BY <1>1, <2>1, <3>2
    <3> QED
      BY <1>1, <2>1, <3>2, <3>3 DEF TimerInv, TypeOK, Setting
  <2>3. CASE mtime \div W # high
    BY <1>1, <1>7, <2>3 DEF ReadHighAgain, TimerInv, TypeOK, Setting
  <2> QED
    BY <2>2, <2>3
<1>8. CASE CmpMax
  BY <1>1, <1>8 DEF CmpMax, TimerInv, TypeOK, Setting
<1>9. CASE CmpLow
  <2>1. time % W \in Word
    BY <1>1, Words
  <2> QED
    BY <1>1, <1>9, <2>1 DEF CmpLow, TimerInv, TypeOK, Setting
<1>10. CASE CmpHigh
  <2>1. time \div W \in Word /\ W * (time \div W) + (time % W) = time
    <3>1. time \in Nat /\ time <= W * (W - 1)
      BY <1>1
    <3>2. time \div W \in Word
      BY <3>1, HighWord
    <3>3. time = W * (time \div W) + (time % W)
      BY <3>1, Words
    <3> QED
      BY <3>2, <3>3
  <2>2. /\ cmpHigh' = time \div W /\ cmpLow' = time % W /\ pc' = "user"
        /\ UNCHANGED <<high, low, time, due>>
    BY <1>10 DEF CmpHigh, TimerInv
  <2>3. mtimecmp' = time
    BY <2>1, <2>2 DEF mtimecmp
  <2>4. TypeOK'
    BY <1>1, <2>1, <2>2, Words DEF TimerInv, TypeOK
  <2> QED
    BY <1>1, <1>10, <2>2, <2>3, <2>4 DEF CmpHigh, TimerInv, Setting
<1> QED
  BY <1>3, <1>4, <1>5, <1>6, <1>7, <1>8, <1>9, <1>10 DEF Core

(* The inductive invariant of the timer driver: see TimerInv.              *)
THEOREM TimerInvariance == Spec => []TimerInv
<1>1. TimerInv /\ [Next]_vars => TimerInv'
  <2> SUFFICES ASSUME TimerInv, [Next]_vars PROVE TimerInv'
    OBVIOUS
  <2>1. CASE Next
    BY <2>1, TickInv, CoreInv DEF Next
  <2>2. CASE UNCHANGED vars
    <3>1. mtimecmp' = mtimecmp
      BY <2>2 DEF vars, mtimecmp
    <3> QED
      BY <2>2, <3>1 DEF vars, TimerInv, TypeOK, Setting
  <2> QED
    BY <2>1, <2>2
<1> QED
  BY <1>1, InitInv, PTL DEF Spec

(* The deadline is computed from a time at which mtime_get() was           *)
(* executing: see DeadlineIsCurrent.                                       *)
THEOREM DeadlinesAreCurrent == Spec => []DeadlineIsCurrent
<1>1. TimerInv => DeadlineIsCurrent
  BY DEF TimerInv, DeadlineIsCurrent
<1> QED
  BY <1>1, TimerInvariance, PTL

(* A process is interrupted only after its whole quantum: see FullQuantum. *)
THEOREM QuantumIsKept == Spec => []FullQuantum
<1>1. TimerInv => FullQuantum
  BY DEF TimerInv, TypeOK, FullQuantum
<1> QED
  BY <1>1, TimerInvariance, PTL

(* mtimecmp never raises an interrupt while it is being set: see           *)
(* QuietWhileSet.                                                          *)
THEOREM QuietWhileBeingSet == Spec => []QuietWhileSet
<1>1. TimerInv => QuietWhileSet
  <2> SUFFICES ASSUME TimerInv, pc \in {"cmpLow", "cmpSet"} PROVE mtime < mtimecmp
    BY DEF QuietWhileSet
  <2>1. cmpHigh = W - 1 /\ cmpLow \in Word /\ mtime \in 0..MaxTime
    BY DEF TimerInv, TypeOK
  <2> QED
    BY <2>1 DEF mtimecmp
<1> QED
  BY <1>1, TimerInvariance, PTL
=============================================================================
