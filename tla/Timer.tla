------------------------------- MODULE Timer --------------------------------
(***************************************************************************)
(* The quantum of a process (earth/cpu_timer.c).  mtime and mtimecmp are   *)
(* 64-bit registers that the core reads and writes one word at a time      *)
(* while mtime goes on counting; the timer interrupt is pending as long as *)
(* mtime >= mtimecmp and is taken in user mode only.                       *)
(***************************************************************************)
EXTENDS Integers

CONSTANTS
  W,          \* the words of a register hold 0 .. W-1
  QUANTUM,
  NEVER,      \* the deadline that timer_init() sets
  MaxTime     \* bound: the time at which mtime stops counting

(* The high word of a time the machine lives to see is not all ones.       *)
ASSUME TimerAssumption ==
  /\ W \in Nat \ {0} /\ QUANTUM \in Nat /\ NEVER \in Nat /\ MaxTime \in Nat
  /\ MaxTime < NEVER /\ NEVER < W * (W - 1) /\ MaxTime + QUANTUM < W * (W - 1)

Word == 0..(W - 1)

VARIABLES
  mtime,
  cmpLow, cmpHigh,   \* the words of mtimecmp
  pc,                \* what the core does next
  high, low,         \* mtime_get()'s locals
  time,              \* mtimecmp_set()'s argument
  due                \* when the quantum of the running process is over

vars == <<mtime, cmpLow, cmpHigh, pc, high, low, time, due>>

mtimecmp == W * cmpHigh + cmpLow

-----------------------------------------------------------------------------
Tick ==
  /\ mtime < MaxTime
  /\ mtime' = mtime + 1
  /\ UNCHANGED <<cmpLow, cmpHigh, pc, high, low, time, due>>

(* A quantum has passed.                                                   *)
TimerInterrupt ==
  /\ pc = "user" /\ mtime >= mtimecmp
  /\ pc' = "timer"
  /\ UNCHANGED <<mtime, cmpLow, cmpHigh, high, low, time, due>>

(* A system call enters the kernel at any time.                            *)
SystemCall ==
  /\ pc = "user"
  /\ pc' = "syscall"
  /\ UNCHANGED <<mtime, cmpLow, cmpHigh, high, low, time, due>>

(* Control-C: intr_entry() returns without proc_yield(), and the timer     *)
(* that interrupted the process is still pending.                          *)
Killed ==
  /\ pc = "timer"
  /\ pc' = "user"
  /\ UNCHANGED <<mtime, cmpLow, cmpHigh, high, low, time, due>>

(* proc_yield() calls timer_reset() for the next process.                  *)
TimerReset ==
  /\ pc \in {"timer", "syscall"}
  /\ pc' = "high"
  /\ due' = mtime + QUANTUM
  /\ UNCHANGED <<mtime, cmpLow, cmpHigh, high, low, time>>

-----------------------------------------------------------------------------
(* mtime_get()                                                             *)

ReadHigh ==
  /\ pc = "high"
  /\ high' = mtime \div W
  /\ pc' = "low"
  /\ UNCHANGED <<mtime, cmpLow, cmpHigh, low, time, due>>

ReadLow ==
  /\ pc = "low"
  /\ low' = mtime % W
  /\ pc' = "check"
  /\ UNCHANGED <<mtime, cmpLow, cmpHigh, high, time, due>>

(* Mutant: the high word is not read again.                                *)
ReadHighAgain_not ==
  /\ pc = "check"
  /\ pc' = "cmpHigh" /\ time' = W * high + low + QUANTUM
  /\ UNCHANGED <<mtime, cmpLow, cmpHigh, high, low, due>>

(* Mutant: the deadline is now.                                            *)
ReadHighAgain_noQuantum ==
  /\ pc = "check"
  /\ IF mtime \div W = high
     THEN pc' = "cmpHigh" /\ time' = W * high + low
     ELSE pc' = "high" /\ UNCHANGED time
  /\ UNCHANGED <<mtime, cmpLow, cmpHigh, high, low, due>>

(* The loop ends when the high word has not changed.                       *)
ReadHighAgain ==
  /\ pc = "check"
  /\ IF mtime \div W = high
     THEN pc' = "cmpHigh" /\ time' = W * high + low + QUANTUM
     ELSE pc' = "high" /\ UNCHANGED time
  /\ UNCHANGED <<mtime, cmpLow, cmpHigh, high, low, due>>

-----------------------------------------------------------------------------
(* mtimecmp_set(time)                                                      *)

(* Mutant: the high word keeps its old value until the last write.         *)
CmpMax_not ==
  /\ pc = "cmpHigh"
  /\ pc' = "cmpLow"
  /\ UNCHANGED <<mtime, cmpHigh, cmpLow, high, low, time, due>>

(* 0xFFFFFFFF first: no deadline while the words do not belong together.   *)
CmpMax ==
  /\ pc = "cmpHigh"
  /\ cmpHigh' = W - 1
  /\ pc' = "cmpLow"
  /\ UNCHANGED <<mtime, cmpLow, high, low, time, due>>

CmpLow ==
  /\ pc = "cmpLow"
  /\ cmpLow' = time % W
  /\ pc' = "cmpSet"
  /\ UNCHANGED <<mtime, cmpHigh, high, low, time, due>>

(* Mutant: the high word stays at its maximum.                             *)
CmpHigh_not ==
  /\ pc = "cmpSet"
  /\ pc' = "user"
  /\ UNCHANGED <<mtime, cmpHigh, cmpLow, high, low, time, due>>

(* The deadline is set and the kernel returns to the process.              *)
CmpHigh ==
  /\ pc = "cmpSet"
  /\ cmpHigh' = time \div W
  /\ pc' = "user"
  /\ UNCHANGED <<mtime, cmpLow, high, low, time, due>>

-----------------------------------------------------------------------------
(* timer_init() has been called.                                           *)
Init ==
  /\ mtime = 0
  /\ cmpLow \in Word /\ cmpHigh \in Word
  /\ pc = "cmpHigh"
  /\ high = 0 /\ low = 0
  /\ time = NEVER /\ due = NEVER

Core ==
  \/ TimerInterrupt \/ SystemCall \/ Killed \/ TimerReset
  \/ ReadHigh \/ ReadLow \/ ReadHighAgain
  \/ CmpMax \/ CmpLow \/ CmpHigh

Next == Tick \/ Core

Spec == Init /\ [][Next]_vars

(* Time passes, and the core takes the interrupts it has enabled.          *)
FairSpec == Spec /\ WF_vars(Tick) /\ WF_vars(TimerInterrupt)

-----------------------------------------------------------------------------
(* Type correctness of the registers and locals.                           *)
TypeOK ==
  /\ mtime \in 0..MaxTime
  /\ cmpLow \in Word /\ cmpHigh \in Word /\ high \in Word /\ low \in Word
  /\ pc \in {"user", "timer", "syscall", "high", "low", "check", "cmpHigh", "cmpLow", "cmpSet"}
  /\ time \in 0..(W * (W - 1)) /\ due \in 0..(W * (W - 1))

Setting == pc \in {"cmpHigh", "cmpLow", "cmpSet"}

(* mtime_get() returns a time at which it was executing, although it reads *)
(* the two words at different times: the deadline is never before the end  *)
(* of the quantum, and never further away than a quantum from now.         *)
DeadlineIsCurrent == Setting /\ time # NEVER => due <= time /\ time <= mtime + QUANTUM

(* A process is interrupted by the timer only after its whole quantum.     *)
FullQuantum == pc = "user" /\ mtime >= mtimecmp => mtime >= due

(* No timer interrupt is pending while mtimecmp holds words of two times.  *)
QuietWhileSet == pc \in {"cmpLow", "cmpSet"} => mtime < mtimecmp

(* The inductive invariant: what each word that has been read or written   *)
(* says about the time at which it was.                                    *)
TimerInv ==
  /\ TypeOK
  /\ time = NEVER \/ time <= MaxTime + QUANTUM
  /\ pc \in {"high", "low", "check"} => due <= mtime + QUANTUM
  /\ pc \in {"low", "check"} => W * high <= mtime
  /\ pc = "check" => \E t \in 0..mtime :
       W * high <= t /\ low = t % W /\ due <= t + QUANTUM
  /\ Setting => time = NEVER \/ (due <= time /\ time <= mtime + QUANTUM)
  /\ pc \in {"cmpLow", "cmpSet"} => cmpHigh = W - 1
  /\ pc = "cmpSet" => cmpLow = time % W
  /\ pc \in {"user", "timer", "syscall"} =>
       mtimecmp = time /\ (time = NEVER \/ due <= time)

(* A process with a deadline is interrupted.                               *)
Preempted == pc = "user" /\ time <= MaxTime ~> pc # "user"
=============================================================================
