----------------------------- MODULE KernelInv ------------------------------
(***************************************************************************)
(* The inductive invariant of Kernel.  NoLostWakeup speaks of user mode    *)
(* only; inside the handler the pairs that could still meet are tied to    *)
(* the current process and to the part of the table the scan has yet to    *)
(* visit, and that is what the steps of the handler preserve.              *)
(***************************************************************************)
EXTENDS KernelIpc

(* The slots that clear_pending_syscalls() and round_robin() visit.        *)
Scanned == 0..(MAX_NPROCESS - 1)

(* A slot in use holds the pid that proc_alloc() gives it; slot 0 is never *)
(* used, slot MAX_NPROCESS never gets past loading.                        *)
SlotInv ==
  /\ \A i \in Slots : pid[i] \in {0, i}
  /\ \A i \in Slots : status[i] # "UNUSED" => i \in Pids /\ pid[i] = i
  /\ status[MAX_NPROCESS] \in {"UNUSED", "LOADING"}
  /\ curr \in 1..(MAX_NPROCESS - 1)
  /\ pid[curr] = curr

(* Who is RUNNING, by place in the handler.                                *)
CoreInv ==
  /\ kpc = "user" => \A i \in Slots : status[i] = "RUNNING" <=> i = curr
  /\ kpc = "try" => Blocked(curr) /\ syscall[curr].status = "PENDING"
  /\ kpc = "yield" => \A i \in Slots : status[i] = "RUNNING" => i = curr
  /\ kpc \in {"try", "scan", "sched"} => \A i \in Slots : status[i] # "RUNNING"
  /\ progress < scan

IsCall(c) ==
  \/ c.type = "SYS_SEND" /\ c.peer \in Pids /\ c.content \in Msg
  \/ c.type = "SYS_RECV" /\ c.peer \in Pids \cup {GPID_ALL}

(* A process between the writes to *sc and the end of trap()'s wait loop.  *)
CallInv ==
  \A i \in Slots :
    /\ Blocked(i) =>
         /\ upc[i] = "poll"
         /\ IsCall(syscall[i])
         /\ usc[i].type = syscall[i].type
         /\ syscall[i].status \in {"PENDING", "DONE"}
         /\ syscall[i].type = "SYS_SEND" => syscall[i].status = "PENDING"
    /\ status[i] \in {"RUNNING", "RUNNABLE"} =>
         /\ upc[i] = "trap" => IsCall(usc[i])
         /\ upc[i] = "poll" => usc[i].status = "DONE"

(* A message the kernel holds for d came from the sender d will wake.      *)
DeliverInv ==
  \A d \in Slots : Delivered(d) =>
    \E s \in Slots :
      /\ s = syscall[d].peer
      /\ Blocked(s)
      /\ syscall[s].type = "SYS_SEND"
      /\ syscall[s].peer = d
      /\ syscall[d].content = syscall[s].content
      /\ usc[s].status = "DONE"

ToScan(i) == \E j \in scan..MAX_NPROCESS : SlotAt(j) = i

(* Where a message can be held or a pair left to meet.                     *)
WakeInv ==
  /\ kpc \in {"user", "try", "sched"} => \A d \in Slots : ~Delivered(d)
  /\ kpc \in {"user", "sched"} => \A s, d \in Slots : ~Meets(s, d)
  /\ kpc = "try" => \A s, d \in Slots : Meets(s, d) => curr \in {s, d}
  /\ kpc = "yield" => \A s, d \in Slots : Meets(s, d) => d = curr
  /\ kpc = "scan" =>
       /\ \A d \in Slots : Delivered(d) => ToScan(d)
       /\ \A s, d \in Slots : Meets(s, d) => d = curr /\ ToScan(s)

(* What GPID_PROCESS is working on is there, and is not GPID_PROCESS.      *)
MgmtInv ==
  /\ mgmt.op \in {"load", "loaded"} => mgmt.idx \in Pids /\ status[mgmt.idx] = "LOADING"
  /\ mgmt.op = "free" => mgmt.idx \in Pids /\ mgmt.idx >= GPID_USER_START
  /\ mgmt.op = "killmark" => mgmt.idx < MAX_NPROCESS /\ mgmt.idx >= GPID_USER_START

(* The inductive invariant.                                                *)
KernelInv ==
  TypeOK /\ SlotInv /\ CoreInv /\ CallInv /\ DeliverInv /\ WakeInv /\ MgmtInv
=============================================================================
