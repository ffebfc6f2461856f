------------------------------ MODULE MCKernel ------------------------------
(* Kernel for TLC, on instances that each keep one of its difficulties:    *)
(* every pattern of sends and receives between three processes (Ipc), and  *)
(* processes that are killed and replaced while others talk to them        *)
(* (Reuse).                                                                *)
EXTENDS KernelInv

Others(p) == 1..(MAX_NPROCESS - 1) \ {p}

(* Calls on another schedulable process; Msg is a set of pids and a        *)
(* message carries its sender's, so that no two messages are alike.  One   *)
(* process also receives from a given sender only: the slots are visited   *)
(* in a circle, so it matters little which.                                *)
IpcUser ==
  \E p \in 1..(MAX_NPROCESS - 1) :
    \/ \E r \in Others(p) : SysSend(p, r, p)
    \/ SysRecv(p, GPID_ALL)
    \/ p = 2 /\ \E f \in Others(p) : SysRecv(p, f)
    \/ SysReturn(p)

(* GPID_PROCESS has loaded every other process that can be scheduled.      *)
Loaded == 1..(MAX_NPROCESS - 1)

IpcInit ==
  /\ pid = [i \in Slots |-> IF i \in Loaded THEN i ELSE 0]
  /\ status = [i \in Slots |-> CASE i = GPID_PROCESS -> "RUNNING"
                                [] i \in Loaded \ {GPID_PROCESS} -> "READY"
                                [] OTHER -> "UNUSED"]
  /\ syscall = [i \in Slots |-> NoSyscall]
  /\ curr = GPID_PROCESS
  /\ kpc = "user"
  /\ scan = 1
  /\ progress = 0
  /\ usc = [i \in Slots |-> NoSyscall]
  /\ upc = [i \in Slots |-> "run"]
  /\ mapped = Loaded
  /\ mgmt = [op |-> "none", idx |-> 0]

IpcNext == IpcUser \/ IntrSoft \/ IntrTimer \/ Handler \/ Spin

IpcSpec == IpcInit /\ [][IpcNext]_vars

IpcFairSpec == IpcSpec /\ Fairness

(* User processes talk to each other; GPID_PROCESS frees them, one or all, *)
(* and replaces them.                                                      *)
ReuseUser ==
  \E p \in GPID_USER_START..(MAX_NPROCESS - 1) :
    \/ \E r \in Others(p) \ {GPID_PROCESS} : SysSend(p, r, p)
    \/ SysRecv(p, GPID_ALL)
    \/ SysReturn(p)

ReuseNext == ReuseUser \/ Manage \/ Interrupt \/ Handler \/ Spin

ReuseSpec == Init /\ [][ReuseNext]_vars
=============================================================================
