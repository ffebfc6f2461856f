------------------------------- MODULE Kernel -------------------------------
(***************************************************************************)
(* The grass kernel: the process table, the trap handler, the scheduler    *)
(* and the blocking send/receive system calls (grass/kernel.c, process.c,  *)
(* scheduler.c, ipc.c), together with the user side of a system call       *)
(* (library/syscall/syscall.c) and the calls by which GPID_PROCESS creates *)
(* and frees processes (apps/system/sys_proc.c calls grass->proc_alloc,    *)
(* proc_set_ready and proc_free as plain functions, interrupts enabled).   *)
(*                                                                         *)
(* There is one core (Makefile: -smp 1).  While kpc = "user" it executes   *)
(* the process in slot curr, one action per user-level step, and an        *)
(* interrupt may arrive between any two of them.  The other values of kpc  *)
(* are places in the trap handler: it runs with interrupts disabled, so    *)
(* exactly one action is enabled there and the handler runs to its end.    *)
(***************************************************************************)
EXTENDS Integers

CONSTANTS
  MAX_NPROCESS,      \* slots are 0..MAX_NPROCESS, see proc_set in kernel.c
  GPID_USER_START,   \* the first pid that is not a system process
  Msg,               \* message contents
  NoMsg              \* a content field nothing has been written to

ASSUME KernelAssumption ==
  /\ MAX_NPROCESS \in Nat /\ MAX_NPROCESS > 1
  /\ GPID_USER_START \in Nat /\ GPID_USER_START > 1

VARIABLES
  pid,       \* proc_set[i].pid
  status,    \* proc_set[i].status
  syscall,   \* proc_set[i].syscall, the kernel's copy
  curr,      \* core_to_proc_idx[0]
  kpc,       \* "user", or where the core is in the trap handler
  scan,      \* clear_pending_syscalls: loop index i
  progress,  \* clear_pending_syscalls: progress
  usc,       \* the struct syscall at SYSCALL_ARG in each process's memory
  upc,       \* where each process is in its user code
  mapped,    \* pids that own pages in page_info_table (mem_soft_tlb.c)
  mgmt       \* what GPID_PROCESS is doing inside proc_alloc .. proc_free

procVars == <<pid, status, syscall>>
coreVars == <<curr, kpc, scan, progress>>
userVars == <<usc, upc, mapped, mgmt>>
vars == <<pid, status, syscall, curr, kpc, scan, progress,
          usc, upc, mapped, mgmt>>

-----------------------------------------------------------------------------
GPID_ALL == -1
GPID_PROCESS == 1

Slots == 0..MAX_NPROCESS
Pids == 1..MAX_NPROCESS

(* enum proc_status; PROC_SLEEPING is declared in process.h but never set. *)
ProcStatus == {"UNUSED", "LOADING", "READY", "RUNNING", "RUNNABLE",
               "PENDING_SYSCALL"}

(* struct syscall.  peer is the receiver field of a send and the sender    *)
(* field of a receive: neither kind of call ever reads the other field.    *)
Syscall == [type : {"NONE", "SYS_SEND", "SYS_RECV"},
            peer : Pids \cup {GPID_ALL, 0},
            content : Msg \cup {NoMsg},
            status : {"NONE", "PENDING", "DONE"}]

(* Where GPID_PROCESS is in its process management, and the slot concerned.*)
Mgmt == [op : {"none", "load", "loaded", "full", "free", "killall", "killmark"},
         idx : Slots]

(* A zeroed struct: .bss in the kernel, a cleared page in user memory.     *)
NoSyscall == [type |-> "NONE", peer |-> 0, content |-> NoMsg, status |-> "NONE"]

(* proc_set_status(): the loop stops before slot MAX_NPROCESS.             *)
SetStatus(st, p, s) ==
  [i \in Slots |-> IF i < MAX_NPROCESS /\ pid[i] = p THEN s ELSE st[i]]

Halted == kpc \in {"fatal", "wild"}

-----------------------------------------------------------------------------
(* The user side: what the running process does between interrupts.        *)

Running(p) == kpc = "user" /\ curr = p

(* GPID_PROCESS makes no system call while it is inside proc_free; it does *)
(* make some while it loads a program (app_read sends to GPID_FILE).       *)
InUserCode(p) ==
  /\ Running(p)
  /\ upc[p] = "run"
  /\ p = GPID_PROCESS => mgmt.op \in {"none", "load", "loaded"}

(* sys_send() up to the store to CLINT_MSIP in trap().                     *)
SysSend(p, receiver, msg) ==
  /\ InUserCode(p)
  /\ usc' = [usc EXCEPT ![p] = [type |-> "SYS_SEND", peer |-> receiver,
                                content |-> msg, status |-> "PENDING"]]
  /\ upc' = [upc EXCEPT ![p] = "trap"]
  /\ UNCHANGED <<procVars, coreVars, mapped, mgmt>>

(* sys_recv() up to the store to CLINT_MSIP in trap().  The stale content  *)
(* it leaves in the struct is overwritten before anyone reads it.          *)
SysRecv(p, from) ==
  /\ InUserCode(p)
  /\ usc' = [usc EXCEPT ![p] = [type |-> "SYS_RECV", peer |-> from,
                                content |-> NoMsg, status |-> "PENDING"]]
  /\ upc' = [upc EXCEPT ![p] = "trap"]
  /\ UNCHANGED <<procVars, coreVars, mapped, mgmt>>

(* The wait loop of trap() ends and sys_send() or sys_recv() returns to    *)
(* its caller with the result.  No later step reads *sc before it is       *)
(* written again, so it is shown as empty from here on.                    *)
SysReturn(p) ==
  /\ Running(p)
  /\ upc[p] = "poll"
  /\ usc[p].status # "PENDING"
  /\ upc' = [upc EXCEPT ![p] = "run"]
  /\ usc' = [usc EXCEPT ![p] = NoSyscall]
  /\ UNCHANGED <<procVars, coreVars, mapped, mgmt>>

-----------------------------------------------------------------------------
(* GPID_PROCESS managing processes.  Each function runs in its user code,  *)
(* so a timer interrupt may fall between any two of these actions.         *)

Managing(op) == Running(GPID_PROCESS) /\ upc[GPID_PROCESS] = "run" /\ mgmt.op = op

(* proc_alloc(): the first unused slot, slot MAX_NPROCESS included.        *)
ProcAlloc ==
  /\ Managing("none")
  /\ \E i \in Pids :
       /\ status[i] = "UNUSED"
       /\ \A j \in Pids : j < i => status[j] # "UNUSED"
       /\ pid' = [pid EXCEPT ![i] = i]
       /\ status' = [status EXCEPT ![i] = "LOADING"]
       /\ mgmt' = [op |-> "load", idx |-> i]
  /\ UNCHANGED <<syscall, coreVars, usc, upc, mapped>>

(* proc_alloc() with no slot left: FATAL() loops in GPID_PROCESS itself.   *)
ProcAllocFull ==
  /\ Managing("none")
  /\ \A i \in Pids : status[i] # "UNUSED"
  /\ mgmt' = [op |-> "full", idx |-> 0]
  /\ UNCHANGED <<procVars, coreVars, usc, upc, mapped>>

(* elf_load(): the pages it maps come cleared from pmalloc(1), the page    *)
(* that holds the struct syscall included.                                 *)
ElfLoad ==
  /\ Managing("load")
  /\ mapped' = mapped \cup {mgmt.idx}
  /\ usc' = [usc EXCEPT ![mgmt.idx] = NoSyscall]
  /\ mgmt' = [mgmt EXCEPT !.op = "loaded"]
  /\ UNCHANGED <<procVars, coreVars, upc>>

ProcSetReady ==
  /\ Managing("loaded")
  /\ status' = SetStatus(status, mgmt.idx, "READY")
  /\ mgmt' = [op |-> "none", idx |-> 0]
  /\ UNCHANGED <<pid, syscall, coreVars, usc, upc, mapped>>

(* proc_free(pid), first earth->mmu_free(pid) ...                          *)
ProcFree(p) ==
  /\ Managing("none")
  /\ p >= GPID_USER_START
  /\ status[p] # "UNUSED"
  /\ mapped' = mapped \ {p}
  /\ mgmt' = [op |-> "free", idx |-> p]
  /\ UNCHANGED <<procVars, coreVars, usc, upc>>

(* ... then proc_set_status(pid, PROC_UNUSED).                             *)
ProcFreeMark ==
  /\ Managing("free")
  /\ status' = SetStatus(status, mgmt.idx, "UNUSED")
  /\ mgmt' = [op |-> "none", idx |-> 0]
  /\ UNCHANGED <<pid, syscall, coreVars, usc, upc, mapped>>

(* proc_free(GPID_ALL): mgmt.idx is the loop index i.                      *)
KillAll ==
  /\ Managing("none")
  /\ mgmt' = [op |-> "killall", idx |-> 0]
  /\ UNCHANGED <<procVars, coreVars, usc, upc, mapped>>

(* Mutant: the test for a system process is left out.                      *)
IsLiveUser_anyPid(i) == status[i] # "UNUSED"

IsLiveUser(i) == pid[i] >= GPID_USER_START /\ status[i] # "UNUSED"

(* Mutant: the loop of proc_free(GPID_ALL) runs one slot too far.          *)
KillAllFree_offByOne ==
  /\ Managing("killall")
  /\ mgmt.idx <= MAX_NPROCESS
  /\ IF IsLiveUser(mgmt.idx)
     THEN /\ mapped' = mapped \ {pid[mgmt.idx]}
          /\ mgmt' = [mgmt EXCEPT !.op = "killmark"]
     ELSE /\ mgmt' = [mgmt EXCEPT !.idx = @ + 1]
          /\ UNCHANGED mapped
  /\ UNCHANGED <<procVars, coreVars, usc, upc>>

KillAllFree ==
  /\ Managing("killall")
  /\ mgmt.idx < MAX_NPROCESS
  /\ IF IsLiveUser(mgmt.idx)
     THEN /\ mapped' = mapped \ {pid[mgmt.idx]}
          /\ mgmt' = [mgmt EXCEPT !.op = "killmark"]
     ELSE /\ mgmt' = [mgmt EXCEPT !.idx = @ + 1]
          /\ UNCHANGED mapped
  /\ UNCHANGED <<procVars, coreVars, usc, upc>>

KillAllMark ==
  /\ Managing("killmark")
  /\ status' = [status EXCEPT ![mgmt.idx] = "UNUSED"]
  /\ mgmt' = [op |-> "killall", idx |-> mgmt.idx + 1]
  /\ UNCHANGED <<pid, syscall, coreVars, usc, upc, mapped>>

KillAllEnd ==
  /\ Managing("killall")
  /\ mgmt.idx = MAX_NPROCESS
  /\ mgmt' = [op |-> "none", idx |-> 0]
  /\ UNCHANGED <<procVars, coreVars, usc, upc, mapped>>

-----------------------------------------------------------------------------
(* grass/ipc.c.  These are the parts of an action that the handler takes   *)
(* in one of two places; next is where it goes on from there.              *)

(* The slots proc_try_send() finds for the receiver.                       *)
Dst(s) == {i \in 0..(MAX_NPROCESS - 1) :
             pid[i] = syscall[s].peer /\ status[i] # "UNUSED"}

(* Mutant: the sender that the receiver asks for is not compared.          *)
Accepts_anySender(d, s) ==
  syscall[d].type = "SYS_RECV" /\ syscall[d].status = "PENDING"

(* dst is receiving and takes a message from the sender in slot s.         *)
Accepts(d, s) ==
  /\ syscall[d].type = "SYS_RECV"
  /\ syscall[d].status = "PENDING"
  /\ syscall[d].peer \in {GPID_ALL, pid[s]}

(* Mutant: the sender's own copy of the call is not marked as done.        *)
proc_try_send_senderPending(s, next) ==
  /\ kpc' = IF Dst(s) = {} THEN "fatal" ELSE next
  /\ syscall' = [d \in Slots |->
       IF d \in Dst(s) /\ Accepts(d, s)
       THEN [type |-> syscall[d].type, peer |-> pid[s],
             content |-> syscall[s].content, status |-> "DONE"]
       ELSE syscall[d]]
  /\ UNCHANGED usc

proc_try_send(s, next) ==
  \/ /\ Dst(s) = {}
     /\ kpc' = "fatal"
     /\ UNCHANGED <<syscall, usc>>
  \/ /\ kpc' = next
     /\ \E d \in Dst(s) :
          /\ \A e \in Dst(s) : d <= e
          /\ IF Accepts(d, s)
             THEN /\ syscall' = [syscall EXCEPT
                       ![d] = [type |-> @.type, peer |-> pid[s],
                               content |-> syscall[s].content,
                               status |-> "DONE"]]
                  /\ usc' = [usc EXCEPT ![s].status = "DONE"]
             ELSE UNCHANGED <<syscall, usc>>

(* Mutant: the sender of the message is not made runnable.                 *)
proc_try_recv_receiverOnly(r) ==
  IF syscall[r].status = "PENDING"
  THEN UNCHANGED <<usc, status>>
  ELSE /\ usc' = [usc EXCEPT ![r] = [syscall[r] EXCEPT !.status = "DONE"]]
       /\ status' = SetStatus(status, pid[r], "RUNNABLE")

proc_try_recv(r) ==
  IF syscall[r].status = "PENDING"
  THEN UNCHANGED <<usc, status>>
  ELSE /\ usc' = [usc EXCEPT ![r] = [syscall[r] EXCEPT !.status = "DONE"]]
       /\ status' = SetStatus(SetStatus(status, pid[r], "RUNNABLE"),
                              syscall[r].peer, "RUNNABLE")

(* A process only traps after sys_send() or sys_recv() has set the type,   *)
(* so the default case of the switch has no counterpart here.              *)
proc_try_syscall(p, next) ==
  \/ /\ syscall[p].type = "SYS_RECV"
     /\ proc_try_recv(p)
     /\ kpc' = next
     /\ UNCHANGED syscall
  \/ /\ syscall[p].type = "SYS_SEND"
     /\ proc_try_send(p, next)
     /\ UNCHANGED status

-----------------------------------------------------------------------------
(* grass/kernel.c and grass/scheduler.c: the trap handler.                 *)

(* intr_entry(INTR_ID_SOFT_M) up to proc_set_pending().  The wait loop in  *)
(* trap() re-reads sc->status, so the instruction of that loop which       *)
(* mepc += 4 steps over makes no difference at this grain.                 *)
IntrSoft ==
  /\ kpc = "user"
  /\ upc[curr] = "trap"
  /\ syscall' = [syscall EXCEPT ![curr] = [usc[curr] EXCEPT !.status = "PENDING"]]
  /\ status' = SetStatus(status, pid[curr], "PENDING_SYSCALL")
  /\ upc' = [upc EXCEPT ![curr] = "poll"]
  /\ kpc' = "try"
  /\ UNCHANGED <<pid, curr, scan, progress, usc, mapped, mgmt>>

(* proc_try_syscall(&proc_set[curr_proc_idx]) in intr_entry().             *)
IntrSoftTry ==
  /\ kpc = "try"
  /\ proc_try_syscall(curr, "yield")
  /\ UNCHANGED <<pid, curr, scan, progress, upc, mapped, mgmt>>

(* intr_entry(INTR_ID_TIMER) when no control-C is read; a character that   *)
(* is read and is not control-C is dropped.  It may arrive anywhere, also  *)
(* between the writes to *sc and the store to MSIP: the process is then    *)
(* preempted with its call prepared and not yet made.                      *)
IntrTimer ==
  /\ kpc = "user"
  /\ kpc' = "yield"
  /\ UNCHANGED <<procVars, curr, scan, progress, userVars>>

(* intr_entry(INTR_ID_TIMER) reads a control-C: the process will resume at *)
(* APPS_ENTRY + 0xC, the call of exit() in app.S.  There is no yield.      *)
IntrKill ==
  /\ kpc = "user"
  /\ pid[curr] >= GPID_USER_START
  /\ upc' = [upc EXCEPT ![curr] = "run"]
  /\ UNCHANGED <<procVars, coreVars, usc, mapped, mgmt>>

ExcpEntry ==
  /\ kpc = "user"
  /\ kpc' = "fatal"
  /\ UNCHANGED <<procVars, curr, scan, progress, userVars>>

(* Mutant: the process that yields stays marked as running.                *)
ProcYield_staysRunning ==
  /\ kpc = "yield"
  /\ scan' = 1
  /\ progress' = 0
  /\ kpc' = "scan"
  /\ UNCHANGED <<procVars, curr, userVars>>

(* proc_yield() up to the first pass of clear_pending_syscalls().          *)
ProcYield ==
  /\ kpc = "yield"
  /\ status' = IF status[curr] = "RUNNING"
               THEN SetStatus(status, pid[curr], "RUNNABLE")
               ELSE status
  /\ scan' = 1
  /\ progress' = 0
  /\ kpc' = "scan"
  /\ UNCHANGED <<pid, syscall, curr, userVars>>

(* The slot at distance k from the current one.                            *)
SlotAt(k) == (curr + k) % MAX_NPROCESS

(* Mutant: the loop ends before it comes back to the current process.      *)
LastScan_short == MAX_NPROCESS - 1

(* The last value of the loop index, i <= MAX_NPROCESS.                    *)
LastScan == MAX_NPROCESS

(* One iteration of the for loop of clear_pending_syscalls().              *)
ScanStep ==
  /\ kpc = "scan"
  /\ scan <= LastScan
  /\ scan' = scan + 1
  /\ LET p == SlotAt(scan) IN
     \/ /\ status[p] = "PENDING_SYSCALL"
        /\ proc_try_syscall(p, "scan")
        /\ progress' = IF syscall'[p].status = "DONE" THEN progress + 1 ELSE progress
     \/ /\ status[p] # "PENDING_SYSCALL"
        /\ UNCHANGED <<status, syscall, usc, kpc, progress>>
  /\ UNCHANGED <<pid, curr, upc, mapped, mgmt>>

(* The end of a pass, while(progress).                                     *)
ScanEnd ==
  /\ kpc = "scan"
  /\ scan > LastScan
  /\ scan' = 1
  /\ progress' = 0
  /\ kpc' = IF progress > 0 THEN "scan" ELSE "sched"
  /\ UNCHANGED <<procVars, curr, userVars>>

CanRun(i) == status[i] \in {"READY", "RUNNABLE"}

(* Mutant: the search starts at slot 0, not after the current process.     *)
FirstRunnable_fromZero(k) ==
  /\ CanRun(SlotAt(k))
  /\ \A i \in 0..(MAX_NPROCESS - 1) : i < SlotAt(k) => ~CanRun(i)

(* round_robin() finds slot SlotAt(k): the first after curr that can run.  *)
FirstRunnable(k) ==
  /\ CanRun(SlotAt(k))
  /\ \A j \in 1..MAX_NPROCESS : j < k => ~CanRun(SlotAt(j))

(* proc_yield() from schedule() on: switch to the process in slot n.  When *)
(* n owns no pages, mmu_switch() leaves the memory of another process in   *)
(* the user address space and n executes that: nothing is known after it.  *)
Dispatch(n) ==
  /\ curr' = n
  /\ status' = SetStatus(status, pid[n], "RUNNING")
  /\ upc' = IF status[n] = "READY" THEN [upc EXCEPT ![n] = "run"] ELSE upc
  /\ kpc' = IF pid[n] \in mapped THEN "user" ELSE "wild"
  /\ UNCHANGED <<pid, syscall, scan, progress, usc, mapped, mgmt>>

Schedule ==
  /\ kpc = "sched"
  /\ \E k \in 1..MAX_NPROCESS : FirstRunnable(k) /\ Dispatch(SlotAt(k))

(* ASSERT(next_idx < MAX_NPROCESS) in proc_yield() fails.                  *)
ScheduleNone ==
  /\ kpc = "sched"
  /\ \A k \in 1..MAX_NPROCESS : ~CanRun(SlotAt(k))
  /\ kpc' = "fatal"
  /\ UNCHANGED <<procVars, curr, scan, progress, userVars>>

(* FATAL() in the kernel loops for ever, interrupts disabled.              *)
Spin == Halted /\ UNCHANGED vars

-----------------------------------------------------------------------------
(* GPID_PROCESS runs in slot 1, loaded and entered by the grass layer      *)
(* itself (scheduler.c:106); every other slot is zeroed memory.            *)
Init ==
  /\ pid = [i \in Slots |-> IF i = GPID_PROCESS THEN i ELSE 0]
  /\ status = [i \in Slots |-> IF i = GPID_PROCESS THEN "RUNNING" ELSE "UNUSED"]
  /\ syscall = [i \in Slots |-> NoSyscall]
  /\ curr = GPID_PROCESS
  /\ kpc = "user"
  /\ scan = 1
  /\ progress = 0
  /\ usc = [i \in Slots |-> NoSyscall]
  /\ upc = [i \in Slots |-> "run"]
  /\ mapped = {GPID_PROCESS}
  /\ mgmt = [op |-> "none", idx |-> 0]

Manage ==
  \/ ProcAlloc \/ ProcAllocFull \/ ElfLoad \/ ProcSetReady
  \/ \E p \in Pids : ProcFree(p)
  \/ ProcFreeMark
  \/ KillAll \/ KillAllFree \/ KillAllMark \/ KillAllEnd

User ==
  \E p \in Pids :
    \/ \E r \in Pids, m \in Msg : SysSend(p, r, m)
    \/ \E f \in Pids \cup {GPID_ALL} : SysRecv(p, f)
    \/ SysReturn(p)

Interrupt == IntrSoft \/ IntrTimer \/ IntrKill \/ ExcpEntry

Handler == IntrSoftTry \/ ProcYield \/ ScanStep \/ ScanEnd \/ Schedule \/ ScheduleNone

Next == User \/ Manage \/ Interrupt \/ Handler \/ Spin

Spec == Init /\ [][Next]_vars

(* proc_yield() re-arms the timer before every return to a process, and    *)
(* the handler always runs on.  Nothing is assumed of the programs.        *)
Fairness == WF_vars(Handler) /\ WF_vars(IntrTimer)

FairSpec == Spec /\ Fairness

-----------------------------------------------------------------------------
(* Type correctness of the process table, the core and the user state.     *)
TypeOK ==
  /\ pid \in [Slots -> Slots]
  /\ status \in [Slots -> ProcStatus]
  /\ syscall \in [Slots -> Syscall]
  /\ curr \in Slots
  /\ kpc \in {"user", "try", "yield", "scan", "sched", "fatal", "wild"}
  /\ scan \in 1..(MAX_NPROCESS + 1)
  /\ progress \in 0..MAX_NPROCESS
  /\ usc \in [Slots -> Syscall]
  /\ upc \in [Slots -> {"run", "trap", "poll"}]
  /\ mapped \subseteq Pids
  /\ mgmt \in Mgmt

Blocked(p) == status[p] = "PENDING_SYSCALL"

(* Slot s is blocked in a send that the blocked receiver in slot d takes.  *)
Meets(s, d) ==
  /\ Blocked(s) /\ syscall[s].type = "SYS_SEND" /\ syscall[s].peer = pid[d]
  /\ Blocked(d) /\ Accepts(d, s)

(* Slot d is blocked in a receive whose message the kernel already holds.  *)
Delivered(d) ==
  Blocked(d) /\ syscall[d].type = "SYS_RECV" /\ syscall[d].status = "DONE"

(* No lost wakeup: whenever a process is back in user mode, no sender and  *)
(* receiver that want each other are both still blocked, and no message    *)
(* has been handed over to a receiver that is left asleep.  The kernel     *)
(* keeps no wait queues: this rests on the order in which proc_try_send(), *)
(* clear_pending_syscalls() and its while(progress) look at the slots.     *)
NoLostWakeup ==
  kpc = "user" => \A d \in Slots : ~Delivered(d) /\ \A s \in Slots : ~Meets(s, d)

(* In user mode the process in slot curr is RUNNING and it is the only     *)
(* one: proc_yield(), proc_set_pending() and the two proc_set_runnable()   *)
(* of proc_try_recv() never leave a second process marked RUNNING.         *)
OneRunning ==
  kpc = "user" => \A i \in Slots : status[i] = "RUNNING" <=> i = curr

(* A process that trapped gets the core back only when its call is done:   *)
(* the wait loop in trap() never polls a PENDING call in vain.  The kernel *)
(* marks a sender's *sc in proc_try_send() but makes the sender runnable   *)
(* in another function, proc_try_recv() of the receiver.                   *)
NeverPollsInVain ==
  kpc = "user" /\ upc[curr] = "poll" => usc[curr].status = "DONE"

(* A freed slot comes back only by proc_alloc(): no wakeup, scheduling or  *)
(* loading step of the process that used to be there revives it.           *)
NoRevival ==
  [][\A i \in Slots : status[i] = "UNUSED" => status'[i] \in {"UNUSED", "LOADING"}]_vars

(* A process gets the core only with its own pages in the user address     *)
(* space ("Map pid to the user address space", mem_soft_tlb.c:55).         *)
(* proc_free() gives up the pages before the slot, and an interrupt may    *)
(* come in between.                                                        *)
RunsOnItsOwnPages == kpc # "wild"

(* Round robin starves nobody: a process that can run gets the core, is    *)
(* freed first, or the machine has halted.                                 *)
EveryoneRuns ==
  \A p \in 1..(MAX_NPROCESS - 1) :
    CanRun(p) ~> (status[p] \in {"RUNNING", "UNUSED"} \/ Halted)
=============================================================================
