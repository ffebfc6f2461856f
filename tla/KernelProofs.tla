---------------------------- MODULE KernelProofs ----------------------------
(***************************************************************************)
(* Proofs, for every MAX_NPROCESS and every set of messages, that Kernel   *)
(* keeps KernelInv, hence the safety properties that TLC checks on small   *)
(* tables, and that its system calls implement Rendezvous.                 *)
(***************************************************************************)
EXTENDS KernelInv, TLAPS

USE KernelAssumption DEF Slots, Pids, Scanned, GPID_ALL, GPID_PROCESS

-----------------------------------------------------------------------------
(* The circular order of the scans.                                        *)

(* One lap of the table: the remainder of a sum below two laps.            *)
LEMMA ModWrap ==
  ASSUME NEW N \in Nat \ {0}, NEW a \in Nat, a < 2 * N
  PROVE  a % N = IF a < N THEN a ELSE a - N
  OBVIOUS

(* A scan visits only slots below MAX_NPROCESS, the current one last.      *)
LEMMA SlotAtRange ==
  ASSUME curr \in 0..(MAX_NPROCESS - 1)
  PROVE  /\ \A k \in 1..MAX_NPROCESS : SlotAt(k) \in 0..(MAX_NPROCESS - 1)
         /\ SlotAt(MAX_NPROCESS) = curr
<1>1. MAX_NPROCESS \in Nat \ {0}
  OBVIOUS
<1>2. ASSUME NEW k \in 1..MAX_NPROCESS
      PROVE  SlotAt(k) = IF curr + k < MAX_NPROCESS THEN curr + k
                         ELSE curr + k - MAX_NPROCESS
  <2> DEFINE a == curr + k
  <2>1. a \in Nat /\ a < 2 * MAX_NPROCESS
    OBVIOUS
  <2>2. SlotAt(k) = a % MAX_NPROCESS
    BY DEF SlotAt
  <2> HIDE DEF a
  <2>3. a % MAX_NPROCESS = IF a < MAX_NPROCESS THEN a ELSE a - MAX_NPROCESS
    BY <1>1, <2>1, ModWrap
  <2> QED
    BY <2>2, <2>3 DEF a
<1> QED
  BY <1>2

(* A pass of the scan visits every slot below MAX_NPROCESS.                *)
LEMMA EverySlotScanned ==
  ASSUME curr \in 0..(MAX_NPROCESS - 1), NEW i \in 0..(MAX_NPROCESS - 1)
  PROVE  \E k \in 1..MAX_NPROCESS : SlotAt(k) = i
<1> DEFINE d == IF i > curr THEN i - curr ELSE i - curr + MAX_NPROCESS
<1>1. d \in 1..MAX_NPROCESS /\ MAX_NPROCESS \in Nat \ {0}
  OBVIOUS
<1>2. /\ curr + d \in Nat /\ curr + d < 2 * MAX_NPROCESS
      /\ i = IF curr + d < MAX_NPROCESS THEN curr + d ELSE curr + d - MAX_NPROCESS
  OBVIOUS
<1>3. SlotAt(d) = i
  BY <1>1, <1>2, ModWrap DEF SlotAt
<1> QED
  BY <1>1, <1>3

-----------------------------------------------------------------------------
(* proc_set_status() writes the one slot that holds the pid.               *)
LEMMA SetStatusSlot ==
  ASSUME SlotInv, NEW st \in [Slots -> ProcStatus], NEW s \in ProcStatus,
         NEW p \in Pids
  PROVE  SetStatus(st, p, s) =
           IF p < MAX_NPROCESS /\ pid[p] = p THEN [st EXCEPT ![p] = s] ELSE st
<1>1. \A i \in Slots : pid[i] = p <=> i = p /\ pid[p] = p
  BY DEF SlotInv
<1>2. CASE p < MAX_NPROCESS /\ pid[p] = p
  <2>1. SetStatus(st, p, s) = [i \in Slots |-> IF i = p THEN s ELSE st[i]]
    BY <1>1, <1>2 DEF SetStatus
  <2>2. [st EXCEPT ![p] = s] = [i \in Slots |-> IF i = p THEN s ELSE st[i]]
    OBVIOUS
  <2> QED
    BY <1>2, <2>1, <2>2
<1>3. CASE ~(p < MAX_NPROCESS /\ pid[p] = p)
  <2>1. SetStatus(st, p, s) = [i \in Slots |-> st[i]]
    BY <1>1, <1>3 DEF SetStatus
  <2> QED
    BY <1>3, <2>1
<1> QED
  BY <1>2, <1>3

(* User steps that leave the process table alone keep what is said of it.  *)
LEMMA UserFrame ==
  ASSUME KernelInv, kpc = "user", UNCHANGED <<procVars, coreVars>>
  PROVE  SlotInv' /\ CoreInv' /\ DeliverInv' /\ WakeInv'
<1> USE DEF KernelInv, procVars, coreVars
<1>1. SlotInv'
  BY DEF SlotInv
<1>2. CoreInv'
  BY DEF CoreInv, Blocked
<1>3. DeliverInv'
  BY DEF WakeInv, DeliverInv, Delivered, Blocked
<1>4. WakeInv'
  BY DEF WakeInv, Delivered, Blocked, Meets, Accepts
<1> QED
  BY <1>1, <1>2, <1>3, <1>4

(* User steps that allocate, free or release one slot n other than the     *)
(* running one keep the rest: the process in n, if any, waits for nothing. *)
LEMMA SlotFrame ==
  ASSUME KernelInv, kpc = "user", UNCHANGED <<syscall, coreVars, usc, upc>>,
         NEW n \in Pids, n # curr,
         status'[n] \in {"UNUSED", "LOADING", "READY"},
         pid'[n] \in {0, n},
         status'[n] # "UNUSED" => pid'[n] = n,
         n = MAX_NPROCESS => status'[n] \in {"UNUSED", "LOADING"},
         \A i \in Slots : i # n => status'[i] = status[i] /\ pid'[i] = pid[i]
  PROVE  SlotInv' /\ CoreInv' /\ CallInv' /\ DeliverInv' /\ WakeInv'
<1> USE DEF KernelInv, coreVars
<1>1. SlotInv'
  BY DEF SlotInv
<1>2. CoreInv'
  BY DEF SlotInv, CoreInv, Blocked
<1>3. CallInv'
  BY DEF CallInv, Blocked
<1>4. DeliverInv'
  BY DEF WakeInv, DeliverInv, Delivered, Blocked
<1>5. WakeInv'
  BY DEF WakeInv, Delivered, Blocked, Meets, Accepts
<1> QED
  BY <1>1, <1>2, <1>3, <1>4, <1>5

-----------------------------------------------------------------------------
(* The steps of user code.                                                 *)

(* sys_send(), sys_recv() and the return from them.                        *)
LEMMA UserInv ==
  ASSUME KernelInv, User
  PROVE  KernelInv'
<1> USE DEF KernelInv
<1>1. ASSUME NEW p \in Pids, NEW r \in Pids, NEW m \in Msg, SysSend(p, r, m)
      PROVE  KernelInv'
  <2> USE <1>1 DEF SysSend, InUserCode, Running, procVars, coreVars
  <2>1. TypeOK'
    BY DEF TypeOK, Syscall
  <2>2. IsCall(usc'[p]) /\ \A i \in Slots : i # p => usc'[i] = usc[i] /\ upc'[i] = upc[i]
    BY DEF TypeOK, IsCall
  <2>3. status[p] = "RUNNING" /\ upc'[p] = "trap"
    BY DEF TypeOK, CoreInv
  <2>4. CallInv'
    BY <2>2, <2>3 DEF CallInv, Blocked
  <2> QED
    BY <2>1, <2>4, UserFrame DEF MgmtInv
<1>2. ASSUME NEW p \in Pids, NEW f \in Pids \cup {GPID_ALL}, SysRecv(p, f)
      PROVE  KernelInv'
  <2> USE <1>2 DEF SysRecv, InUserCode, Running, procVars, coreVars
  <2>1. TypeOK'
    BY DEF TypeOK, Syscall
  <2>2. IsCall(usc'[p]) /\ \A i \in Slots : i # p => usc'[i] = usc[i] /\ upc'[i] = upc[i]
    BY DEF TypeOK, IsCall
  <2>3. status[p] = "RUNNING" /\ upc'[p] = "trap"
    BY DEF TypeOK, CoreInv
  <2>4. CallInv'
    BY <2>2, <2>3 DEF CallInv, Blocked
  <2> QED
    BY <2>1, <2>4, UserFrame DEF MgmtInv
<1>3. ASSUME NEW p \in Pids, SysReturn(p)
      PROVE  KernelInv'
  <2> USE <1>3 DEF SysReturn, Running, procVars, coreVars
  <2>1. TypeOK'
    BY DEF TypeOK, Syscall, NoSyscall
  <2>2. CallInv'
    BY DEF TypeOK, CoreInv, CallInv, Blocked
  <2> QED
    BY <2>1, <2>2, UserFrame DEF MgmtInv
<1> QED
  BY <1>1, <1>2, <1>3 DEF User

(* The steps of GPID_PROCESS that leave the process table alone.           *)
LEMMA ManageFrameInv ==
  ASSUME KernelInv,
         \/ ProcAllocFull \/ ElfLoad
         \/ \E p \in Pids : ProcFree(p)
         \/ KillAll \/ KillAllFree \/ KillAllEnd
  PROVE  KernelInv'
<1> USE DEF KernelInv, Managing, Running, procVars, coreVars
<1>1. ASSUME mgmt' \in Mgmt, mapped' \subseteq Pids, MgmtInv', kpc = "user",
             UNCHANGED <<procVars, coreVars, usc, upc>>
      PROVE  KernelInv'
  <2>1. TypeOK'
    BY <1>1 DEF TypeOK
  <2>2. CallInv'
    BY <1>1 DEF CallInv, Blocked
  <2> QED
    BY <1>1, <2>1, <2>2, UserFrame
<1>2. CASE ProcAllocFull
  <2>1. mgmt' \in Mgmt /\ MgmtInv'
    BY <1>2 DEF ProcAllocFull, Mgmt, MgmtInv
  <2> QED
    BY <1>1, <1>2, <2>1 DEF ProcAllocFull, TypeOK
<1>3. CASE ElfLoad
  <2> USE <1>3 DEF ElfLoad
  <2>1. mgmt.idx \in Pids /\ status[mgmt.idx] = "LOADING"
    BY DEF MgmtInv
  <2>2. mgmt' \in Mgmt /\ mgmt'.op = "loaded" /\ mgmt'.idx = mgmt.idx
    BY <2>1 DEF TypeOK, Mgmt
  <2>3. usc' \in [Slots -> Syscall]
    BY <2>1 DEF TypeOK, Syscall, NoSyscall
  <2>4. TypeOK'
    BY <2>1, <2>2, <2>3 DEF TypeOK
  <2>5. CallInv'
    BY <2>1 DEF TypeOK, CallInv, Blocked
  <2>6. MgmtInv'
    BY <2>1, <2>2 DEF MgmtInv
  <2> QED
    BY <2>4, <2>5, <2>6, UserFrame
<1>4. ASSUME NEW p \in Pids, ProcFree(p)
      PROVE  KernelInv'
  <2> USE <1>4 DEF ProcFree
  <2>1. mgmt' \in Mgmt /\ MgmtInv'
    BY DEF Mgmt, MgmtInv
  <2>2. mapped' \subseteq Pids
    BY DEF TypeOK
  <2> QED
    BY <1>1, <2>1, <2>2
<1>5. CASE KillAll
  <2>1. mgmt' \in Mgmt /\ MgmtInv'
    BY <1>5 DEF KillAll, Mgmt, MgmtInv
  <2> QED
    BY <1>1, <1>5, <2>1 DEF KillAll, TypeOK
<1>6. CASE KillAllFree
  <2> USE <1>6 DEF KillAllFree
  <2>1. CASE IsLiveUser(mgmt.idx)
    <3>1. mapped' \subseteq Pids
      BY <2>1 DEF TypeOK
    <3>2. mgmt.idx \in Slots /\ mgmt.idx >= GPID_USER_START
      BY <2>1 DEF IsLiveUser, TypeOK, SlotInv, Mgmt
    <3>3. mgmt' \in Mgmt /\ mgmt'.op = "killmark" /\ mgmt'.idx = mgmt.idx
      BY <2>1 DEF TypeOK, Mgmt
    <3> QED
      BY <1>1, <3>1, <3>2, <3>3 DEF MgmtInv
  <2>2. CASE ~IsLiveUser(mgmt.idx)
    <3>1. mgmt' \in Mgmt /\ mgmt'.op = "killall"
      BY <2>2 DEF TypeOK, Mgmt
    <3> QED
      BY <1>1, <2>2, <3>1 DEF TypeOK, MgmtInv
  <2> QED
    BY <2>1, <2>2
<1>7. CASE KillAllEnd
  BY <1>1, <1>7 DEF KillAllEnd, Mgmt, MgmtInv, TypeOK
<1> QED
  BY <1>2, <1>3, <1>4, <1>5, <1>6, <1>7

(* The steps of GPID_PROCESS that write the process table.                 *)
LEMMA ManageSlotInv ==
  ASSUME KernelInv, ProcAlloc \/ ProcSetReady \/ ProcFreeMark \/ KillAllMark
  PROVE  KernelInv'
<1> USE DEF KernelInv, Managing, Running, coreVars
<1>1. CASE ProcAlloc
  <2>1. /\ kpc = "user" /\ curr = GPID_PROCESS
        /\ UNCHANGED <<syscall, coreVars, usc, upc, mapped>>
    BY <1>1 DEF ProcAlloc
  <2>2. PICK n \in Pids : /\ status[n] = "UNUSED"
                          /\ pid' = [pid EXCEPT ![n] = n]
                          /\ status' = [status EXCEPT ![n] = "LOADING"]
                          /\ mgmt' = [op |-> "load", idx |-> n]
    BY <1>1 DEF ProcAlloc
  <2>3. mgmt' \in Mgmt
    BY <2>2 DEF Mgmt
  <2>4. TypeOK'
    BY <2>1, <2>2, <2>3 DEF TypeOK, ProcStatus
  <2>5. /\ status'[n] = "LOADING" /\ pid'[n] = n /\ n # curr
        /\ \A i \in Slots : i # n => status'[i] = status[i] /\ pid'[i] = pid[i]
    BY <2>1, <2>2 DEF TypeOK, CoreInv
  <2>6. MgmtInv'
    BY <2>2, <2>5 DEF MgmtInv
  <2> QED
    BY <2>1, <2>4, <2>5, <2>6, SlotFrame
<1>2. CASE ProcSetReady
  <2> USE <1>2 DEF ProcSetReady
  <2> DEFINE n == mgmt.idx
  <2>1. n \in Pids /\ status[n] = "LOADING" /\ n # curr /\ pid[n] = n
    BY DEF MgmtInv, CoreInv, SlotInv
  <2>2. mgmt' \in Mgmt /\ MgmtInv'
    BY DEF Mgmt, MgmtInv
  <2>3. /\ status' \in [Slots -> ProcStatus]
        /\ \A i \in Slots : i # n => status'[i] = status[i]
        /\ status'[n] = IF n < MAX_NPROCESS THEN "READY" ELSE "LOADING"
    <3>1. status \in [Slots -> ProcStatus] /\ "READY" \in ProcStatus
      BY DEF TypeOK, ProcStatus
    <3> QED
      BY <2>1, <3>1, SetStatusSlot
  <2>4. TypeOK'
    BY <2>2, <2>3 DEF TypeOK
  <2> QED
    BY <2>1, <2>2, <2>3, <2>4, SlotFrame
<1>3. CASE ProcFreeMark
  <2> USE <1>3 DEF ProcFreeMark
  <2> DEFINE n == mgmt.idx
  <2>1. n \in Pids /\ n # curr /\ pid[n] \in {0, n}
    BY DEF MgmtInv, SlotInv
  <2>2. mgmt' \in Mgmt /\ MgmtInv'
    BY DEF Mgmt, MgmtInv
  <2>3. /\ status' \in [Slots -> ProcStatus]
        /\ \A i \in Slots : i # n => status'[i] = status[i]
        /\ status'[n] = IF n < MAX_NPROCESS /\ pid[n] = n THEN "UNUSED" ELSE status[n]
    <3>1. status \in [Slots -> ProcStatus] /\ "UNUSED" \in ProcStatus
      BY DEF TypeOK, ProcStatus
    <3> QED
      BY <2>1, <3>1, SetStatusSlot
  <2>4. TypeOK'
    BY <2>2, <2>3 DEF TypeOK
  <2>5. status'[n] \in {"UNUSED", "LOADING"} /\ (status'[n] # "UNUSED" => pid[n] = n)
    BY <2>1, <2>3 DEF SlotInv
  <2> QED
    BY <2>1, <2>2, <2>3, <2>4, <2>5, SlotFrame
<1>4. CASE KillAllMark
  <2> USE <1>4 DEF KillAllMark
  <2> DEFINE n == mgmt.idx
  <2>0. n \in Slots /\ n < MAX_NPROCESS /\ n >= GPID_USER_START
    BY DEF MgmtInv, TypeOK, Mgmt
  <2>1. n \in Pids /\ n < MAX_NPROCESS /\ n # curr /\ n + 1 \in Slots
    BY <2>0
  <2>2. mgmt' \in Mgmt /\ MgmtInv'
    BY <2>1 DEF Mgmt, MgmtInv
  <2>3. /\ status' \in [Slots -> ProcStatus]
        /\ \A i \in Slots : i # n => status'[i] = status[i]
        /\ status'[n] = "UNUSED"
    <3>1. status \in [Slots -> ProcStatus] /\ "UNUSED" \in ProcStatus
      BY DEF TypeOK, ProcStatus
    <3>2. status' = [status EXCEPT ![n] = "UNUSED"]
      OBVIOUS
    <3> HIDE <1>4 DEF n
    <3> QED
      BY <2>1, <3>1, <3>2
  <2>4. TypeOK'
    BY <2>2, <2>3 DEF TypeOK
  <2>5. pid[n] \in {0, n}
    BY <2>1 DEF SlotInv
  <2> QED
    BY <2>1, <2>2, <2>3, <2>4, <2>5, SlotFrame
<1> QED
  BY <1>1, <1>2, <1>3, <1>4

(* Every step of proc_alloc() .. proc_free().                              *)
LEMMA ManageInv ==
  ASSUME KernelInv, Manage
  PROVE  KernelInv'
  BY ManageFrameInv, ManageSlotInv DEF Manage
-----------------------------------------------------------------------------
(* The trap handler.                                                       *)

(* The entry into the handler: a system call, the timer, control-C.        *)
LEMMA InterruptInv ==
  ASSUME KernelInv, Interrupt
  PROVE  KernelInv'
<1> USE DEF KernelInv, procVars, coreVars, userVars
<1>1. CASE IntrTimer
  <2> USE <1>1 DEF IntrTimer
  <2>1. TypeOK' /\ MgmtInv'
    BY DEF TypeOK, MgmtInv
  <2>2. SlotInv' /\ CoreInv'
    BY DEF SlotInv, CoreInv
  <2>3. CallInv' /\ DeliverInv'
    BY DEF CallInv, DeliverInv, Delivered, Blocked
  <2>4. WakeInv'
    BY DEF WakeInv, Delivered, Blocked, Meets, Accepts
  <2> QED
    BY <2>1, <2>2, <2>3, <2>4
<1>2. CASE IntrKill
  <2> USE <1>2 DEF IntrKill
  <2>1. TypeOK'
    BY DEF TypeOK
  <2>2. CallInv'
    BY DEF TypeOK, CoreInv, CallInv, Blocked
  <2> QED
    BY <2>1, <2>2, UserFrame DEF MgmtInv
<1>3. CASE ExcpEntry
  <2> USE <1>3 DEF ExcpEntry
  <2>1. TypeOK' /\ MgmtInv'
    BY DEF TypeOK, MgmtInv
  <2>2. SlotInv' /\ CoreInv'
    BY DEF SlotInv, CoreInv
  <2>3. CallInv' /\ DeliverInv'
    BY DEF CallInv, DeliverInv, Delivered, Blocked
  <2>4. WakeInv'
    BY DEF WakeInv
  <2> QED
    BY <2>1, <2>2, <2>3, <2>4
<1>4. CASE IntrSoft
  <2>1. /\ kpc = "user" /\ kpc' = "try" /\ upc[curr] = "trap"
        /\ syscall' = [syscall EXCEPT ![curr] = [usc[curr] EXCEPT !.status = "PENDING"]]
        /\ upc' = [upc EXCEPT ![curr] = "poll"]
        /\ UNCHANGED <<pid, curr, scan, progress, usc, mapped, mgmt>>
    BY <1>4 DEF IntrSoft
  <2>2. /\ curr \in 1..(MAX_NPROCESS - 1) /\ pid[curr] = curr
        /\ status[curr] = "RUNNING"
        /\ status \in [Slots -> ProcStatus]
        /\ "PENDING_SYSCALL" \in ProcStatus
    BY <2>1 DEF SlotInv, CoreInv, TypeOK, ProcStatus
  <2>3. status' = [status EXCEPT ![curr] = "PENDING_SYSCALL"]
    BY <1>4, <2>2, SetStatusSlot DEF IntrSoft
  <2>4. /\ status'[curr] = "PENDING_SYSCALL" /\ upc'[curr] = "poll"
        /\ \A i \in Slots : i # curr => /\ status'[i] = status[i]
                                        /\ syscall'[i] = syscall[i]
                                        /\ upc'[i] = upc[i]
    BY <2>1, <2>2, <2>3 DEF TypeOK
  <2>5. /\ syscall'[curr] \in Syscall
        /\ syscall'[curr].type = usc[curr].type
        /\ syscall'[curr].peer = usc[curr].peer
        /\ syscall'[curr].content = usc[curr].content
        /\ syscall'[curr].status = "PENDING"
    BY <2>1, <2>2 DEF TypeOK, Syscall
  <2>6. TypeOK'
    BY <2>1, <2>2, <2>3, <2>5 DEF TypeOK
  <2>7. SlotInv' /\ CoreInv'
    BY <2>1, <2>2, <2>4, <2>5 DEF SlotInv, CoreInv, Blocked
  <2>8. CallInv'
    BY <2>1, <2>2, <2>4, <2>5 DEF CallInv, IsCall, Blocked
  <2>9. DeliverInv'
    BY <2>1, <2>4, <2>5 DEF WakeInv, DeliverInv, Delivered, Blocked
  <2>10. WakeInv'
    BY <2>1, <2>4, <2>5 DEF WakeInv, Delivered, Blocked, Meets, Accepts
  <2>11. MgmtInv'
    BY <2>1, <2>2, <2>4 DEF MgmtInv
  <2> QED
    BY <2>6, <2>7, <2>8, <2>9, <2>10, <2>11
<1> QED
  BY <1>1, <1>2, <1>3, <1>4 DEF Interrupt
-----------------------------------------------------------------------------
(* grass/ipc.c.                                                            *)

(* The slot proc_try_send() finds is the one the receiver's pid names.     *)
LEMMA DstSlot ==
  ASSUME KernelInv, NEW s \in Slots, Blocked(s), syscall[s].type = "SYS_SEND"
  PROVE  /\ syscall[s].peer \in Pids
         /\ \A d \in Dst(s) : d = syscall[s].peer /\ pid[d] = d
         /\ \A d \in Slots : Meets(s, d) => d \in Dst(s)
         /\ s \in Pids /\ pid[s] = s
<1> USE DEF KernelInv
<1>1. syscall[s].peer \in Pids
  BY DEF CallInv, IsCall
<1>2. \A d \in Dst(s) : d = syscall[s].peer /\ pid[d] = d
  BY <1>1 DEF Dst, SlotInv
<1>3. ASSUME NEW d \in Slots, Meets(s, d) PROVE d \in Dst(s)
  <2>1. status[d] = "PENDING_SYSCALL" /\ pid[d] = syscall[s].peer
    BY <1>3 DEF Meets, Blocked
  <2>2. d # MAX_NPROCESS
    BY <2>1 DEF SlotInv
  <2> QED
    BY <2>1, <2>2 DEF Dst
<1>4. s \in Pids /\ pid[s] = s
  BY DEF SlotInv, Blocked
<1> QED
  BY <1>1, <1>2, <1>3, <1>4

(* What proc_try_send() does: stop the machine, find that the receiver     *)
(* does not accept, or hand the message over.                              *)
LEMMA TrySendCases ==
  ASSUME KernelInv, NEW s \in Slots, Blocked(s), syscall[s].type = "SYS_SEND",
         NEW next, proc_try_send(s, next)
  PROVE  \/ kpc' = "fatal" /\ UNCHANGED <<syscall, usc>>
         \/ /\ kpc' = next /\ UNCHANGED <<syscall, usc>>
            /\ \A d \in Slots : ~Meets(s, d)
         \/ /\ kpc' = next
            /\ \E d \in Pids :
                 /\ d = syscall[s].peer /\ d # s /\ pid[d] = d
                 /\ Accepts(d, s)
                 /\ syscall' = [syscall EXCEPT ![d] =
                                  [type |-> "SYS_RECV", peer |-> s,
                                   content |-> syscall[s].content,
                                   status |-> "DONE"]]
                 /\ usc' = [usc EXCEPT ![s].status = "DONE"]
<1>1. CASE Dst(s) = {} /\ kpc' = "fatal" /\ UNCHANGED <<syscall, usc>>
  BY <1>1
<1>2. ASSUME kpc' = next, NEW d \in Dst(s), ~Accepts(d, s), UNCHANGED <<syscall, usc>>
      PROVE  \A e \in Slots : ~Meets(s, e)
  BY <1>2, DstSlot DEF Meets
<1>3. ASSUME NEW d \in Dst(s), Accepts(d, s),
             syscall' = [syscall EXCEPT ![d] = [type |-> @.type, peer |-> pid[s],
                                                content |-> syscall[s].content,
                                                status |-> "DONE"]]
      PROVE  /\ d \in Pids /\ d = syscall[s].peer /\ d # s /\ pid[d] = d
             /\ syscall' = [syscall EXCEPT ![d] =
                              [type |-> "SYS_RECV", peer |-> s,
                               content |-> syscall[s].content, status |-> "DONE"]]
  BY <1>3, DstSlot DEF Accepts
<1> QED
  BY <1>1, <1>2, <1>3 DEF proc_try_send

(* What holds after proc_try_send(), wherever the handler calls it.        *)
LEMMA TrySendKeeps ==
  ASSUME KernelInv, NEW s \in Slots, Blocked(s), syscall[s].type = "SYS_SEND",
         NEW next, proc_try_send(s, next), UNCHANGED <<pid, status, upc>>
  PROVE  /\ syscall' \in [Slots -> Syscall] /\ usc' \in [Slots -> Syscall]
         /\ CallInv' /\ DeliverInv'
         /\ \A d \in Slots : Delivered(d)' => Delivered(d) \/ Meets(s, d)
         /\ \A x, d \in Slots : Meets(x, d)' => Meets(x, d)
         /\ kpc' # "fatal" => \A d \in Slots : ~Meets(s, d)'
         /\ kpc' \in {"fatal", next}
         /\ syscall'[s] = syscall[s]
<1> USE DEF KernelInv
<1>1. ASSUME UNCHANGED <<syscall, usc>>, kpc' \in {"fatal", next},
             kpc' # "fatal" => \A d \in Slots : ~Meets(s, d)
      PROVE  /\ syscall' \in [Slots -> Syscall] /\ usc' \in [Slots -> Syscall]
             /\ CallInv' /\ DeliverInv'
             /\ \A d \in Slots : Delivered(d)' => Delivered(d) \/ Meets(s, d)
             /\ \A x, d \in Slots : Meets(x, d)' => Meets(x, d)
             /\ kpc' # "fatal" => \A d \in Slots : ~Meets(s, d)'
             /\ kpc' \in {"fatal", next}
             /\ syscall'[s] = syscall[s]
  <2>1. CallInv' /\ DeliverInv'
    BY <1>1 DEF CallInv, DeliverInv, Delivered, Blocked
  <2>2. \A x, d \in Slots : Meets(x, d)' <=> Meets(x, d)
    BY <1>1 DEF Meets, Blocked, Accepts
  <2>3. \A d \in Slots : Delivered(d)' => Delivered(d)
    BY <1>1 DEF Delivered, Blocked
  <2>4. syscall' \in [Slots -> Syscall] /\ usc' \in [Slots -> Syscall]
    BY <1>1 DEF TypeOK
  <2> QED
    BY <1>1, <2>1, <2>2, <2>3, <2>4
<1>2. ASSUME NEW d \in Pids, kpc' = next,
             d = syscall[s].peer, d # s, pid[d] = d, Accepts(d, s),
             syscall' = [syscall EXCEPT ![d] =
                          [type |-> "SYS_RECV", peer |-> s,
                           content |-> syscall[s].content, status |-> "DONE"]],
             usc' = [usc EXCEPT ![s].status = "DONE"]
      PROVE  /\ syscall' \in [Slots -> Syscall] /\ usc' \in [Slots -> Syscall]
             /\ CallInv' /\ DeliverInv'
             /\ \A e \in Slots : Delivered(e)' => Delivered(e) \/ Meets(s, e)
             /\ \A x, e \in Slots : Meets(x, e)' => Meets(x, e)
             /\ \A e \in Slots : ~Meets(s, e)'
             /\ syscall'[s] = syscall[s]
  <2>1. s \in Pids /\ pid[s] = s /\ syscall[s].content \in Msg
    BY DstSlot DEF CallInv, IsCall
  <2>2. /\ \A i \in Slots : i # d => syscall'[i] = syscall[i]
        /\ syscall'[d].type = "SYS_RECV" /\ syscall'[d].peer = s
        /\ syscall'[d].content = syscall[s].content /\ syscall'[d].status = "DONE"
        /\ syscall' \in [Slots -> Syscall]
    BY <1>2, <2>1 DEF TypeOK, Syscall
  <2>3. /\ \A i \in Slots : i # s => usc'[i] = usc[i]
        /\ usc'[s].status = "DONE" /\ usc'[s].type = usc[s].type
        /\ usc' \in [Slots -> Syscall]
    <3> DEFINE c == [usc[s] EXCEPT !.status = "DONE"]
    <3>1. c \in Syscall /\ c.status = "DONE" /\ c.type = usc[s].type
      BY DEF TypeOK, Syscall
    <3>2. usc' = [usc EXCEPT ![s] = c]
      BY <1>2
    <3> HIDE DEF c
    <3> QED
      BY <3>1, <3>2 DEF TypeOK
  <2>4. syscall[d].type = "SYS_RECV" /\ syscall[d].status = "PENDING"
    BY <1>2 DEF Accepts
  <2>5. CallInv'
    BY <1>2, <2>1, <2>2, <2>3, <2>4 DEF CallInv, IsCall, Blocked
  <2>6. DeliverInv'
    BY <1>2, <2>1, <2>2, <2>3, <2>4 DEF DeliverInv, Delivered, Blocked
  <2>7. \A e \in Slots : Delivered(e)' => Delivered(e) \/ Meets(s, e)
    BY <1>2, <2>2 DEF Delivered, Meets, Blocked
  <2>8. \A x, e \in Slots : Meets(x, e)' => Meets(x, e)
    BY <1>2, <2>2, <2>4 DEF Meets, Accepts, Blocked
  <2>9. \A e \in Slots : ~Meets(s, e)'
    BY <1>2, <2>2 DEF Meets, Accepts, Blocked, SlotInv
  <2> QED
    BY <1>2, <2>2, <2>3, <2>5, <2>6, <2>7, <2>8, <2>9
<1>3. CASE kpc' = "fatal" /\ UNCHANGED <<syscall, usc>>
  BY <1>1, <1>3
<1>4. CASE kpc' = next /\ UNCHANGED <<syscall, usc>> /\ \A d \in Slots : ~Meets(s, d)
  BY <1>1, <1>4
<1> QED
  BY <1>2, <1>3, <1>4, TrySendCases
(* What proc_try_recv() does once a message is there: both processes of    *)
(* the pair become runnable, the message is in the receiver's memory.      *)
LEMMA TryRecvDone ==
  ASSUME KernelInv, NEW r \in Slots, Blocked(r), syscall[r].type = "SYS_RECV",
         syscall[r].status # "PENDING", proc_try_recv(r)
  PROVE  \E s \in Slots :
           /\ Delivered(r) /\ s = syscall[r].peer /\ s # r
           /\ Blocked(s) /\ syscall[s].type = "SYS_SEND"
           /\ usc[s].status = "DONE" /\ usc[s].type = "SYS_SEND"
           /\ upc[s] = "poll" /\ upc[r] = "poll"
           /\ status' \in [Slots -> ProcStatus]
           /\ \A i \in Slots : status'[i] = IF i \in {r, s} THEN "RUNNABLE" ELSE status[i]
           /\ usc' \in [Slots -> Syscall]
           /\ \A i \in Slots : usc'[i] = IF i = r THEN syscall[r] ELSE usc[i]
<1> USE DEF KernelInv
<1>1. Delivered(r)
  BY DEF CallInv, Delivered
<1>2. PICK s \in Slots : /\ s = syscall[r].peer /\ Blocked(s)
                         /\ syscall[s].type = "SYS_SEND" /\ usc[s].status = "DONE"
  BY <1>1 DEF DeliverInv
<1>3. /\ r \in Pids /\ pid[r] = r /\ r < MAX_NPROCESS
      /\ s \in Pids /\ pid[s] = s /\ s < MAX_NPROCESS
  BY <1>2 DEF SlotInv, Blocked
<1>4. usc' = [usc EXCEPT ![r] = [syscall[r] EXCEPT !.status = "DONE"]]
  BY DEF proc_try_recv
<1>5. [syscall[r] EXCEPT !.status = "DONE"] = syscall[r]
  BY <1>1 DEF Delivered, TypeOK, Syscall
<1>6. /\ status' = SetStatus(SetStatus(status, r, "RUNNABLE"), s, "RUNNABLE")
      /\ status \in [Slots -> ProcStatus] /\ "RUNNABLE" \in ProcStatus
  BY <1>2, <1>3 DEF proc_try_recv, TypeOK, ProcStatus
<1> DEFINE st == [status EXCEPT ![r] = "RUNNABLE"]
<1>7. SetStatus(status, r, "RUNNABLE") = st /\ st \in [Slots -> ProcStatus]
  BY <1>3, <1>6, SetStatusSlot
<1> HIDE DEF st
<1>8. status' = [st EXCEPT ![s] = "RUNNABLE"]
  BY <1>3, <1>6, <1>7, SetStatusSlot
<1>9. /\ status' \in [Slots -> ProcStatus]
      /\ \A i \in Slots : status'[i] = IF i \in {r, s} THEN "RUNNABLE" ELSE status[i]
  BY <1>6, <1>7, <1>8 DEF st
<1>10. usc' \in [Slots -> Syscall] /\ \A i \in Slots : usc'[i] = IF i = r THEN syscall[r] ELSE usc[i]
  BY <1>4, <1>5 DEF TypeOK
<1>11. s # r /\ usc[s].type = "SYS_SEND" /\ upc[s] = "poll" /\ upc[r] = "poll"
  BY <1>2 DEF CallInv
<1> QED
  BY <1>1, <1>2, <1>9, <1>10, <1>11

-----------------------------------------------------------------------------
(* The handler after an interrupt.                                         *)

(* The call that trapped is tried once, before proc_yield().               *)
LEMMA IntrSoftTryInv ==
  ASSUME KernelInv, IntrSoftTry
  PROVE  KernelInv'
<1> USE DEF KernelInv
<1>1. /\ kpc = "try" /\ Blocked(curr) /\ syscall[curr].status = "PENDING"
      /\ curr \in Slots
      /\ proc_try_syscall(curr, "yield")
      /\ UNCHANGED <<pid, curr, scan, progress, upc, mapped, mgmt>>
  BY DEF IntrSoftTry, CoreInv, TypeOK
<1>2. CASE syscall[curr].type = "SYS_RECV"
  <2>1. UNCHANGED <<status, syscall, usc>> /\ kpc' = "yield"
    BY <1>1, <1>2 DEF proc_try_syscall, proc_try_recv
  <2>2. TypeOK' /\ MgmtInv'
    BY <1>1, <2>1 DEF TypeOK, MgmtInv
  <2>3. SlotInv' /\ CoreInv'
    BY <1>1, <2>1 DEF SlotInv, CoreInv
  <2>4. CallInv' /\ DeliverInv'
    BY <1>1, <2>1 DEF CallInv, DeliverInv, Delivered, Blocked
  <2>5. WakeInv'
    BY <1>1, <1>2, <2>1 DEF WakeInv, Delivered, Blocked, Meets, Accepts
  <2> QED
    BY <2>2, <2>3, <2>4, <2>5
<1>3. CASE syscall[curr].type = "SYS_SEND"
  <2>1. proc_try_send(curr, "yield") /\ UNCHANGED status
    BY <1>1, <1>3 DEF proc_try_syscall
  <2>2. /\ syscall' \in [Slots -> Syscall] /\ usc' \in [Slots -> Syscall]
        /\ CallInv' /\ DeliverInv'
        /\ \A x, d \in Slots : Meets(x, d)' => Meets(x, d)
        /\ kpc' # "fatal" => \A d \in Slots : ~Meets(curr, d)'
        /\ kpc' \in {"fatal", "yield"}
    BY <1>1, <1>3, <2>1, TrySendKeeps
  <2>3. TypeOK' /\ MgmtInv'
    BY <1>1, <2>1, <2>2 DEF TypeOK, MgmtInv
  <2>4. SlotInv' /\ CoreInv'
    BY <1>1, <2>1, <2>2 DEF SlotInv, CoreInv
  <2>5. WakeInv'
    BY <1>1, <2>1, <2>2 DEF WakeInv
  <2> QED
    BY <2>2, <2>3, <2>4, <2>5
<1> QED
  BY <1>1, <1>2, <1>3 DEF proc_try_syscall

(* proc_yield() up to the scan: pairs left to meet involve curr only.      *)
LEMMA ProcYieldInv ==
  ASSUME KernelInv, ProcYield
  PROVE  KernelInv'
<1> USE DEF KernelInv, userVars
<1>1. /\ kpc = "yield" /\ kpc' = "scan" /\ scan' = 1 /\ progress' = 0
      /\ UNCHANGED <<pid, syscall, curr, usc, upc, mapped, mgmt>>
  BY DEF ProcYield
<1>2. /\ curr \in 1..(MAX_NPROCESS - 1) /\ pid[curr] = curr
      /\ status \in [Slots -> ProcStatus] /\ "RUNNABLE" \in ProcStatus
  BY DEF SlotInv, TypeOK, ProcStatus
<1>3. status' = IF status[curr] = "RUNNING" THEN [status EXCEPT ![curr] = "RUNNABLE"]
                ELSE status
  <2>1. SetStatus(status, curr, "RUNNABLE") = [status EXCEPT ![curr] = "RUNNABLE"]
    BY <1>2, SetStatusSlot
  <2> QED
    BY <1>2, <2>1 DEF ProcYield
<1>4. /\ status' \in [Slots -> ProcStatus]
      /\ \A i \in Slots : status'[i] = IF i = curr /\ status[i] = "RUNNING"
                                        THEN "RUNNABLE" ELSE status[i]
  BY <1>2, <1>3
<1>5. TypeOK'
  BY <1>1, <1>4 DEF TypeOK
<1>6. MgmtInv'
  BY <1>1, <1>4 DEF MgmtInv
<1>7. SlotInv' /\ CoreInv'
  BY <1>1, <1>2, <1>4 DEF SlotInv, CoreInv
<1>8. CallInv'
  BY <1>1, <1>4 DEF CallInv, Blocked
<1>9. DeliverInv'
  BY <1>1, <1>4 DEF DeliverInv, Delivered, Blocked
<1>10. \A i \in Scanned : ToScan(i)'
  <2>1. \A k : SlotAt(k)' = SlotAt(k)
    BY <1>1 DEF SlotAt
  <2> QED
    BY <1>1, <1>2, <2>1, EverySlotScanned DEF ToScan
<1>11. \A i \in Slots : Blocked(i)' => i \in Scanned /\ Blocked(i)
  BY <1>4, <1>7 DEF Blocked, SlotInv
<1>12. WakeInv'
  <2>1. \A d \in Slots : Delivered(d)' => ToScan(d)'
    BY <1>10, <1>11 DEF Delivered
  <2>2. \A s, d \in Slots : Meets(s, d)' => Meets(s, d) /\ ToScan(s)'
    BY <1>1, <1>10, <1>11 DEF Meets, Accepts, Blocked
  <2> QED
    BY <1>1, <2>1, <2>2 DEF WakeInv
<1> QED
  BY <1>5, <1>6, <1>7, <1>8, <1>9, <1>12
(* The scan moves on: it suffices that the slot it leaves holds no message *)
(* and no sender that could still meet a receiver.                         *)
LEMMA ScanAdvance ==
  ASSUME KernelInv, kpc = "scan", scan <= MAX_NPROCESS,
         kpc' \in {"scan", "fatal"}, curr' = curr, scan' = scan + 1,
         \A d \in Slots : Delivered(d)' =>
            \/ Delivered(d) /\ d # SlotAt(scan)
            \/ d = curr /\ d # SlotAt(scan),
         kpc' = "scan" => \A s, d \in Slots : Meets(s, d)' => Meets(s, d) /\ s # SlotAt(scan)
  PROVE  WakeInv'
<1> USE DEF KernelInv
<1>1. \A k : SlotAt(k)' = SlotAt(k)
  BY DEF SlotAt
<1>2. ASSUME NEW i \in Slots, ToScan(i), i # SlotAt(scan)
      PROVE  ToScan(i)'
  <2>1. PICK j \in scan..MAX_NPROCESS : SlotAt(j) = i
    BY <1>2 DEF ToScan
  <2>2. j \in (scan + 1)..MAX_NPROCESS
    BY <1>2, <2>1 DEF TypeOK
  <2> QED
    BY <1>1, <2>1, <2>2 DEF ToScan
<1>3. curr \in Slots /\ ToScan(curr)
  BY SlotAtRange DEF ToScan, SlotInv, TypeOK
<1> QED
  BY <1>2, <1>3 DEF WakeInv

(* One slot of clear_pending_syscalls().                                   *)
LEMMA ScanStepInv ==
  ASSUME KernelInv, ScanStep
  PROVE  KernelInv'
<1> USE DEF KernelInv
<1>1. /\ kpc = "scan" /\ scan <= MAX_NPROCESS /\ scan' = scan + 1
      /\ UNCHANGED <<pid, curr, upc, mapped, mgmt>>
  BY DEF ScanStep, LastScan
<1>2. /\ scan \in 1..MAX_NPROCESS /\ scan' \in 1..(MAX_NPROCESS + 1)
      /\ progress \in Nat /\ progress < scan
  BY <1>1 DEF TypeOK, CoreInv
<1>3. PICK p \in Slots : p = SlotAt(scan)
  <2>1. curr \in 0..(MAX_NPROCESS - 1)
    BY DEF SlotInv
  <2> QED
    BY <1>2, <2>1, SlotAtRange
<1>4. CASE ~Blocked(p) /\ UNCHANGED <<status, syscall, usc, kpc, progress>>
  <2>1. TypeOK' /\ MgmtInv'
    BY <1>1, <1>2, <1>4 DEF TypeOK, MgmtInv
  <2>2. SlotInv' /\ CoreInv'
    BY <1>1, <1>2, <1>4 DEF SlotInv, CoreInv
  <2>3. CallInv' /\ DeliverInv'
    BY <1>1, <1>4 DEF CallInv, DeliverInv, Delivered, Blocked
  <2>4. \A d \in Slots : Delivered(d)' => Delivered(d) /\ d # p
    BY <1>1, <1>4 DEF Delivered, Blocked
  <2>5. \A s, d \in Slots : Meets(s, d)' => Meets(s, d) /\ s # p
    BY <1>1, <1>4 DEF Meets, Accepts, Blocked
  <2>6. WakeInv'
    BY <1>1, <1>4, <2>4, <2>5, <1>3, ScanAdvance
  <2> QED
    BY <2>1, <2>2, <2>3, <2>6
<1>5. ASSUME Blocked(p), proc_try_syscall(p, "scan"), progress' \in {progress, progress + 1}
      PROVE  KernelInv'
  <2>1. progress' \in 0..MAX_NPROCESS /\ progress' < scan'
    BY <1>1, <1>2, <1>5
  <2>2. CASE syscall[p].type = "SYS_RECV" /\ syscall[p].status = "PENDING"
    <3>1. UNCHANGED <<status, syscall, usc, kpc>>
      BY <1>1, <1>5, <2>2 DEF proc_try_syscall, proc_try_recv
    <3>2. TypeOK' /\ MgmtInv'
      BY <1>1, <1>2, <2>1, <3>1 DEF TypeOK, MgmtInv
    <3>3. SlotInv' /\ CoreInv'
      BY <1>1, <2>1, <3>1 DEF SlotInv, CoreInv
    <3>4. CallInv' /\ DeliverInv'
      BY <1>1, <3>1 DEF CallInv, DeliverInv, Delivered, Blocked
    <3>5. \A d \in Slots : Delivered(d)' => Delivered(d) /\ d # p
      BY <1>1, <2>2, <3>1 DEF Delivered, Blocked
    <3>6. \A s, d \in Slots : Meets(s, d)' => Meets(s, d) /\ s # p
      BY <1>1, <2>2, <3>1 DEF Meets, Accepts, Blocked
    <3>7. WakeInv'
      BY <1>1, <3>1, <3>5, <3>6, <1>3, ScanAdvance
    <3> QED
      BY <3>2, <3>3, <3>4, <3>7
  <2>3. CASE syscall[p].type = "SYS_RECV" /\ syscall[p].status # "PENDING"
    <3>1. proc_try_recv(p) /\ UNCHANGED syscall /\ kpc' = kpc
      BY <1>1, <1>5, <2>3 DEF proc_try_syscall
    <3>2. PICK s \in Slots :
            /\ Delivered(p) /\ s = syscall[p].peer /\ s # p
            /\ Blocked(s) /\ syscall[s].type = "SYS_SEND"
            /\ usc[s].status = "DONE" /\ usc[s].type = "SYS_SEND"
            /\ upc[s] = "poll" /\ upc[p] = "poll"
            /\ status' \in [Slots -> ProcStatus]
            /\ \A i \in Slots : status'[i] = IF i \in {p, s} THEN "RUNNABLE" ELSE status[i]
            /\ usc' \in [Slots -> Syscall]
            /\ \A i \in Slots : usc'[i] = IF i = p THEN syscall[p] ELSE usc[i]
      BY <1>3, <1>5, <2>3, <3>1, TryRecvDone
    <3>3. TypeOK'
      BY <1>1, <1>2, <2>1, <3>1, <3>2 DEF TypeOK
    <3>4. MgmtInv'
      BY <1>1, <3>2, <1>5 DEF MgmtInv, Blocked
    <3>5. SlotInv'
      BY <1>1, <1>5, <3>2 DEF SlotInv, Blocked
    <3>12. CoreInv'
      BY <1>1, <2>1, <3>1, <3>2 DEF CoreInv
    <3>6. CallInv'
      BY <1>1, <1>3, <3>1, <3>2 DEF CallInv, Blocked, Delivered
    <3>7. \A i \in Slots : Blocked(i)' => Blocked(i) /\ i # p /\ i # s
      BY <1>3, <3>2 DEF Blocked
    <3>8. \A d \in Slots : Delivered(d)' => Delivered(d) /\ d # p
      BY <3>1, <3>7 DEF Delivered
    <3>9. DeliverInv'
      <4> SUFFICES ASSUME NEW d \in Slots, Delivered(d)'
                   PROVE  \E x \in Slots :
                            /\ x = syscall[d].peer /\ Blocked(x)'
                            /\ syscall[x].type = "SYS_SEND" /\ syscall[x].peer = d
                            /\ syscall[d].content = syscall[x].content
                            /\ usc'[x].status = "DONE"
        BY <3>1 DEF DeliverInv
      <4>1. PICK x \in Slots :
              /\ x = syscall[d].peer /\ Blocked(x)
              /\ syscall[x].type = "SYS_SEND" /\ syscall[x].peer = d
              /\ syscall[d].content = syscall[x].content /\ usc[x].status = "DONE"
        BY <3>8 DEF DeliverInv
      <4>2. syscall[s].peer = p
        BY <1>3, <3>2 DEF DeliverInv
      <4>3. x # s /\ x # p
        BY <2>3, <3>8, <4>1, <4>2
      <4> QED
        BY <3>2, <4>1, <4>3 DEF Blocked
    <3>10. \A x, d \in Slots : Meets(x, d)' => Meets(x, d) /\ x # p
      BY <1>1, <3>1, <3>7 DEF Meets, Accepts
    <3>11. WakeInv'
      BY <1>1, <3>1, <3>8, <3>10, <1>3, ScanAdvance
    <3> QED
      BY <3>3, <3>4, <3>5, <3>6, <3>9, <3>11, <3>12
  <2>4. CASE syscall[p].type = "SYS_SEND"
    <3>1. proc_try_send(p, "scan") /\ UNCHANGED status
      BY <1>5, <2>4 DEF proc_try_syscall
    <3>2. /\ syscall' \in [Slots -> Syscall] /\ usc' \in [Slots -> Syscall]
          /\ CallInv' /\ DeliverInv'
          /\ \A d \in Slots : Delivered(d)' => Delivered(d) \/ Meets(p, d)
          /\ \A x, d \in Slots : Meets(x, d)' => Meets(x, d)
          /\ kpc' # "fatal" => \A d \in Slots : ~Meets(p, d)'
          /\ kpc' \in {"fatal", "scan"}
      <4>1. UNCHANGED <<pid, status, upc>> /\ p \in Slots
        BY <1>1, <1>3, <3>1
      <4> QED
        BY <1>5, <2>4, <3>1, <4>1, TrySendKeeps
    <3>3. TypeOK' /\ MgmtInv'
      BY <1>1, <1>2, <2>1, <3>1, <3>2 DEF TypeOK, MgmtInv
    <3>4. SlotInv' /\ CoreInv'
      BY <1>1, <2>1, <3>1, <3>2 DEF SlotInv, CoreInv
    <3>5. \A d \in Slots : Delivered(d) => d # p
      BY <2>4 DEF Delivered
    <3>6. \A d \in Slots : Meets(p, d) => d = curr /\ d # p
      BY <1>1, <1>3, <2>4 DEF WakeInv, Meets, Accepts
    <3>7. \A d \in Slots : Delivered(d)' => \/ Delivered(d) /\ d # p
                                            \/ d = curr /\ d # p
      BY <3>2, <3>5, <3>6
    <3>8. kpc' = "scan" => \A x, d \in Slots : Meets(x, d)' => Meets(x, d) /\ x # p
      BY <3>2
    <3>9. WakeInv'
      BY <1>1, <3>2, <3>7, <3>8, <1>3, ScanAdvance
    <3> QED
      BY <3>2, <3>3, <3>4, <3>9
  <2> QED
    BY <1>5, <2>2, <2>3, <2>4 DEF proc_try_syscall
<1> QED
  BY <1>1, <1>3, <1>4, <1>5 DEF ScanStep, Blocked

(* The end of a pass: no message is held and no pair is left to meet.      *)
LEMMA ScanEndInv ==
  ASSUME KernelInv, ScanEnd
  PROVE  KernelInv'
<1> USE DEF KernelInv, procVars, userVars, ScanEnd, LastScan
<1>1. TypeOK' /\ MgmtInv'
  BY DEF TypeOK, MgmtInv
<1>2. SlotInv' /\ CoreInv'
  BY DEF SlotInv, CoreInv
<1>3. CallInv' /\ DeliverInv'
  BY DEF CallInv, DeliverInv, Delivered, Blocked
<1>4. \A i : ~ToScan(i)
  BY DEF ToScan, TypeOK
<1>5. \A d \in Slots : ~Delivered(d)'
  BY <1>4 DEF WakeInv, Delivered, Blocked
<1>6. \A s, d \in Slots : ~Meets(s, d)'
  BY <1>4 DEF WakeInv, Meets, Accepts, Blocked
<1>7. WakeInv'
  BY <1>5, <1>6 DEF WakeInv
<1> QED
  BY <1>1, <1>2, <1>3, <1>7

(* The scheduler picks a process, or finds none.                           *)
LEMMA ScheduleInv ==
  ASSUME KernelInv, Schedule \/ ScheduleNone
  PROVE  KernelInv'
<1> USE DEF KernelInv
<1>1. CASE ScheduleNone
  <2> USE <1>1 DEF ScheduleNone, procVars, userVars
  <2>1. TypeOK' /\ MgmtInv'
    BY DEF TypeOK, MgmtInv
  <2>2. SlotInv' /\ CoreInv'
    BY DEF SlotInv, CoreInv
  <2>3. CallInv' /\ DeliverInv'
    BY DEF CallInv, DeliverInv, Delivered, Blocked
  <2>4. WakeInv'
    BY DEF WakeInv
  <2> QED
    BY <2>1, <2>2, <2>3, <2>4
<1>2. CASE Schedule
  <2>1. PICK n : kpc = "sched" /\ CanRun(n) /\ n \in Scanned /\ Dispatch(n)
    BY <1>2, SlotAtRange DEF Schedule, FirstRunnable, SlotInv
  <2>2. /\ curr' = n /\ kpc' \in {"user", "wild"}
        /\ status[n] \in {"READY", "RUNNABLE"}
        /\ upc' = IF status[n] = "READY" THEN [upc EXCEPT ![n] = "run"] ELSE upc
        /\ UNCHANGED <<pid, syscall, scan, progress, usc, mapped, mgmt>>
    BY <2>1 DEF Dispatch, CanRun
  <2>3. /\ n \in 1..(MAX_NPROCESS - 1) /\ n \in Pids /\ pid[n] = n
        /\ status \in [Slots -> ProcStatus] /\ "RUNNING" \in ProcStatus
    BY <2>1, <2>2 DEF SlotInv, TypeOK, ProcStatus
  <2>4. status' = [status EXCEPT ![n] = "RUNNING"]
    BY <2>1, <2>3, SetStatusSlot DEF Dispatch
  <2>5. /\ status' \in [Slots -> ProcStatus]
        /\ \A i \in Slots : status'[i] = IF i = n THEN "RUNNING" ELSE status[i]
    BY <2>3, <2>4
  <2>6. /\ upc' \in [Slots -> {"run", "trap", "poll"}]
        /\ \A i \in Slots : upc'[i] = IF i = n /\ status[n] = "READY" THEN "run" ELSE upc[i]
    BY <2>2, <2>3 DEF TypeOK
  <2>7. TypeOK'
    BY <2>2, <2>3, <2>5, <2>6 DEF TypeOK
  <2>8. MgmtInv'
    BY <2>2, <2>5 DEF MgmtInv
  <2>9. SlotInv' /\ CoreInv'
    BY <2>1, <2>2, <2>3, <2>5 DEF SlotInv, CoreInv
  <2>10. CallInv'
    BY <2>2, <2>3, <2>5, <2>6 DEF CallInv, Blocked
  <2>11. \A i \in Slots : Blocked(i)' => Blocked(i)
    BY <2>2, <2>5 DEF Blocked
  <2>12. DeliverInv' /\ WakeInv'
    BY <2>1, <2>2, <2>11 DEF WakeInv, DeliverInv, Delivered, Meets, Accepts
  <2> QED
    BY <2>7, <2>8, <2>9, <2>10, <2>12
<1> QED
  BY <1>1, <1>2
-----------------------------------------------------------------------------

(* The machine as GPID_PROCESS is entered.                                 *)
LEMMA InitInv == Init => KernelInv
<1> SUFFICES ASSUME Init PROVE KernelInv
  OBVIOUS
<1> USE DEF Init
<1>1. NoSyscall \in Syscall /\ [op |-> "none", idx |-> 0] \in Mgmt
  BY DEF NoSyscall, Syscall, Mgmt
<1>2. TypeOK
  BY <1>1 DEF TypeOK, ProcStatus
<1>3. SlotInv /\ CoreInv
  BY DEF SlotInv, CoreInv
<1>4. CallInv /\ DeliverInv
  BY DEF CallInv, DeliverInv, Delivered, Blocked
<1>5. WakeInv /\ MgmtInv
  BY DEF WakeInv, Delivered, Meets, Blocked, MgmtInv
<1> QED
  BY <1>2, <1>3, <1>4, <1>5 DEF KernelInv

(* Every step keeps the inductive invariant.                               *)
LEMMA NextInv == KernelInv /\ [Next]_vars => KernelInv'
<1> SUFFICES ASSUME KernelInv, [Next]_vars PROVE KernelInv'
  OBVIOUS
<1>1. CASE User
  BY <1>1, UserInv
<1>2. CASE Manage
  BY <1>2, ManageInv
<1>3. CASE Interrupt
  BY <1>3, InterruptInv
<1>4. CASE Handler
  BY <1>4, IntrSoftTryInv, ProcYieldInv, ScanStepInv, ScanEndInv, ScheduleInv DEF Handler
<1>5. CASE UNCHANGED vars
  <2> USE <1>5 DEF KernelInv, vars
  <2>1. TypeOK' /\ MgmtInv'
    BY DEF TypeOK, MgmtInv
  <2>2. SlotInv' /\ CoreInv'
    BY DEF SlotInv, CoreInv, Blocked
  <2>3. CallInv' /\ DeliverInv'
    BY DEF CallInv, DeliverInv, Delivered, Blocked
  <2>4. WakeInv'
    BY DEF WakeInv, Delivered, Meets, Accepts, Blocked, ToScan, SlotAt
  <2> QED
    BY <2>1, <2>2, <2>3, <2>4
<1> QED
  BY <1>1, <1>2, <1>3, <1>4, <1>5 DEF Next, Spin

(* The process table, the handler's place and the calls in progress are    *)
(* consistent in every state the kernel reaches.                           *)
THEOREM KernelInvariance == Spec => []KernelInv
  BY InitInv, NextInv, PTL DEF Spec

(* Every variable keeps its type, whatever the number of slots.            *)
THEOREM TypeCorrectness == Spec => []TypeOK
<1>1. KernelInv => TypeOK
  BY DEF KernelInv
<1> QED
  BY <1>1, KernelInvariance, PTL

(* proc_try_send(), proc_try_recv() and one pass of the scan over a table  *)
(* of any size leave no pair of processes asleep that could go on.         *)
THEOREM NoWakeupIsLost == Spec => []NoLostWakeup
<1>1. KernelInv => NoLostWakeup
  BY DEF KernelInv, WakeInv, NoLostWakeup
<1> QED
  BY <1>1, KernelInvariance, PTL

(* proc_yield() leaves exactly one process RUNNING, the one on the core.   *)
THEOREM ExactlyOneRuns == Spec => []OneRunning
<1>1. KernelInv => OneRunning
  BY DEF KernelInv, CoreInv, OneRunning
<1> QED
  BY <1>1, KernelInvariance, PTL

(* A process that is back from trap() finds its call done.                 *)
THEOREM PollingIsNeverVain == Spec => []NeverPollsInVain
<1>1. KernelInv => NeverPollsInVain
  <2> SUFFICES ASSUME KernelInv, kpc = "user", upc[curr] = "poll"
               PROVE  usc[curr].status = "DONE"
    BY DEF NeverPollsInVain
  <2>1. curr \in Slots /\ status[curr] = "RUNNING"
    BY DEF KernelInv, SlotInv, CoreInv
  <2> QED
    BY <2>1 DEF KernelInv, CallInv
<1> QED
  BY <1>1, KernelInvariance, PTL

(* No step takes an unused slot to anything but LOADING.                   *)
LEMMA NoRevivalStep ==
  ASSUME KernelInv, [Next]_vars, NEW i \in Slots, status[i] = "UNUSED"
  PROVE  status'[i] \in {"UNUSED", "LOADING"}
<1> USE DEF KernelInv, Managing, Running, procVars
<1>0. status \in [Slots -> ProcStatus] /\ curr \in Pids /\ pid[curr] = curr
  BY DEF TypeOK, SlotInv
<1>1. CASE User
  BY <1>1 DEF User, SysSend, SysRecv, SysReturn
<1>2. CASE Manage
  <2>1. CASE ProcAlloc
    BY <1>0, <2>1 DEF ProcAlloc
  <2>2. CASE ProcSetReady
    <3>1. mgmt.idx \in Pids /\ i # mgmt.idx /\ "READY" \in ProcStatus
      BY <2>2 DEF ProcSetReady, MgmtInv, ProcStatus
    <3> QED
      BY <1>0, <2>2, <3>1, SetStatusSlot DEF ProcSetReady
  <2>3. CASE ProcFreeMark
    <3>1. mgmt.idx \in Pids /\ "UNUSED" \in ProcStatus
      BY <2>3 DEF ProcFreeMark, MgmtInv, ProcStatus
    <3> QED
      BY <1>0, <2>3, <3>1, SetStatusSlot DEF ProcFreeMark
  <2>4. CASE KillAllMark
    BY <1>0, <2>4 DEF KillAllMark
  <2>5. CASE UNCHANGED status
    BY <2>5
  <2> QED
    BY <1>2, <2>1, <2>2, <2>3, <2>4, <2>5
       DEF Manage, ProcAllocFull, ElfLoad, ProcFree, KillAll, KillAllFree, KillAllEnd
<1>3. CASE IntrSoft
  <2>1. i # curr /\ "PENDING_SYSCALL" \in ProcStatus
    BY <1>3 DEF IntrSoft, CoreInv, ProcStatus
  <2> QED
    BY <1>0, <1>3, <2>1, SetStatusSlot DEF IntrSoft
<1>4. CASE IntrSoftTry
  <2>1. Blocked(curr) /\ syscall[curr].status = "PENDING"
    BY <1>4 DEF IntrSoftTry, CoreInv
  <2> QED
    BY <1>4, <2>1 DEF IntrSoftTry, proc_try_syscall, proc_try_recv
<1>5. CASE ProcYield
  <2>1. "RUNNABLE" \in ProcStatus
    BY DEF ProcStatus
  <2>2. SetStatus(status, curr, "RUNNABLE") = IF curr < MAX_NPROCESS
          THEN [status EXCEPT ![curr] = "RUNNABLE"] ELSE status
    BY <1>0, <2>1, SetStatusSlot
  <2> QED
    BY <1>0, <1>5, <2>2 DEF ProcYield
<1>6. CASE ScanStep
  <2>1. PICK p \in Slots : p = SlotAt(scan)
    <3>1. scan \in 1..MAX_NPROCESS /\ curr \in 0..(MAX_NPROCESS - 1)
      BY <1>6 DEF ScanStep, LastScan, TypeOK, SlotInv
    <3> QED
      BY <3>1, SlotAtRange
  <2>2. CASE UNCHANGED status
    BY <2>2
  <2>3. CASE Blocked(p) /\ syscall[p].type = "SYS_RECV" /\ proc_try_recv(p)
    <3>1. CASE syscall[p].status = "PENDING"
      BY <2>3, <3>1 DEF proc_try_recv
    <3>2. CASE syscall[p].status # "PENDING"
      BY <2>3, <3>2, TryRecvDone DEF Blocked
    <3> QED
      BY <3>1, <3>2
  <2> QED
    BY <1>6, <2>1, <2>2, <2>3 DEF ScanStep, proc_try_syscall, Blocked
<1>7. CASE Schedule
  <2>1. PICK n \in Pids : CanRun(n) /\ pid[n] = n /\ Dispatch(n)
    <3>1. curr \in 0..(MAX_NPROCESS - 1)
      BY DEF SlotInv
    <3>2. PICK k \in 1..MAX_NPROCESS : CanRun(SlotAt(k)) /\ Dispatch(SlotAt(k))
      BY <1>7 DEF Schedule, FirstRunnable
    <3>3. SlotAt(k) \in Slots
      BY <3>1, SlotAtRange
    <3> QED
      BY <3>2, <3>3 DEF CanRun, SlotInv
  <2>2. i # n /\ "RUNNING" \in ProcStatus
    BY <2>1 DEF CanRun, ProcStatus
  <2> QED
    BY <1>0, <2>1, <2>2, SetStatusSlot DEF Dispatch
<1>8. CASE UNCHANGED status
  BY <1>8
<1> QED
  BY <1>1, <1>2, <1>3, <1>4, <1>5, <1>6, <1>7, <1>8
     DEF Next, Interrupt, Handler, Spin, vars, IntrTimer, IntrKill, ExcpEntry,
         ScanEnd, ScheduleNone

(* A freed slot stays free until proc_alloc() takes it.                    *)
THEOREM FreedStaysFree == Spec => NoRevival
<1>1. KernelInv /\ [Next]_vars =>
        [\A i \in Slots : status[i] = "UNUSED" => status'[i] \in {"UNUSED", "LOADING"}]_vars
  BY NoRevivalStep
<1> QED
  BY <1>1, KernelInvariance, PTL DEF Spec, NoRevival
=============================================================================
