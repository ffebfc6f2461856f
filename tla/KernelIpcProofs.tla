-------------------------- MODULE KernelIpcProofs ---------------------------
(***************************************************************************)
(* The proof that Kernel implements Rendezvous under the mapping callOf,   *)
(* for every number of slots and every set of messages.                    *)
(***************************************************************************)
EXTENDS KernelProofs

USE KernelAssumption DEF Slots, Pids, Scanned, GPID_ALL, GPID_PROCESS

Dead == [op |-> "dead"]
Idle == [op |-> "idle"]

(* What the rest of a process's state does not change, callOf does not.    *)
LEMMA CallFrame ==
  ASSUME NEW p \in Pids, status'[p] = status[p], syscall'[p] = syscall[p],
         usc'[p] = usc[p], upc'[p] = upc[p], Taken(p)' <=> Taken(p)
  PROVE  CallOf(p)' = CallOf(p)
  BY DEF CallOf, Blocked

(* Outside the scan and the yield no blocked sender has been served.       *)
LEMMA NoneTaken ==
  ASSUME KernelInv, kpc \in {"user", "try", "sched"}
  PROVE  \A p \in Pids : ~Taken(p)
  BY DEF KernelInv, WakeInv, Taken

(* The same of the state after a step.                                     *)
LEMMA NoneTakenNext ==
  ASSUME KernelInv', kpc' \in {"user", "try", "sched"}
  PROVE  \A p \in Pids : ~Taken(p)'
  BY DEF KernelInv, WakeInv, Taken

(* A step that leaves statuses and calls alone serves no sender.           *)
LEMMA TakenFrame ==
  ASSUME UNCHANGED <<status, syscall>>
  PROVE  \A p \in Pids : Taken(p)' <=> Taken(p)
  BY DEF Taken, Delivered, Blocked

(* If no process's call changes, neither does callOf.                      *)
LEMMA Stutter ==
  ASSUME \A q \in Pids : CallOf(q)' = CallOf(q)
  PROVE  callOf' = callOf
  BY DEF callOf

(* One process changes its call, in a way Rendezvous allows.               *)
LEMMA OneCall ==
  ASSUME NEW p \in Pids, \A q \in Pids : q # p => CallOf(q)' = CallOf(q),
         \/ CallOf(p)' = CallOf(p)
         \/ CallOf(p)' = Dead
         \/ CallOf(p) = Dead /\ CallOf(p)' = Idle
         \/ CallOf(p).op \in {"sent", "got"} /\ CallOf(p)' = Idle
         \/ /\ CallOf(p) = Idle
            /\ \E r \in Pids, m \in Msg :
                 CallOf(p)' = [op |-> "send", to |-> r, msg |-> m]
         \/ /\ CallOf(p) = Idle
            /\ \E f \in Pids \cup {GPID_ALL} :
                 CallOf(p)' = [op |-> "recv", from |-> f]
  PROVE  [R!Next]_callOf
<1>1. callOf' = [callOf EXCEPT ![p] = CallOf(p)']
  BY DEF callOf
<1>2. callOf[p] = CallOf(p) /\ callOf'[p] = CallOf(p)'
  BY DEF callOf
<1>3. CASE CallOf(p)' = CallOf(p)
  BY <1>3, Stutter
<1>4. CASE CallOf(p)' = Dead
  BY <1>1, <1>2, <1>4 DEF R!Next, R!Kill, R!Dead, Dead
<1>5. CASE CallOf(p) = Dead /\ CallOf(p)' = Idle
  BY <1>1, <1>2, <1>5 DEF R!Next, R!Start, R!Dead, R!Idle, Dead, Idle
<1>6. CASE CallOf(p).op \in {"sent", "got"} /\ CallOf(p)' = Idle
  BY <1>1, <1>2, <1>6 DEF R!Next, R!Return, R!Idle, Idle
<1>7. ASSUME CallOf(p) = Idle, NEW r \in Pids, NEW m \in Msg,
             CallOf(p)' = [op |-> "send", to |-> r, msg |-> m]
      PROVE  R!Next
  BY <1>1, <1>2, <1>7 DEF R!Next, R!Send, R!Sending, R!Idle, Idle
<1>8. ASSUME CallOf(p) = Idle, NEW f \in Pids \cup {GPID_ALL},
             CallOf(p)' = [op |-> "recv", from |-> f]
      PROVE  R!Next
  BY <1>1, <1>2, <1>8 DEF R!Next, R!Receive, R!Receiving, R!Idle, Idle
<1> QED
  BY <1>3, <1>4, <1>5, <1>6, <1>7, <1>8
-----------------------------------------------------------------------------

(* Initially GPID_PROCESS is idle and nobody else exists.                  *)
LEMMA InitRefines == Init => R!Init
<1> SUFFICES ASSUME Init PROVE R!Init
  OBVIOUS
<1>1. ASSUME NEW p \in Pids PROVE CallOf(p) \in {Dead, Idle}
  BY DEF Init, CallOf, Blocked, Dead, Idle
<1> QED
  BY <1>1 DEF R!Init, R!Dead, R!Idle, callOf, Dead, Idle

(* User steps prepare a call or return from one.                           *)
LEMMA UserRefines ==
  ASSUME KernelInv, KernelInv', User
  PROVE  [R!Next]_callOf
<1>1. PICK p \in Pids : /\ Running(p) /\ UNCHANGED <<procVars, coreVars>>
                        /\ \A q \in Slots : q # p => usc'[q] = usc[q] /\ upc'[q] = upc[q]
                        /\ \/ upc[p] = "run" /\ upc'[p] = "trap"
                           \/ upc[p] = "poll" /\ upc'[p] = "run"
  <2>1. PICK p \in Pids : \/ \E r \in Pids, m \in Msg : SysSend(p, r, m)
                          \/ \E f \in Pids \cup {GPID_ALL} : SysRecv(p, f)
                          \/ SysReturn(p)
    BY DEF User
  <2>2. usc \in [Slots -> Syscall] /\ upc \in [Slots -> {"run", "trap", "poll"}]
    BY DEF KernelInv, TypeOK
  <2>3. CASE \E r \in Pids, m \in Msg : SysSend(p, r, m)
    BY <2>2, <2>3 DEF SysSend, InUserCode
  <2>4. CASE \E f \in Pids \cup {GPID_ALL} : SysRecv(p, f)
    BY <2>2, <2>4 DEF SysRecv, InUserCode
  <2>5. CASE SysReturn(p)
    BY <2>2, <2>5 DEF SysReturn
  <2> QED
    BY <2>1, <2>3, <2>4, <2>5
<1>2. \A q \in Pids : q # p => CallOf(q)' = CallOf(q)
  BY <1>1, CallFrame, TakenFrame DEF procVars
<1>3. status[p] = "RUNNING" /\ status'[p] = "RUNNING"
  BY <1>1 DEF Running, KernelInv, CoreInv, procVars
<1>4. CASE upc[p] = "run" /\ upc'[p] = "trap"
  <2>1. CallOf(p)' = CallOf(p)
    BY <1>3, <1>4 DEF CallOf, Blocked
  <2> QED
    BY <1>2, <2>1, OneCall
<1>5. CASE upc[p] = "poll" /\ upc'[p] = "run"
  <2>1. CallOf(p).op \in {"sent", "got"}
    BY <1>3, <1>5 DEF CallOf, Blocked
  <2>2. CallOf(p)' = Idle
    BY <1>3, <1>5 DEF CallOf, Blocked, Idle
  <2> QED
    BY <1>2, <2>1, <2>2, OneCall
<1> QED
  BY <1>1, <1>4, <1>5

(* Allocating, loading, releasing or freeing the process in slot n.        *)
LEMMA SlotRefines ==
  ASSUME KernelInv, KernelInv', kpc = "user", kpc' = "user",
         UNCHANGED <<syscall, upc>>, NEW n \in Pids,
         \A q \in Pids : q # n => status'[q] = status[q] /\ usc'[q] = usc[q],
         \/ status'[n] \in {"UNUSED", "LOADING"}
         \/ status[n] = "LOADING" /\ status'[n] = "READY"
  PROVE  [R!Next]_callOf
<1>1. \A q \in Pids : ~Taken(q) /\ ~Taken(q)'
  BY NoneTaken, NoneTakenNext
<1>2. \A q \in Pids : q # n => CallOf(q)' = CallOf(q)
  BY <1>1, CallFrame
<1>3. CASE status'[n] \in {"UNUSED", "LOADING"}
  <2>1. CallOf(n)' = Dead
    BY <1>3 DEF CallOf, Dead, Blocked
  <2> QED
    BY <1>2, <2>1, OneCall
<1>4. CASE status[n] = "LOADING" /\ status'[n] = "READY"
  <2>1. CallOf(n) = Dead /\ CallOf(n)' = Idle
    BY <1>4 DEF CallOf, Dead, Idle, Blocked
  <2> QED
    BY <1>2, <2>1, OneCall
<1> QED
  BY <1>3, <1>4

(* Process management starts and kills processes.                          *)
LEMMA ManageRefines ==
  ASSUME KernelInv, KernelInv', Manage
  PROVE  [R!Next]_callOf
<1> USE DEF Managing, Running
<1>0. kpc = "user" /\ kpc' = "user" /\ curr = GPID_PROCESS /\ UNCHANGED <<syscall, upc>>
  BY DEF Manage, ProcAlloc, ProcAllocFull, ElfLoad, ProcSetReady, ProcFree,
         ProcFreeMark, KillAll, KillAllFree, KillAllMark, KillAllEnd,
         procVars, coreVars
<1>1. status \in [Slots -> ProcStatus] /\ usc \in [Slots -> Syscall] /\ SlotInv
  BY DEF KernelInv, TypeOK
<1>2. CASE UNCHANGED <<status, usc>>
  <2>1. \A q \in Pids : ~Taken(q) /\ ~Taken(q)'
    BY <1>0, NoneTaken, NoneTakenNext
  <2> QED
    BY <1>0, <1>2, <2>1, CallFrame, Stutter
<1>3. CASE ProcAlloc
  <2>1. PICK n \in Pids : status' = [status EXCEPT ![n] = "LOADING"] /\ UNCHANGED usc
    BY <1>3 DEF ProcAlloc
  <2> QED
    BY <1>0, <1>1, <2>1, SlotRefines
<1>4. CASE ElfLoad
  <2>1. PICK n \in Pids : /\ status[n] = "LOADING" /\ UNCHANGED status
                          /\ usc' = [usc EXCEPT ![n] = NoSyscall]
    BY <1>4 DEF ElfLoad, KernelInv, MgmtInv, procVars
  <2> QED
    BY <1>0, <1>1, <2>1, SlotRefines
<1>5. CASE ProcSetReady
  <2>1. PICK n \in Pids : /\ status[n] = "LOADING" /\ UNCHANGED usc
                          /\ status' = SetStatus(status, n, "READY")
    BY <1>5 DEF ProcSetReady, KernelInv, MgmtInv
  <2>2. "READY" \in ProcStatus
    BY DEF ProcStatus
  <2> QED
    BY <1>0, <1>1, <2>1, <2>2, SetStatusSlot, SlotRefines
<1>6. CASE ProcFreeMark
  <2>1. PICK n \in Pids : /\ UNCHANGED usc
                          /\ status' = SetStatus(status, n, "UNUSED")
    BY <1>6 DEF ProcFreeMark, KernelInv, MgmtInv
  <2>2. "UNUSED" \in ProcStatus
    BY DEF ProcStatus
  <2>3. status'[n] \in {"UNUSED", "LOADING"}
    BY <1>1, <2>1, <2>2, SetStatusSlot DEF SlotInv
  <2> QED
    BY <1>0, <1>1, <2>1, <2>2, <2>3, SetStatusSlot, SlotRefines
<1>7. CASE KillAllMark
  <2>1. PICK n \in Pids : status' = [status EXCEPT ![n] = "UNUSED"] /\ UNCHANGED usc
    <3>1. mgmt.idx \in Pids
      BY <1>7 DEF KillAllMark, KernelInv, MgmtInv, TypeOK, Mgmt
    <3> QED
      BY <1>7, <3>1 DEF KillAllMark
  <2> QED
    BY <1>0, <1>1, <2>1, SlotRefines
<1> QED
  BY <1>2, <1>3, <1>4, <1>5, <1>6, <1>7
     DEF Manage, ProcAllocFull, ProcFree, KillAll, KillAllFree, KillAllEnd, procVars

(* A trap begins a call; the other interrupts change no call.              *)
LEMMA InterruptRefines ==
  ASSUME KernelInv, KernelInv', Interrupt
  PROVE  [R!Next]_callOf
<1>0. /\ curr \in Pids /\ upc \in [Slots -> {"run", "trap", "poll"}]
      /\ status \in [Slots -> ProcStatus]
      /\ SlotInv /\ curr < MAX_NPROCESS /\ pid[curr] = curr
  <2>1. TypeOK /\ SlotInv
    BY DEF KernelInv
  <2>2. upc \in [Slots -> {"run", "trap", "poll"}] /\ status \in [Slots -> ProcStatus]
    BY <2>1 DEF TypeOK
  <2>3. curr \in Pids /\ curr < MAX_NPROCESS /\ pid[curr] = curr
    BY <2>1 DEF SlotInv
  <2> QED
    BY <2>1, <2>2, <2>3
<1>1. CASE IntrTimer \/ ExcpEntry
  <2>1. UNCHANGED <<status, syscall, usc, upc>>
    BY <1>1 DEF IntrTimer, ExcpEntry, procVars, userVars
  <2> QED
    BY <2>1, CallFrame, TakenFrame, Stutter
<1>2. PICK c \in Pids : c = curr
  BY <1>0
<1>3. kpc = "user" => status[c] = "RUNNING"
  BY <1>2 DEF KernelInv, CoreInv
<1>4. CASE IntrKill
  <2>1. kpc = "user" /\ UNCHANGED <<status, syscall, usc>> /\ upc' = [upc EXCEPT ![c] = "run"]
    BY <1>2, <1>4 DEF IntrKill, procVars
  <2>2. \A q \in Pids : q # c => CallOf(q)' = CallOf(q)
    BY <1>0, <2>1, CallFrame, TakenFrame
  <2>3. status[c] = "RUNNING" /\ status'[c] = "RUNNING" /\ upc'[c] = "run"
    BY <1>0, <1>3, <2>1
  <2>4. CallOf(c)' = Idle
    BY <2>3 DEF CallOf, Blocked, Idle
  <2>5. CASE upc[c] = "poll"
    <3>1. CallOf(c).op \in {"sent", "got"}
      BY <2>3, <2>5 DEF CallOf, Blocked
    <3> QED
      BY <2>2, <2>4, <3>1, OneCall
  <2>6. CASE upc[c] # "poll"
    <3>1. CallOf(c) = Idle
      BY <2>3, <2>6 DEF CallOf, Blocked, Idle
    <3> QED
      BY <2>2, <2>4, <3>1, OneCall
  <2> QED
    BY <2>5, <2>6
<1>5. CASE IntrSoft
  <2>1. /\ kpc = "user" /\ kpc' = "try" /\ upc[c] = "trap" /\ usc' = usc
        /\ syscall' = [syscall EXCEPT ![c] = [usc[c] EXCEPT !.status = "PENDING"]]
        /\ upc' = [upc EXCEPT ![c] = "poll"]
        /\ status' = SetStatus(status, c, "PENDING_SYSCALL")
        /\ "PENDING_SYSCALL" \in ProcStatus
    BY <1>0, <1>2, <1>5 DEF IntrSoft, ProcStatus
  <2>2. status' = [status EXCEPT ![c] = "PENDING_SYSCALL"]
    BY <1>0, <1>2, <2>1, SetStatusSlot
  <2>3. \A q \in Pids : ~Taken(q) /\ ~Taken(q)'
    BY <2>1, NoneTaken, NoneTakenNext
  <2>4. syscall \in [Slots -> Syscall] /\ usc[c] \in Syscall
    <3>1. syscall \in [Slots -> Syscall] /\ usc \in [Slots -> Syscall]
      BY DEF KernelInv, TypeOK
    <3> QED
      BY <3>1
  <2>5. \A q \in Pids : q # c => CallOf(q)' = CallOf(q)
    BY <1>0, <2>1, <2>2, <2>3, <2>4, CallFrame
  <2>6. /\ syscall'[c].type = usc[c].type /\ syscall'[c].peer = usc[c].peer
        /\ syscall'[c].content = usc[c].content /\ syscall'[c].status = "PENDING"
    BY <2>1, <2>4 DEF Syscall
  <2>7. CallOf(c) = Idle
    BY <1>3, <2>1 DEF CallOf, Blocked, Idle
  <2>8. IsCall(usc[c]) /\ status'[c] = "PENDING_SYSCALL"
    BY <1>0, <1>3, <2>1, <2>2 DEF KernelInv, CallInv
  <2>9. CASE /\ usc[c].type = "SYS_SEND" /\ usc[c].peer \in Pids /\ usc[c].content \in Msg
    <3>1. CallOf(c)' = [op |-> "send", to |-> usc[c].peer, msg |-> usc[c].content]
      BY <2>3, <2>6, <2>8, <2>9 DEF CallOf, Blocked
    <3> QED
      BY <2>5, <2>7, <2>9, <3>1, OneCall
  <2>10. CASE usc[c].type = "SYS_RECV" /\ usc[c].peer \in Pids \cup {GPID_ALL}
    <3>1. CallOf(c)' = [op |-> "recv", from |-> usc[c].peer]
      BY <2>6, <2>8, <2>10 DEF CallOf, Blocked
    <3> QED
      BY <2>5, <2>7, <2>10, <3>1, OneCall
  <2> QED
    BY <2>8, <2>9, <2>10 DEF IsCall
<1> QED
  BY <1>1, <1>4, <1>5 DEF Interrupt

(* proc_try_send() passes the message, or leaves every call as it is.      *)
LEMMA TrySendRefines ==
  ASSUME KernelInv, KernelInv', NEW s \in Slots, Blocked(s),
         syscall[s].type = "SYS_SEND", NEW next, proc_try_send(s, next),
         UNCHANGED <<pid, status, upc>>
  PROVE  [R!Next]_callOf
<1>1. CASE UNCHANGED <<syscall, usc>>
  BY <1>1, CallFrame, TakenFrame, Stutter
<1>2. ASSUME NEW d \in Pids, d = syscall[s].peer, d # s, pid[d] = d, Accepts(d, s),
             syscall' = [syscall EXCEPT ![d] =
                          [type |-> "SYS_RECV", peer |-> s,
                           content |-> syscall[s].content, status |-> "DONE"]],
             usc' = [usc EXCEPT ![s].status = "DONE"]
      PROVE  [R!Next]_callOf
  <2>1. /\ s \in Pids /\ pid[s] = s
        /\ syscall \in [Slots -> Syscall] /\ usc \in [Slots -> Syscall]
        /\ syscall[s].content \in Msg
    BY DstSlot DEF KernelInv, TypeOK, CallInv, IsCall
  <2>2. /\ \A i \in Slots : i # d => syscall'[i] = syscall[i]
        /\ syscall'[d].type = "SYS_RECV" /\ syscall'[d].peer = s
        /\ syscall'[d].content = syscall[s].content /\ syscall'[d].status = "DONE"
        /\ \A i \in Slots : i # s => usc'[i] = usc[i]
        /\ syscall[d].type = "SYS_RECV" /\ syscall[d].status = "PENDING"
        /\ syscall[d].peer \in {GPID_ALL, s}
    BY <1>2, <2>1 DEF Accepts
  <2>3. \A q \in Slots : Blocked(q)' <=> Blocked(q)
    BY DEF Blocked
  <2>4. \A q \in Pids : q # s => (Taken(q)' <=> Taken(q))
    BY <2>1, <2>2, <2>3 DEF Taken, Delivered
  <2>5. \A q \in Pids : q # s /\ q # d => CallOf(q)' = CallOf(q)
    BY <2>2, <2>4, CallFrame
  <2>6. ~Taken(s)
    BY <1>2, <2>1, <2>2 DEF Taken, Delivered, KernelInv, DeliverInv
  <2>7. CASE ~Blocked(d)
    <3>1. CallOf(d)' = CallOf(d)
      BY <1>2, <2>2, <2>3, <2>7 DEF CallOf
    <3>2. ~Taken(s)'
      BY <2>1, <2>2, <2>3, <2>6, <2>7 DEF Taken, Delivered
    <3>3. CallOf(s)' = CallOf(s)
      BY <1>2, <2>1, <2>2, <2>3, <2>6, <3>2 DEF CallOf, Blocked
    <3> QED
      BY <2>1, <2>5, <3>1, <3>3, Stutter
  <2>8. CASE Blocked(d)
    <3>1. Taken(s)'
      BY <2>2, <2>3, <2>8 DEF Taken, Delivered
    <3>2. /\ CallOf(s) = [op |-> "send", to |-> d, msg |-> syscall[s].content]
          /\ CallOf(s)' = [op |-> "sent"]
      BY <1>2, <2>1, <2>2, <2>3, <2>6, <3>1 DEF CallOf, Blocked
    <3>3. /\ CallOf(d) = [op |-> "recv", from |-> syscall[d].peer]
          /\ CallOf(d)' = [op |-> "got", from |-> s, msg |-> syscall[s].content]
      BY <1>2, <2>2, <2>3, <2>8 DEF CallOf, Blocked
    <3>4. callOf' = [callOf EXCEPT ![s] = [op |-> "sent"],
                       ![d] = [op |-> "got", from |-> s, msg |-> syscall[s].content]]
      BY <1>2, <2>1, <2>5, <3>2, <3>3 DEF callOf
    <3>5. callOf[s] = CallOf(s) /\ callOf[d] = CallOf(d)
      BY <2>1 DEF callOf
    <3>6. R!Transfer(s, d)
      BY <2>1, <2>2, <3>2, <3>3, <3>4, <3>5
         DEF R!Transfer, R!Meet, R!Sending, R!Receiving, R!Sent, R!Got
    <3> QED
      BY <2>1, <3>6 DEF R!Next
  <2> QED
    BY <2>7, <2>8
<1> QED
  BY <1>1, <1>2, TrySendCases

(* The handler only passes messages.                                       *)
LEMMA HandlerRefines ==
  ASSUME KernelInv, KernelInv', Handler
  PROVE  [R!Next]_callOf
<1> USE DEF KernelInv
<1>0. /\ status \in [Slots -> ProcStatus] /\ upc \in [Slots -> {"run", "trap", "poll"}]
      /\ curr \in 1..(MAX_NPROCESS - 1) /\ pid[curr] = curr
  BY DEF TypeOK, SlotInv
<1>1. CASE UNCHANGED <<status, syscall, usc, upc>>
  BY <1>1, CallFrame, TakenFrame, Stutter
<1>2. CASE IntrSoftTry
  <2>1. /\ curr \in Slots /\ Blocked(curr) /\ syscall[curr].status = "PENDING"
        /\ proc_try_syscall(curr, "yield") /\ UNCHANGED <<pid, upc>>
    BY <1>0, <1>2 DEF IntrSoftTry, CoreInv
  <2>2. CASE syscall[curr].type = "SYS_RECV"
    BY <1>1, <2>1, <2>2 DEF proc_try_syscall, proc_try_recv
  <2>3. CASE syscall[curr].type = "SYS_SEND"
    BY <2>1, <2>3, TrySendRefines DEF proc_try_syscall
  <2> QED
    BY <2>1, <2>2, <2>3 DEF proc_try_syscall
<1>3. CASE ProcYield
  <2>1. PICK c \in Pids : c = curr
    BY <1>0
  <2>2. UNCHANGED <<syscall, usc, upc>> /\ "RUNNABLE" \in ProcStatus
    BY <1>3 DEF ProcYield, userVars, ProcStatus
  <2>3. SetStatus(status, c, "RUNNABLE") = [status EXCEPT ![c] = "RUNNABLE"]
    BY <1>0, <2>1, <2>2, SetStatusSlot
  <2>4. status' = IF status[c] = "RUNNING" THEN [status EXCEPT ![c] = "RUNNABLE"] ELSE status
    BY <1>0, <1>3, <2>1, <2>3 DEF ProcYield
  <2>5. \A q \in Slots : q # c => status'[q] = status[q]
    BY <1>0, <2>4
  <2>6. \A q \in Slots : Blocked(q)' <=> Blocked(q)
    BY <1>0, <2>4 DEF Blocked
  <2>7. \A q \in Pids : Taken(q)' <=> Taken(q)
    BY <2>2, <2>6 DEF Taken, Delivered
  <2>8. \A q \in Pids : q # c => CallOf(q)' = CallOf(q)
    BY <2>2, <2>5, <2>7, CallFrame
  <2>9. CASE status[c] # "RUNNING"
    BY <1>1, <2>2, <2>4, <2>9
  <2>10. CASE status[c] = "RUNNING"
    <3>1. status'[c] = "RUNNABLE"
      BY <1>0, <2>4, <2>10
    <3>2. CallOf(c)' = CallOf(c)
      BY <2>2, <2>10, <3>1 DEF CallOf, Blocked
    <3> QED
      BY <2>8, <3>2, Stutter
  <2> QED
    BY <2>9, <2>10
<1>4. CASE ScanStep
  <2>1. PICK p \in Slots : p = SlotAt(scan)
    <3>1. scan \in 1..MAX_NPROCESS /\ curr \in 0..(MAX_NPROCESS - 1)
      BY <1>0, <1>4 DEF ScanStep, LastScan, TypeOK
    <3> QED
      BY <3>1, SlotAtRange
  <2>2. UNCHANGED <<pid, upc>>
    BY <1>4 DEF ScanStep
  <2>3. CASE Blocked(p) /\ syscall[p].type = "SYS_SEND" /\ proc_try_send(p, "scan") /\ UNCHANGED status
    BY <2>2, <2>3, TrySendRefines
  <2>4. CASE /\ Blocked(p) /\ syscall[p].type = "SYS_RECV" /\ UNCHANGED syscall
             /\ proc_try_recv(p) /\ syscall[p].status # "PENDING"
    <3>1. PICK s \in Slots :
            /\ Delivered(p) /\ s = syscall[p].peer /\ s # p
            /\ Blocked(s) /\ syscall[s].type = "SYS_SEND"
            /\ usc[s].type = "SYS_SEND" /\ upc[s] = "poll" /\ upc[p] = "poll"
            /\ \A i \in Slots : status'[i] = IF i \in {p, s} THEN "RUNNABLE" ELSE status[i]
            /\ \A i \in Slots : usc'[i] = IF i = p THEN syscall[p] ELSE usc[i]
      BY <2>4, TryRecvDone
    <3>2. s \in Pids /\ p \in Pids
      BY <3>1, <2>4 DEF SlotInv, Blocked
    <3>3. \A q \in Slots : q # p /\ q # s => (Blocked(q)' <=> Blocked(q))
      BY <3>1 DEF Blocked
    <3>4. ~Delivered(s) /\ ~Delivered(s)' /\ ~Delivered(p)'
      BY <2>4, <3>1 DEF Delivered, Blocked
    <3>5. \A q \in Pids : q # s => (Taken(q)' <=> Taken(q))
      BY <2>4, <3>1, <3>3, <3>4 DEF Taken, Delivered
    <3>6. \A q \in Pids : q # p /\ q # s => CallOf(q)' = CallOf(q)
      BY <2>2, <2>4, <3>1, <3>5, CallFrame
    <3>7. CallOf(p)' = CallOf(p)
      BY <2>2, <2>4, <3>1, <3>2 DEF CallOf, Blocked, Delivered
    <3>8. Taken(s)
      BY <3>1 DEF Taken
    <3>9. CallOf(s)' = CallOf(s)
      BY <2>2, <2>4, <3>1, <3>2, <3>8 DEF CallOf, Blocked
    <3> QED
      BY <3>6, <3>7, <3>9, Stutter
  <2>5. CASE Blocked(p) /\ syscall[p].status = "PENDING" /\ proc_try_recv(p) /\ UNCHANGED syscall
    BY <1>1, <2>2, <2>5 DEF proc_try_recv
  <2>6. CASE UNCHANGED <<status, syscall, usc>>
    BY <1>1, <2>2, <2>6
  <2> QED
    BY <1>4, <2>1, <2>3, <2>4, <2>5, <2>6 DEF ScanStep, proc_try_syscall, Blocked
<1>5. CASE Schedule
  <2>1. PICK n \in Pids : kpc = "sched" /\ CanRun(n) /\ pid[n] = n /\ n < MAX_NPROCESS /\ Dispatch(n)
    <3>1. PICK k \in 1..MAX_NPROCESS : kpc = "sched" /\ CanRun(SlotAt(k)) /\ Dispatch(SlotAt(k))
      BY <1>5 DEF Schedule, FirstRunnable
    <3>2. SlotAt(k) \in 0..(MAX_NPROCESS - 1)
      BY <1>0, SlotAtRange
    <3> QED
      BY <3>1, <3>2 DEF CanRun, SlotInv
  <2>2. /\ UNCHANGED <<syscall, usc>> /\ "RUNNING" \in ProcStatus
        /\ status' = SetStatus(status, n, "RUNNING")
        /\ upc' = IF status[n] = "READY" THEN [upc EXCEPT ![n] = "run"] ELSE upc
    BY <2>1 DEF Dispatch, ProcStatus
  <2>3. status' = [status EXCEPT ![n] = "RUNNING"]
    BY <1>0, <2>1, <2>2, SetStatusSlot
  <2>4. \A q \in Slots : q # n => status'[q] = status[q] /\ upc'[q] = upc[q]
    BY <1>0, <2>2, <2>3
  <2>5. status'[n] = "RUNNING" /\ upc'[n] = IF status[n] = "READY" THEN "run" ELSE upc[n]
    BY <1>0, <2>2, <2>3
  <2>6. \A q \in Slots : Blocked(q)' <=> Blocked(q)
    BY <2>1, <2>4, <2>5 DEF Blocked, CanRun
  <2>7. \A q \in Pids : Taken(q)' <=> Taken(q)
    BY <2>2, <2>6 DEF Taken, Delivered
  <2>8. \A q \in Pids : q # n => CallOf(q)' = CallOf(q)
    BY <2>2, <2>4, <2>7, CallFrame
  <2>9. CallOf(n)' = CallOf(n)
    BY <2>1, <2>2, <2>5 DEF CallOf, Blocked, CanRun
  <2> QED
    BY <2>8, <2>9, Stutter
<1> QED
  BY <1>1, <1>2, <1>3, <1>4, <1>5
     DEF Handler, ScanEnd, ScheduleNone, procVars, userVars

(* The kernel's system calls are rendezvous: see IpcRefines.               *)
THEOREM KernelImplementsRendezvous == Spec => IpcRefines
<1>1. KernelInv /\ KernelInv' /\ [Next]_vars => [R!Next]_callOf
  <2> SUFFICES ASSUME KernelInv, KernelInv', [Next]_vars PROVE [R!Next]_callOf
    OBVIOUS
  <2>1. CASE UNCHANGED vars
    BY <2>1, CallFrame, TakenFrame, Stutter DEF vars
  <2> QED
    BY <2>1, UserRefines, ManageRefines, InterruptRefines, HandlerRefines DEF Next, Spin
<1> QED
  BY <1>1, InitRefines, KernelInvariance, PTL DEF Spec, R!Spec, IpcRefines
=============================================================================
