--------------------------- MODULE SoftTlbProofs ----------------------------
(***************************************************************************)
(* SoftTlb keeps its page tables consistent and the processes apart, for   *)
(* any number of processes, pages and contents.                            *)
(***************************************************************************)
EXTENDS SoftTlb, TLAPS

USE SoftTlbAssumption DEF GPID_PROCESS, Page

(* Every field of job is there when its op says so.                        *)
LEMMA JobFields ==
  ASSUME job \in Job
  PROVE  /\ job.op \in {"none", "full", "map", "free", "pfree"}
         /\ job.op \in {"map", "pfree"} => job.page \in Page
         /\ job.op \in {"free", "pfree"} => job.pid \in Pid
  BY DEF Job, NoJob

(* Initially only GPID_PROCESS has pages and its memory is in place.       *)
LEMMA InitInv == Init => SoftTlbInv
<1> SUFFICES ASSUME Init PROVE SoftTlbInv
  OBVIOUS
<1>1. TypeOK
  BY DEF Init, TypeOK, Job
<1>2. \A i \in Page : ~InHand(i)
  BY DEF Init, InHand, NoJob
<1> QED
  BY <1>1, <1>2 DEF Init, SoftTlbInv, PagesAccountedFor, OwnAddressSpace

(* mmu_alloc(), mmu_map(), mmu_free() and the loader's stores.             *)
LEMMA LoaderInv == SoftTlbInv /\ Loader => SoftTlbInv'
<1> SUFFICES ASSUME SoftTlbInv, Loader PROVE SoftTlbInv'
  OBVIOUS
<1> USE DEF SoftTlbInv
<1>1. job \in Job
  BY DEF TypeOK
<1>2. CASE MmuAlloc
  <2>1. PICK i \in Page : /\ Free(i) /\ bitmap' = bitmap \cup {i}
                          /\ frame' = [frame EXCEPT ![i] = Zero]
                          /\ job' = [op |-> "map", page |-> i]
    BY <1>2 DEF MmuAlloc
  <2>2. job = NoJob /\ UNCHANGED <<owner, vpage, user, curr_vm_pid, running, inKernel>>
    BY <1>2 DEF MmuAlloc
  <2>3. job' \in Job
    BY <2>1 DEF Job
  <2>4. \A j \in Page : ~InHand(j) /\ (InHand(j)' <=> j = i)
    BY <2>1, <2>2 DEF InHand, NoJob
  <2>5. TypeOK'
    BY <2>1, <2>2, <2>3 DEF TypeOK
  <2>6. PagesAccountedFor'
    BY <2>1, <2>2, <2>4 DEF PagesAccountedFor, Free
  <2> QED
    BY <2>2, <2>5, <2>6 DEF OwnAddressSpace
<1>3. CASE MmuAllocFull
  <2>1. \A j \in Page : ~InHand(j) /\ ~InHand(j)'
    BY <1>3 DEF MmuAllocFull, InHand, NoJob
  <2>2. job' \in Job
    BY <1>3 DEF MmuAllocFull, Job
  <2> QED
    BY <1>3, <2>1, <2>2 DEF MmuAllocFull, tables, TypeOK, PagesAccountedFor, OwnAddressSpace
<1>4. CASE Pfree
  <2>1. /\ job.op = "pfree" /\ job.page \in Page /\ job.pid \in Pid
        /\ bitmap' = bitmap \ {job.page}
        /\ UNCHANGED <<owner, vpage, frame, user, curr_vm_pid, running, inKernel>>
    BY <1>1, <1>4, JobFields DEF Pfree
  <2>2. job' \in Job /\ job'.op \in {"none", "free"}
    BY <1>4, <2>1 DEF Pfree, Job, NoJob
  <2>3. \A j \in Page : ~InHand(j)' /\ (InHand(j) <=> j = job.page)
    BY <2>1, <2>2 DEF InHand
  <2>4. PagesAccountedFor'
    BY <2>1, <2>3 DEF PagesAccountedFor
  <2> QED
    BY <2>1, <2>2, <2>4 DEF TypeOK, OwnAddressSpace
<1>5. ASSUME NEW p \in Pid, MmuFree(p) PROVE SoftTlbInv'
  <2>1. PICK i \in Page : /\ owner[i] = p /\ owner' = [owner EXCEPT ![i] = 0]
                          /\ job' = [op |-> "pfree", pid |-> p, page |-> i]
    BY <1>5 DEF MmuFree
  <2>2. /\ job.op \in {"none", "free"}
        /\ UNCHANGED <<bitmap, vpage, frame, user, curr_vm_pid, running, inKernel>>
    BY <1>5 DEF MmuFree, NoJob
  <2>3. job' \in Job
    BY <2>1 DEF Job
  <2>4. \A j \in Page : ~InHand(j) /\ (InHand(j)' <=> j = i)
    BY <2>1, <2>2 DEF InHand
  <2>5. PagesAccountedFor'
    BY <2>1, <2>2, <2>4 DEF PagesAccountedFor, TypeOK
  <2> QED
    BY <2>1, <2>2, <2>3, <2>5 DEF TypeOK, OwnAddressSpace
<1>6. ASSUME NEW p \in Pid, NEW v \in VPage, MmuMap(p, v) PROVE SoftTlbInv'
  <2>1. /\ job.op = "map" /\ job.page \in Page /\ ~Has(p, v)
        /\ owner' = [owner EXCEPT ![job.page] = p]
        /\ vpage' = [vpage EXCEPT ![job.page] = v]
        /\ job' = NoJob
        /\ UNCHANGED <<bitmap, frame, user, curr_vm_pid, running, inKernel>>
    BY <1>1, <1>6, JobFields DEF MmuMap
  <2>2. job' \in Job
    BY <2>1 DEF Job
  <2>3. \A j \in Page : ~InHand(j)' /\ (InHand(j) <=> j = job.page)
    BY <2>1 DEF InHand, NoJob
  <2>4. PagesAccountedFor'
    BY <2>1, <2>3 DEF PagesAccountedFor, Has, Maps, TypeOK
  <2> QED
    BY <2>1, <2>2, <2>4 DEF TypeOK, OwnAddressSpace
<1>7. ASSUME NEW p \in Pid, NEW x \in Value, Fill(p, x) PROVE SoftTlbInv'
  <2>1. \A j \in Page : InHand(j)' <=> InHand(j)
    BY <1>7 DEF Fill, InHand
  <2> QED
    BY <1>7, <2>1 DEF Fill, tables, TypeOK, PagesAccountedFor, OwnAddressSpace
<1> QED
  BY <1>2, <1>3, <1>4, <1>5, <1>6, <1>7 DEF Loader

(* The page of a process at an address is unique, so that both the last    *)
(* one copied and any one chosen is that page.                             *)
LEMMA PageOf ==
  ASSUME SoftTlbInv, NEW p \in Pid, NEW v \in VPage, NEW i \in Page, Maps(i, p, v)
  PROVE  /\ \A j \in Page : Maps(j, p, v) => j = i
         /\ i = CHOOSE k \in Page : Maps(k, p, v)
         /\ i = CHOOSE k \in Page : Maps(k, p, v) /\ \A j \in Page : Maps(j, p, v) => j <= k
<1>1. \A j \in Page : Maps(j, p, v) => j = i
  BY DEF SoftTlbInv, PagesAccountedFor, Maps
<1>2. i = CHOOSE k \in Page : Maps(k, p, v)
  BY <1>1
<1>3. Maps(i, p, v) /\ \A j \in Page : Maps(j, p, v) => j <= i
  BY <1>1
<1>4. i = CHOOSE k \in Page : Maps(k, p, v) /\ \A j \in Page : Maps(j, p, v) => j <= k
  BY <1>1, <1>3
<1> QED
  BY <1>1, <1>2, <1>4

(* What soft_tlb_switch(p) leaves in the frames and at the addresses of p. *)
LEMMA SwitchCopies ==
  ASSUME SoftTlbInv, NEW p \in Pid, Switch(p)
  PROVE  /\ curr_vm_pid' = p
         /\ frame' \in [Page -> Value] /\ user' \in [VPage -> Value]
         /\ p = curr_vm_pid => UNCHANGED <<frame, user>>
         /\ p # curr_vm_pid => frame' = Saved
         /\ p # curr_vm_pid =>
              \A v \in VPage, i \in Page : Maps(i, p, v) => user'[v] = frame[i]
<1> USE DEF SoftTlbInv
<1>1. Saved \in [Page -> Value]
  BY DEF TypeOK, Saved
<1>2. ASSUME NEW v \in VPage, NEW i \in Page, Maps(i, p, v)
      PROVE  Mapped(p)[v] = Saved[i]
  BY <1>2, PageOf DEF Mapped
<1>3. ASSUME NEW v \in VPage PROVE Mapped(p)[v] \in Value
  BY <1>1, <1>2 DEF Mapped, TypeOK
<1>4. Mapped(p) \in [VPage -> Value]
  BY <1>3 DEF Mapped
<1>5. ASSUME p # curr_vm_pid, NEW v \in VPage, NEW i \in Page, Maps(i, p, v)
      PROVE  Mapped(p)[v] = frame[i]
  BY <1>2, <1>5 DEF Saved, Maps
<1> QED
  BY <1>1, <1>4, <1>5 DEF Switch, TypeOK

(* The kernel and the running program leave the page tables alone.         *)
LEMMA CopyInv == SoftTlbInv /\ (Program \/ Kernel) => SoftTlbInv'
<1> SUFFICES ASSUME SoftTlbInv, Program \/ Kernel PROVE SoftTlbInv'
  OBVIOUS
<1> USE DEF SoftTlbInv
<1>1. UNCHANGED <<tables, job>> /\ inKernel' \in BOOLEAN
  BY DEF Program, Kernel, Trap, Store, Translate, MmuSwitch, KernelStore, TypeOK
<1>2. \A j \in Page : InHand(j)' <=> InHand(j)
  BY <1>1 DEF InHand
<1>3. PagesAccountedFor'
  BY <1>1, <1>2 DEF PagesAccountedFor, tables
<1>4. CASE Program
  BY <1>1, <1>3, <1>4 DEF Program, Trap, Store, TypeOK, OwnAddressSpace, tables
<1>5. ASSUME NEW p \in Pid, Translate(p) PROVE SoftTlbInv'
  BY <1>1, <1>3, <1>5, SwitchCopies DEF Translate, TypeOK, OwnAddressSpace, tables
<1>6. ASSUME NEW p \in Pid, MmuSwitch(p) PROVE SoftTlbInv'
  BY <1>1, <1>3, <1>6, SwitchCopies DEF MmuSwitch, TypeOK, OwnAddressSpace, tables
<1>7. ASSUME NEW v \in VPage, NEW x \in Value, KernelStore(v, x) PROVE SoftTlbInv'
  BY <1>1, <1>3, <1>7 DEF KernelStore, TypeOK, OwnAddressSpace, tables
<1> QED
  BY <1>4, <1>5, <1>6, <1>7 DEF Kernel

(* The page tables, the bitmap and the current address space are           *)
(* consistent in every reachable state: see SoftTlbInv.                    *)
THEOREM SoftTlbInvariance == Spec => []SoftTlbInv
<1>1. SoftTlbInv /\ [Next]_vars => SoftTlbInv'
  <2> SUFFICES ASSUME SoftTlbInv, [Next]_vars PROVE SoftTlbInv'
    OBVIOUS
  <2>1. CASE Next
    BY <2>1, LoaderInv, CopyInv DEF Next
  <2>2. CASE UNCHANGED vars
    <3>1. \A j \in Page : InHand(j)' <=> InHand(j)
      BY <2>2 DEF vars, InHand
    <3> QED
      BY <2>2, <3>1 DEF vars, SoftTlbInv, TypeOK, PagesAccountedFor, OwnAddressSpace
  <2> QED
    BY <2>1, <2>2
<1> QED
  BY <1>1, InitInv, PTL DEF Spec

(* The page tables, memory and the loader's state keep their types.        *)
THEOREM TypeCorrectness == Spec => []TypeOK
<1>1. SoftTlbInv => TypeOK
  BY DEF SoftTlbInv
<1> QED
  BY <1>1, SoftTlbInvariance, PTL

(* A process in user mode has its own pages in place: see OwnAddressSpace. *)
THEOREM RunsInItsOwnMemory == Spec => []OwnAddressSpace
<1>1. SoftTlbInv => OwnAddressSpace
  BY DEF SoftTlbInv
<1> QED
  BY <1>1, SoftTlbInvariance, PTL

(* No page leaks or is used twice: see PagesAccountedFor.                  *)
THEOREM EveryPageAccountedFor == Spec => []PagesAccountedFor
<1>1. SoftTlbInv => PagesAccountedFor
  BY DEF SoftTlbInv
<1> QED
  BY <1>1, SoftTlbInvariance, PTL
-----------------------------------------------------------------------------
(* Isolation                                                               *)

(* The memory of a process, by the page that holds it.                     *)
LEMMA MemAt ==
  ASSUME SoftTlbInv, NEW p \in Pid, NEW v \in VPage
  PROVE  /\ memOf[p][v] = MemOf(p, v)
         /\ ~Has(p, v) => MemOf(p, v) = NoPage
         /\ \A i \in Page : Maps(i, p, v) =>
              MemOf(p, v) = IF p = curr_vm_pid THEN user[v] ELSE frame[i]
         /\ Has(p, v) => MemOf(p, v) \in Value
<1>1. memOf[p][v] = MemOf(p, v)
  BY DEF memOf
<1>2. ~Has(p, v) => MemOf(p, v) = NoPage
  BY DEF MemOf
<1>3. ASSUME NEW i \in Page, Maps(i, p, v)
      PROVE  MemOf(p, v) = IF p = curr_vm_pid THEN user[v] ELSE frame[i]
  <2>1. Has(p, v)
    BY <1>3 DEF Has
  <2> QED
    BY <1>3, <2>1, PageOf DEF MemOf
<1> QED
  BY <1>1, <1>2, <1>3 DEF Has, SoftTlbInv, TypeOK

(* The same after a step.                                                  *)
LEMMA MemAtNext ==
  ASSUME SoftTlbInv', NEW p \in Pid, NEW v \in VPage
  PROVE  /\ memOf'[p][v] = MemOf(p, v)'
         /\ ~Has(p, v)' => MemOf(p, v)' = NoPage
         /\ \A i \in Page : Maps(i, p, v)' =>
              MemOf(p, v)' = IF p = curr_vm_pid' THEN user'[v] ELSE frame'[i]
<1>1. memOf'[p][v] = MemOf(p, v)'
  BY DEF memOf
<1>2. ~Has(p, v)' => MemOf(p, v)' = NoPage
  BY DEF MemOf
<1>3. ASSUME NEW i \in Page, Maps(i, p, v)'
      PROVE  MemOf(p, v)' = IF p = curr_vm_pid' THEN user'[v] ELSE frame'[i]
  <2>1. Has(p, v)'
    BY <1>3 DEF Has
  <2>2. \A j \in Page : Maps(j, p, v)' => j = i
    BY <1>3 DEF SoftTlbInv, PagesAccountedFor, Maps
  <2>3. i = CHOOSE k \in Page : Maps(k, p, v)'
    BY <1>3, <2>2
  <2> QED
    BY <2>1, <2>3 DEF MemOf
<1> QED
  BY <1>1, <1>2, <1>3

(* A step that changes no page of any process.                             *)
LEMMA SameMem ==
  ASSUME \A p \in Pid, v \in VPage : MemOf(p, v)' = MemOf(p, v)
  PROVE  memOf' = memOf
  BY DEF memOf

(* A step that changes one page of one process.                            *)
LEMMA OneChange ==
  ASSUME NEW q \in Pid, NEW w \in VPage, NEW x,
         \A p \in Pid, v \in VPage :
           MemOf(p, v)' = IF p = q /\ v = w THEN x ELSE MemOf(p, v)
  PROVE  A!Change(q, w, x)
<1>1. memOf' = [memOf EXCEPT ![q] = [memOf[q] EXCEPT ![w] = x]]
  BY DEF memOf
<1> QED
  BY <1>1 DEF A!Change, memOf

(* The loader's steps load or drop a page, or change no process's memory.  *)
LEMMA LoaderRefines ==
  ASSUME SoftTlbInv, SoftTlbInv', Loader
  PROVE  [A!Next]_<<memOf, running, inKernel>>
<1> DEFINE AbsStep == [A!Next]_<<memOf, running, inKernel>>
<1>0. /\ curr_vm_pid = GPID_PROCESS /\ Loading
      /\ UNCHANGED <<user, curr_vm_pid, running, inKernel>>
  BY DEF Loader, MmuAlloc, MmuAllocFull, Pfree, MmuFree, MmuMap, Fill, Loading,
         SoftTlbInv, OwnAddressSpace
<1>1. ASSUME UNCHANGED <<owner, vpage>>,
             \A i \in Page : owner[i] # 0 => frame'[i] = frame[i]
      PROVE  AbsStep
  <2>1. ASSUME NEW p \in Pid, NEW v \in VPage PROVE MemOf(p, v)' = MemOf(p, v)
    BY <1>0, <1>1, MemAt, MemAtNext DEF Has, Maps
  <2> QED
    BY <1>0, <2>1, SameMem
<1>2. CASE MmuAlloc
  <2>1. PICK i \in Page : Free(i) /\ frame' = [frame EXCEPT ![i] = Zero]
    BY <1>2 DEF MmuAlloc
  <2>2. owner[i] = 0
    BY <2>1 DEF SoftTlbInv, PagesAccountedFor, Free
  <2> QED
    BY <1>1, <1>2, <2>1, <2>2 DEF MmuAlloc, SoftTlbInv, TypeOK
<1>3. CASE MmuAllocFull \/ Pfree
  BY <1>1, <1>3 DEF MmuAllocFull, Pfree, tables
<1>4. ASSUME NEW q \in Pid, MmuFree(q) PROVE AbsStep
  <2>1. PICK i \in Page : owner[i] = q /\ owner' = [owner EXCEPT ![i] = 0]
    BY <1>4 DEF MmuFree
  <2>2. UNCHANGED <<vpage, frame>> /\ vpage[i] \in VPage
    BY <1>4 DEF MmuFree, SoftTlbInv, TypeOK
  <2>3. ASSUME NEW p \in Pid, NEW v \in VPage
        PROVE  MemOf(p, v)' = IF p = q /\ v = vpage[i] THEN NoPage ELSE MemOf(p, v)
    <3>1. CASE p = q /\ v = vpage[i]
      <4>1. ~Has(p, v)'
        BY <2>1, <2>2, <3>1, PageOf DEF Has, Maps, SoftTlbInv, TypeOK
      <4> QED
        BY <3>1, <4>1, MemAtNext
    <3>2. CASE ~(p = q /\ v = vpage[i])
      <4>1. \A j \in Page : Maps(j, p, v)' <=> Maps(j, p, v)
        BY <2>1, <2>2, <3>2 DEF Maps, SoftTlbInv, TypeOK
      <4> QED
        BY <1>0, <2>2, <3>2, <4>1, MemAt, MemAtNext DEF Has
    <3> QED
      BY <3>1, <3>2
  <2>4. A!Change(q, vpage[i], NoPage)
    BY <2>2, <2>3, OneChange
  <2>5. A!Drop(q)
    BY <1>0, <2>2, <2>4 DEF A!Drop, Loading
  <2> QED
    BY <2>5 DEF A!Next
<1>5. ASSUME NEW q \in Pid, NEW w \in VPage, MmuMap(q, w) PROVE AbsStep
  <2>0. PICK g \in Page : g = job.page
    BY <1>5, JobFields DEF MmuMap, SoftTlbInv, TypeOK
  <2>1. /\ job.op = "map" /\ ~Has(q, w) /\ q # GPID_PROCESS
        /\ owner' = [owner EXCEPT ![g] = q]
        /\ vpage' = [vpage EXCEPT ![g] = w]
        /\ UNCHANGED frame
    BY <1>5, <2>0 DEF MmuMap
  <2>2. owner[g] = 0 /\ frame[g] \in Value
    BY <2>0, <2>1 DEF SoftTlbInv, PagesAccountedFor, InHand, TypeOK
  <2>3. ASSUME NEW p \in Pid, NEW v \in VPage
        PROVE  MemOf(p, v)' = IF p = q /\ v = w THEN frame[g] ELSE MemOf(p, v)
    <3>1. CASE p = q /\ v = w
      <4>1. Maps(g, p, v)'
        BY <2>1, <3>1 DEF Maps, SoftTlbInv, TypeOK
      <4> QED
        BY <1>0, <2>1, <3>1, <4>1, MemAtNext
    <3>2. CASE ~(p = q /\ v = w)
      <4>1. \A j \in Page : Maps(j, p, v)' <=> Maps(j, p, v)
        BY <2>1, <2>2, <3>2 DEF Maps, SoftTlbInv, TypeOK
      <4> QED
        BY <1>0, <2>1, <3>2, <4>1, MemAt, MemAtNext DEF Has
    <3> QED
      BY <3>1, <3>2
  <2>4. A!Change(q, w, frame[g])
    BY <2>3, OneChange
  <2>5. A!Load(q)
    BY <1>0, <2>2, <2>4 DEF A!Load, Loading
  <2> QED
    BY <2>5 DEF A!Next
<1>6. ASSUME NEW q \in Pid, NEW x \in Value, Fill(q, x) PROVE AbsStep
  <2>1. PICK i \in Page : owner[i] = q /\ frame' = [frame EXCEPT ![i] = x]
    BY <1>6 DEF Fill
  <2>2. UNCHANGED <<owner, vpage>> /\ q # GPID_PROCESS /\ vpage[i] \in VPage
    BY <1>6 DEF Fill, tables, SoftTlbInv, TypeOK
  <2>3. ASSUME NEW p \in Pid, NEW v \in VPage
        PROVE  MemOf(p, v)' = IF p = q /\ v = vpage[i] THEN x ELSE MemOf(p, v)
    <3>1. \A j \in Page : Maps(j, p, v)' <=> Maps(j, p, v)
      BY <2>2 DEF Maps
    <3>2. CASE p = q /\ v = vpage[i]
      <4>1. Maps(i, p, v)'
        BY <2>1, <2>2, <3>2 DEF Maps
      <4>2. frame'[i] = x
        BY <2>1 DEF SoftTlbInv, TypeOK
      <4> QED
        BY <1>0, <2>2, <3>2, <4>1, <4>2, MemAtNext
    <3>3. CASE ~(p = q /\ v = vpage[i])
      <4>1. \A j \in Page : Maps(j, p, v) => frame'[j] = frame[j]
        BY <2>1, <3>3 DEF Maps, SoftTlbInv, TypeOK
      <4> QED
        BY <1>0, <3>1, <3>3, <4>1, MemAt, MemAtNext DEF Has
    <3> QED
      BY <3>2, <3>3
  <2>4. A!Change(q, vpage[i], x)
    BY <2>2, <2>3, OneChange
  <2>5. A!Load(q)
    BY <1>0, <2>2, <2>4 DEF A!Load, Loading
  <2> QED
    BY <2>5 DEF A!Next
<1> QED
  BY <1>2, <1>3, <1>4, <1>5, <1>6 DEF Loader

(* soft_tlb_switch() changes no process's memory.                          *)
LEMMA SwitchRefines ==
  ASSUME SoftTlbInv, SoftTlbInv', NEW q \in Pid, Switch(q), UNCHANGED tables
  PROVE  memOf' = memOf
<1>1. ASSUME NEW p \in Pid, NEW v \in VPage PROVE MemOf(p, v)' = MemOf(p, v)
  <2>1. \A j \in Page : Maps(j, p, v)' <=> Maps(j, p, v)
    BY DEF Maps, tables
  <2>2. CASE ~Has(p, v)
    BY <2>1, <2>2, MemAt, MemAtNext DEF Has
  <2>3. CASE Has(p, v)
    <3>1. PICK i \in Page : Maps(i, p, v)
      BY <2>3 DEF Has
    <3>2. MemOf(p, v) = IF p = curr_vm_pid THEN user[v] ELSE frame[i]
      BY <3>1, MemAt
    <3>3. MemOf(p, v)' = IF p = q THEN user'[v] ELSE frame'[i]
      BY <2>1, <3>1, MemAtNext, SwitchCopies
    <3>4. CASE q = curr_vm_pid
      BY <3>2, <3>3, <3>4, SwitchCopies
    <3>5. CASE q # curr_vm_pid /\ p = q
      BY <3>1, <3>2, <3>3, <3>5, SwitchCopies
    <3>6. CASE q # curr_vm_pid /\ p # q
      <4>1. frame'[i] = IF p = curr_vm_pid THEN user[v] ELSE frame[i]
        BY <3>1, <3>6, SwitchCopies DEF Saved, Maps
      <4> QED
        BY <3>2, <3>3, <3>6, <4>1
    <3> QED
      BY <3>4, <3>5, <3>6
  <2> QED
    BY <2>2, <2>3
<1> QED
  BY <1>1, SameMem

(* A store to the user address space changes at most the one page of the   *)
(* process whose address space it is.                                      *)
LEMMA StoreRefines ==
  ASSUME SoftTlbInv, SoftTlbInv', NEW w \in VPage, NEW x \in Value,
         user' = [user EXCEPT ![w] = x], UNCHANGED <<tables, frame, curr_vm_pid>>
  PROVE  /\ Has(curr_vm_pid, w) =>
              memOf[curr_vm_pid][w] # NoPage /\ A!Change(curr_vm_pid, w, x)
         /\ ~Has(curr_vm_pid, w) => memOf' = memOf
<1>1. /\ \A p \in Pid, v \in VPage, j \in Page : Maps(j, p, v)' <=> Maps(j, p, v)
      /\ curr_vm_pid \in Pid
      /\ \A v \in VPage : user'[v] = IF v = w THEN x ELSE user[v]
  BY DEF Maps, tables, SoftTlbInv, TypeOK
<1>2. ASSUME NEW p \in Pid, NEW v \in VPage, ~(p = curr_vm_pid /\ v = w) \/ ~Has(p, v)
      PROVE  MemOf(p, v)' = MemOf(p, v)
  BY <1>1, <1>2, MemAt, MemAtNext DEF Has
<1>3. ASSUME Has(curr_vm_pid, w)
      PROVE  memOf[curr_vm_pid][w] # NoPage /\ A!Change(curr_vm_pid, w, x)
  <2>1. PICK c \in Pid : c = curr_vm_pid
    BY <1>1
  <2>2. MemOf(c, w)' = x
    BY <1>1, <1>3, <2>1, MemAtNext DEF Has
  <2>3. A!Change(c, w, x)
    BY <1>2, <2>1, <2>2, OneChange
  <2>4. memOf[c][w] # NoPage
    BY <1>3, <2>1, MemAt
  <2> QED
    BY <2>1, <2>3, <2>4
<1>4. ASSUME ~Has(curr_vm_pid, w) PROVE memOf' = memOf
  BY <1>1, <1>2, <1>4, SameMem
<1> QED
  BY <1>3, <1>4

(* The steps of programs and of the kernel.                                *)
LEMMA CopyRefines ==
  ASSUME SoftTlbInv, SoftTlbInv', Program \/ Kernel
  PROVE  [A!Next]_<<memOf, running, inKernel>>
<1> DEFINE AbsStep == [A!Next]_<<memOf, running, inKernel>>
<1>0. running \in Pid /\ curr_vm_pid \in Pid
  BY DEF SoftTlbInv, TypeOK
<1>1. CASE Trap
  <2>1. memOf' = memOf
    BY <1>1 DEF Trap, tables, memOf, MemOf, Has, Maps
  <2> QED
    BY <1>1, <2>1 DEF Trap, A!Next, A!Enter
<1>2. ASSUME NEW v \in VPage, NEW x \in Value, Store(v, x) PROVE AbsStep
  <2>1. ~inKernel /\ curr_vm_pid = running /\ UNCHANGED <<running, inKernel>>
    BY <1>2 DEF Store, SoftTlbInv, OwnAddressSpace
  <2>2. /\ Has(running, v) => memOf[running][v] # NoPage /\ A!Change(running, v, x)
        /\ ~Has(running, v) => memOf' = memOf
    BY <1>2, <2>1, StoreRefines DEF Store
  <2>3. CASE Has(running, v)
    <3>1. A!Store
      BY <2>1, <2>2, <2>3 DEF A!Store
    <3> QED
      BY <3>1 DEF A!Next
  <2> QED
    BY <2>1, <2>2, <2>3
<1>3. ASSUME NEW p \in Pid, Translate(p) PROVE AbsStep
  BY <1>3, SwitchRefines DEF Translate
<1>4. ASSUME NEW p \in Pid, MmuSwitch(p) PROVE AbsStep
  <2>1. memOf' = memOf
    BY <1>4, SwitchRefines DEF MmuSwitch
  <2> QED
    BY <1>4, <2>1 DEF MmuSwitch, A!Next, A!Leave
<1>5. ASSUME NEW v \in VPage, NEW x \in Value, KernelStore(v, x) PROVE AbsStep
  <2>1. inKernel /\ UNCHANGED <<running, inKernel>>
    BY <1>5 DEF KernelStore
  <2>2. /\ Has(curr_vm_pid, v) =>
             memOf[curr_vm_pid][v] # NoPage /\ A!Change(curr_vm_pid, v, x)
        /\ ~Has(curr_vm_pid, v) => memOf' = memOf
    BY <1>5, StoreRefines DEF KernelStore
  <2>3. CASE Has(curr_vm_pid, v)
    <3>1. A!KernelStore(curr_vm_pid)
      BY <2>1, <2>2, <2>3 DEF A!KernelStore
    <3> QED
      BY <1>0, <3>1 DEF A!Next
  <2> QED
    BY <2>1, <2>2, <2>3
<1> QED
  BY <1>1, <1>2, <1>3, <1>4, <1>5 DEF Program, Kernel

(* soft_tlb_switch() gives every process memory of its own, whatever else  *)
(* happens to other processes at the same time: see Isolation.             *)
THEOREM SoftTlbIsolates == Spec => Isolation
<1>1. Init => A!Init
  <2> SUFFICES ASSUME Init PROVE A!Init
    OBVIOUS
  <2>1. SoftTlbInv
    BY InitInv
  <2>2. \A p \in Pid, v \in VPage : MemOf(p, v) \in Value \cup {NoPage}
    BY <2>1, MemAt
  <2>3. memOf \in [Pid -> [VPage -> Value \cup {NoPage}]]
    BY <2>2 DEF memOf
  <2> QED
    BY <2>3 DEF Init, A!Init
<1>2. SoftTlbInv /\ SoftTlbInv' /\ [Next]_vars => [A!Next]_<<memOf, running, inKernel>>
  <2> SUFFICES ASSUME SoftTlbInv, SoftTlbInv', [Next]_vars
               PROVE  [A!Next]_<<memOf, running, inKernel>>
    OBVIOUS
  <2>1. CASE Next
    BY <2>1, LoaderRefines, CopyRefines DEF Next
  <2>2. CASE UNCHANGED vars
    BY <2>2 DEF vars, memOf, MemOf, Has, Maps
  <2> QED
    BY <2>1, <2>2
<1> QED
  BY <1>1, <1>2, SoftTlbInvariance, PTL DEF Spec, Isolation, A!Spec
=============================================================================
