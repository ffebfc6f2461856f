------------------------------ MODULE SoftTlb -------------------------------
(***************************************************************************)
(* Memory for processes on a machine without address translation           *)
(* (earth/mem_soft_tlb.c, earth/mem_alloc.c, earth/cpu_mmu.c).  All        *)
(* programs are linked to the same addresses; the pages of a process are   *)
(* copied into the user address space when it gets the core and copied     *)
(* back when another process does.                                         *)
(*                                                                         *)
(* GPID_PROCESS calls mmu_alloc, mmu_map and mmu_free as plain functions   *)
(* while it runs; the kernel calls mmu_switch and mmu_translate with       *)
(* interrupts disabled.                                                    *)
(***************************************************************************)
EXTENDS Integers

CONSTANTS
  Pid,               \* process ids, all positive
  VPage,             \* page numbers of the user address space
  ElfPage,           \* those that elf_load() maps for a program
  APPS_PAGES_CNT,    \* number of physical pages
  Value,             \* contents of a page
  Zero,              \* a cleared page
  NoPage

GPID_PROCESS == 1

Page == 0..(APPS_PAGES_CNT - 1)

ASSUME SoftTlbAssumption ==
  /\ Pid \subseteq Nat \ {0} /\ GPID_PROCESS \in Pid
  /\ APPS_PAGES_CNT \in Nat \ {0} /\ ElfPage \subseteq VPage
  /\ Zero \in Value /\ NoPage \notin Value

VARIABLES
  bitmap,        \* mem_alloc.c: the pages in use
  owner,         \* page_info_table[].pid
  vpage,         \* page_info_table[].vpage_no
  frame,         \* the contents of the physical pages
  user,          \* the contents of the user address space
  curr_vm_pid,   \* soft_tlb_switch(): curr_vm_pid
  running,       \* the process that has the core
  inKernel,      \* whether the kernel has interrupted it
  job            \* GPID_PROCESS: a page not yet mapped, a process being freed

tables == <<bitmap, owner, vpage>>
vars == <<bitmap, owner, vpage, frame, user, curr_vm_pid, running, inKernel, job>>

NoJob == [op |-> "none"]

Maps(i, p, v) == owner[i] = p /\ vpage[i] = v

Has(p, v) == \E i \in Page : Maps(i, p, v)

Loading == ~inKernel /\ running = GPID_PROCESS

-----------------------------------------------------------------------------
(* GPID_PROCESS loading and freeing programs.                              *)

(* Mutant: a page is handed out without looking at the bitmap.             *)
Free_any(i) == i \in Page

(* The first page that is free, in pmalloc().                              *)
Free(i) == i \notin bitmap /\ \A j \in Page : j < i => j \in bitmap

(* mmu_alloc(): the page comes cleared.                                    *)
MmuAlloc ==
  /\ Loading /\ job = NoJob
  /\ \E i \in Page :
       /\ Free(i)
       /\ bitmap' = bitmap \cup {i}
       /\ frame' = [frame EXCEPT ![i] = Zero]
       /\ job' = [op |-> "map", page |-> i]
  /\ UNCHANGED <<owner, vpage, user, curr_vm_pid, running, inKernel>>

(* pmalloc() finds no page: FATAL() loops in GPID_PROCESS.                 *)
MmuAllocFull ==
  /\ Loading /\ job = NoJob
  /\ Page \subseteq bitmap
  /\ job' = [op |-> "full"]
  /\ UNCHANGED <<tables, frame, user, curr_vm_pid, running, inKernel>>

(* mmu_map() as elf_load() calls it: for a process that is being loaded.   *)
(* The segments of the file, argc and argv, *sc and the stack get pages;   *)
(* the heap does not.  soft_tlb_map() does not test that the address is    *)
(* new: that ~Has(p, v) is an assumption about elf_load(), which maps      *)
(* every page of a segment once and whose segments app.lds keeps apart.    *)
(* The two stores of soft_tlb_map() are one step: p is loading, so nobody  *)
(* switches to it in between.                                              *)
MmuMap(p, v) ==
  /\ Loading /\ job.op = "map"
  /\ p # GPID_PROCESS /\ v \in ElfPage /\ ~Has(p, v)
  /\ owner' = [owner EXCEPT ![job.page] = p]
  /\ vpage' = [vpage EXCEPT ![job.page] = v]
  /\ job' = NoJob
  /\ UNCHANGED <<bitmap, frame, user, curr_vm_pid, running, inKernel>>

(* elf_load() copies a block of the program into the page.                 *)
Fill(p, x) ==
  /\ Loading /\ p # GPID_PROCESS
  /\ \E i \in Page : owner[i] = p /\ frame' = [frame EXCEPT ![i] = x]
  /\ UNCHANGED <<tables, user, curr_vm_pid, running, inKernel, job>>

(* Mutant: a freed entry is given to GPID_ALL.                             *)
MmuFree_toAll(p) ==
  /\ Loading /\ p # GPID_PROCESS /\ job = NoJob
  /\ \E i \in Page :
       /\ owner[i] = p
       /\ owner' = [owner EXCEPT ![i] = -1]
       /\ job' = [op |-> "pfree", pid |-> p, page |-> i]
  /\ UNCHANGED <<bitmap, vpage, frame, user, curr_vm_pid, running, inKernel>>

(* mmu_free(p), one page at a time: its entry is cleared ...               *)
MmuFree(p) ==
  /\ Loading /\ p # GPID_PROCESS
  /\ \/ job = NoJob
     \/ job.op = "free" /\ job.pid = p
  /\ \E i \in Page :
       /\ owner[i] = p /\ \A j \in Page : owner[j] = p => i <= j
       /\ owner' = [owner EXCEPT ![i] = 0]
       /\ job' = [op |-> "pfree", pid |-> p, page |-> i]
  /\ UNCHANGED <<bitmap, vpage, frame, user, curr_vm_pid, running, inKernel>>

(* ... then the page is given back.                                        *)
Pfree ==
  /\ Loading /\ job.op = "pfree"
  /\ bitmap' = bitmap \ {job.page}
  /\ job' = IF \E i \in Page : owner[i] = job.pid
            THEN [op |-> "free", pid |-> job.pid] ELSE NoJob
  /\ UNCHANGED <<owner, vpage, frame, user, curr_vm_pid, running, inKernel>>

-----------------------------------------------------------------------------
(* The user address space.                                                 *)

(* Mutant: the pages of the process that leaves are not saved.             *)
Saved_not == frame

(* "Unmap curr_vm_pid": its pages are copied back.                         *)
Saved == [i \in Page |-> IF owner[i] = curr_vm_pid THEN user[vpage[i]] ELSE frame[i]]

(* "Map pid": its pages are copied in, in the order of the table, so that  *)
(* the last page at an address is the one that stays.                      *)
Mapped(p) ==
  [v \in VPage |->
     IF \E i \in Page : Maps(i, p, v)
     THEN Saved[CHOOSE i \in Page : Maps(i, p, v) /\ \A j \in Page : Maps(j, p, v) => j <= i]
     ELSE user[v]]

(* soft_tlb_switch(p)                                                      *)
Switch(p) ==
  IF p = curr_vm_pid
  THEN UNCHANGED <<frame, user, curr_vm_pid>>
  ELSE frame' = Saved /\ user' = Mapped(p) /\ curr_vm_pid' = p

(* Programs may store anywhere in the user address space, to pages that    *)
(* are not theirs too.                                                     *)
Store(v, x) ==
  /\ ~inKernel
  /\ user' = [user EXCEPT ![v] = x]
  /\ UNCHANGED <<tables, frame, curr_vm_pid, running, inKernel, job>>

Trap ==
  /\ ~inKernel
  /\ inKernel' = TRUE
  /\ UNCHANGED <<tables, frame, user, curr_vm_pid, running, job>>

(* soft_tlb_translate(p, SYSCALL_ARG), first the switch ...                *)
Translate(p) ==
  /\ inKernel
  /\ Switch(p)
  /\ UNCHANGED <<tables, running, inKernel, job>>

(* ... and then ipc.c stores to the page of *sc, without a test that the   *)
(* process has one: it may have been freed in the meantime.                *)
KernelStore(v, x) ==
  /\ inKernel
  /\ user' = [user EXCEPT ![v] = x]
  /\ UNCHANGED <<tables, frame, curr_vm_pid, running, inKernel, job>>

(* Mutant: the return to a process does not switch back to its memory.     *)
MmuSwitch_not(p) ==
  /\ inKernel
  /\ running' = p
  /\ inKernel' = FALSE
  /\ UNCHANGED <<tables, frame, user, curr_vm_pid, job>>

(* proc_yield(): mmu_switch(curr_pid) and back to user mode.               *)
MmuSwitch(p) ==
  /\ inKernel
  /\ Switch(p)
  /\ running' = p
  /\ inKernel' = FALSE
  /\ UNCHANGED <<tables, job>>
-----------------------------------------------------------------------------
(* GPID_PROCESS has been loaded and entered.                               *)
Init ==
  /\ owner \in [Page -> {0, GPID_PROCESS}]
  /\ vpage \in [Page -> VPage]
  /\ \A i \in Page : owner[i] # 0 => vpage[i] \in ElfPage
  /\ \A i, j \in Page : owner[i] # 0 /\ owner[j] # 0 /\ vpage[i] = vpage[j] => i = j
  /\ bitmap = {i \in Page : owner[i] # 0}
  /\ frame = [i \in Page |-> Zero]
  /\ user = [v \in VPage |-> Zero]
  /\ curr_vm_pid = GPID_PROCESS
  /\ running = GPID_PROCESS
  /\ inKernel = FALSE
  /\ job = NoJob

Loader ==
  \/ MmuAlloc \/ MmuAllocFull \/ Pfree
  \/ \E p \in Pid : MmuFree(p) \/ (\E v \in VPage : MmuMap(p, v)) \/ (\E x \in Value : Fill(p, x))

Program == Trap \/ \E v \in VPage, x \in Value : Store(v, x)

Kernel ==
  \/ \E p \in Pid : Translate(p) \/ MmuSwitch(p)
  \/ \E v \in VPage, x \in Value : KernelStore(v, x)

Next == Loader \/ Program \/ Kernel

Spec == Init /\ [][Next]_vars

-----------------------------------------------------------------------------
Job == {NoJob, [op |-> "full"]}
         \cup [op : {"map"}, page : Page]
         \cup [op : {"free"}, pid : Pid]
         \cup [op : {"pfree"}, pid : Pid, page : Page]

(* Type correctness of the page tables, memory and the loader's state.     *)
TypeOK ==
  /\ bitmap \subseteq Page
  /\ owner \in [Page -> Pid \cup {0}]
  /\ vpage \in [Page -> VPage]
  /\ frame \in [Page -> Value]
  /\ user \in [VPage -> Value]
  /\ curr_vm_pid \in Pid /\ running \in Pid
  /\ inKernel \in BOOLEAN
  /\ job \in Job

InHand(i) == job.op \in {"map", "pfree"} /\ job.page = i

(* The bitmap of mem_alloc.c and page_info_table agree although they are   *)
(* written by separate functions that an interrupt may separate: no page   *)
(* leaks and none is handed out twice.  That no process has two pages at   *)
(* one address is kept from MmuMap on, also while processes are freed.     *)
PagesAccountedFor ==
  /\ \A i \in Page : i \in bitmap <=> owner[i] # 0 \/ InHand(i)
  /\ \A i \in Page : ~(owner[i] # 0 /\ InHand(i))
  /\ \A i, j \in Page : owner[i] # 0 /\ owner[i] = owner[j] /\ vpage[i] = vpage[j] => i = j

(* In user mode the address space is that of the process that runs, so     *)
(* the early return of soft_tlb_switch() never keeps a stale copy.         *)
OwnAddressSpace == ~inKernel => curr_vm_pid = running

MemOf(p, v) ==
  IF ~Has(p, v) THEN NoPage
  ELSE IF p = curr_vm_pid THEN user[v]
  ELSE frame[CHOOSE i \in Page : Maps(i, p, v)]

memOf == [p \in Pid |-> [v \in VPage |-> MemOf(p, v)]]

A == INSTANCE AddressSpaces WITH Loader <- GPID_PROCESS, mem <- memOf

(* The inductive invariant.                                                *)
SoftTlbInv == TypeOK /\ PagesAccountedFor /\ OwnAddressSpace

(* The copying is invisible: soft_tlb_switch() gives every process pages   *)
(* of its own, also while others are half loaded or half freed, a freed    *)
(* process is still scheduled, or a program stores outside its pages.      *)
Isolation == A!Spec
=============================================================================
