--------------------------- MODULE AddressSpaces ----------------------------
(***************************************************************************)
(* What memory management promises: every process has pages of its own.    *)
(* A page changes when its process runs and stores to it, when the kernel  *)
(* stores into it on the process's behalf, or while GPID_PROCESS loads or  *)
(* frees the process; one process never changes the pages of another.      *)
(***************************************************************************)
CONSTANTS Pid, VPage, Value, NoPage, Loader

VARIABLES
  mem,       \* the contents of every process's pages
  running,   \* the process whose turn it is
  inKernel   \* whether the kernel has interrupted it

Change(p, v, x) == mem' = [mem EXCEPT ![p][v] = x]

Init ==
  /\ mem \in [Pid -> [VPage -> Value \cup {NoPage}]]
  /\ running \in Pid
  /\ inKernel \in BOOLEAN

(* The running process stores to its own page.                             *)
Store ==
  /\ ~inKernel
  /\ \E v \in VPage, x \in Value : mem[running][v] # NoPage /\ Change(running, v, x)
  /\ UNCHANGED <<running, inKernel>>

(* The loader adds a page, fills it, or gives it up.                       *)
Load(p) ==
  /\ ~inKernel /\ running = Loader
  /\ \E v \in VPage, x \in Value : Change(p, v, x)
  /\ UNCHANGED <<running, inKernel>>

Drop(p) ==
  /\ ~inKernel /\ running = Loader
  /\ \E v \in VPage : Change(p, v, NoPage)
  /\ UNCHANGED <<running, inKernel>>

Enter == ~inKernel /\ inKernel' = TRUE /\ UNCHANGED <<mem, running>>

(* The kernel stores into the memory of one process.                       *)
KernelStore(p) ==
  /\ inKernel
  /\ \E v \in VPage, x \in Value : mem[p][v] # NoPage /\ Change(p, v, x)
  /\ UNCHANGED <<running, inKernel>>

(* The kernel gives the core to some process.  No memory changes.          *)
Leave ==
  /\ inKernel
  /\ inKernel' = FALSE
  /\ running' \in Pid
  /\ UNCHANGED mem

Next ==
  \/ Store \/ Enter \/ Leave
  \/ \E p \in Pid : Load(p) \/ Drop(p) \/ KernelStore(p)

Spec == Init /\ [][Next]_<<mem, running, inKernel>>
=============================================================================
