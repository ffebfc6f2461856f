----------------------------- MODULE KernelIpc ------------------------------
(***************************************************************************)
(* The kernel's system calls implement Rendezvous.  callOf reads off the   *)
(* process table and user memory which call a program would say it is in.  *)
(***************************************************************************)
EXTENDS Kernel

(* A message has been taken from the blocked sender in slot s.             *)
Taken(s) == \E d \in Slots : Delivered(d) /\ syscall[d].peer = s

(* While a process is blocked its call is the kernel's copy of it; once it *)
(* is runnable again the result is what trap() finds in its own memory.    *)
CallOf(p) ==
  CASE status[p] \in {"UNUSED", "LOADING"} -> [op |-> "dead"]
    [] Blocked(p) /\ syscall[p].type = "SYS_SEND" ->
         IF Taken(p)
         THEN [op |-> "sent"]
         ELSE [op |-> "send", to |-> syscall[p].peer, msg |-> syscall[p].content]
    [] Blocked(p) /\ syscall[p].type = "SYS_RECV" ->
         IF syscall[p].status = "DONE"
         THEN [op |-> "got", from |-> syscall[p].peer, msg |-> syscall[p].content]
         ELSE [op |-> "recv", from |-> syscall[p].peer]
    [] status[p] \in {"RUNNABLE", "RUNNING"} /\ upc[p] = "poll" ->
         IF usc[p].type = "SYS_SEND"
         THEN [op |-> "sent"]
         ELSE [op |-> "got", from |-> usc[p].peer, msg |-> usc[p].content]
    [] OTHER -> [op |-> "idle"]

callOf == [p \in Pids |-> CallOf(p)]

R == INSTANCE Rendezvous WITH Proc <- Pids, Any <- GPID_ALL, call <- callOf

(* Every message a receive returns was sent to that receiver, by the       *)
(* process it names, with that content; it is returned once; and neither   *)
(* call returns before the two have met.  proc_try_send() copies the       *)
(* message into the receiver's kernel struct, and proc_try_recv(), at some *)
(* later slot of the scan, into its memory: the two copies are one         *)
(* transfer to every program.                                              *)
IpcRefines == R!Spec
=============================================================================
