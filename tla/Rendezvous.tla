----------------------------- MODULE Rendezvous -----------------------------
(***************************************************************************)
(* What sys_send() and sys_recv() promise to programs: unbuffered message  *)
(* passing.  A send blocks until a receive that accepts it, the message    *)
(* passes in one step from that one sender to that one receiver, and only  *)
(* then do both calls return.  There is no process table, no scheduler and *)
(* no copy of a message in between.                                        *)
(***************************************************************************)
CONSTANTS Proc, Msg, Any

VARIABLE call      \* the system call each process is in

Dead == [op |-> "dead"]
Idle == [op |-> "idle"]
Sending(r, m) == [op |-> "send", to |-> r, msg |-> m]
Receiving(f) == [op |-> "recv", from |-> f]
Sent == [op |-> "sent"]
Got(s, m) == [op |-> "got", from |-> s, msg |-> m]

Init == call \in [Proc -> {Dead, Idle}]

(* sys_send() is called, and waits.                                        *)
Send(p) ==
  /\ call[p] = Idle
  /\ \E r \in Proc, m \in Msg : call'[p] = Sending(r, m)
  /\ call' = [call EXCEPT ![p] = call'[p]]

(* sys_recv() is called, and waits.                                        *)
Receive(p) ==
  /\ call[p] = Idle
  /\ \E f \in Proc \cup {Any} : call'[p] = Receiving(f)
  /\ call' = [call EXCEPT ![p] = call'[p]]

(* s sends to d, and d receives from s or from anyone.                     *)
Meet(s, d) ==
  /\ call[s].op = "send"
  /\ call[s].to = d
  /\ call[d] \in {Receiving(Any), Receiving(s)}

(* The message passes from s to d.                                         *)
Transfer(s, d) ==
  /\ Meet(s, d)
  /\ call' = [call EXCEPT ![s] = Sent, ![d] = Got(s, call[s].msg)]

(* A completed call returns to the program.                                *)
Return(p) ==
  /\ call[p].op \in {"sent", "got"}
  /\ call'[p] = Idle
  /\ call' = [call EXCEPT ![p] = Idle]

(* The process is killed, whatever it is waiting for.                      *)
Kill(p) ==
  /\ call'[p] = Dead
  /\ call' = [call EXCEPT ![p] = Dead]

(* A new process begins.                                                   *)
Start(p) ==
  /\ call[p] = Dead
  /\ call'[p] = Idle
  /\ call' = [call EXCEPT ![p] = Idle]

Next ==
  \/ \E p \in Proc : Send(p) \/ Receive(p) \/ Return(p) \/ Kill(p) \/ Start(p)
  \/ \E s, d \in Proc : Transfer(s, d)

Spec == Init /\ [][Next]_call
=============================================================================
