--------------------------- MODULE MCSoftTlbHeap ----------------------------
(* SoftTlb for TLC, with a record of what each process saw when it last    *)
(* had the core.                                                           *)
EXTENDS MCSoftTlb

VARIABLE left        \* the user address space as each process last saw it

Unseen == [v \in VPage |-> NoPage]

HeapInit == TlbInit /\ left = [p \in Pid |-> Unseen]

(* Only processes that have been loaded get the core.                      *)
HeapNext ==
  /\ Next
  /\ \E i \in Page : owner[i] = running'
  /\ left' = [p \in Pid |->
       IF \A i \in Page : owner'[i] # p THEN Unseen
       ELSE IF p = running /\ ~inKernel THEN user' ELSE left[p]]

HeapSpec == HeapInit /\ [][HeapNext]_<<vars, left>>

=============================================================================
