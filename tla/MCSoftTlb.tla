----------------------------- MODULE MCSoftTlb ------------------------------
(* SoftTlb for TLC.                                                        *)
EXTENDS SoftTlb

(* GPID_PROCESS has one page.                                              *)
OnePage == \A i \in Page : owner[i] # 0 <=> i = 0

TlbInit == Init /\ OnePage

TlbSpec == TlbInit /\ [][Next]_vars
=============================================================================
