------------------------------ MODULE MCSystem ------------------------------
(* System for TLC.  Programs that exit before others are spawned make the  *)
(* pids of dead programs come back.                                        *)
EXTENDS System

(* A command is typed only while there is a slot below the last one.       *)
Room ==
  pc[GPID_SHELL] = "prompt" /\ pc'[GPID_SHELL] = "asked" =>
    \E i \in Pids : i < MAX_NPROCESS /\ table[i] = "UNUSED"

RoomSpec == Init /\ [][Next /\ Room]_vars

RoomFairSpec == RoomSpec /\ Fairness
=============================================================================
