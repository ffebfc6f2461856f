----------------------------- MODULE InodeStore -----------------------------
(***************************************************************************)
(* What a file system promises (library/file/inode.h): an array of blocks  *)
(* for every inode, which grows when a block behind its end is written.    *)
(* Blocks that were never written read as null bytes.                      *)
(***************************************************************************)
EXTENDS Integers

CONSTANTS Inode, Offset, Data, Null

VARIABLES
  files,     \* the blocks of every inode, from 0
  full       \* a write has found no room

(* The file f with room for block k.                                       *)
Extended(f, k) == [j \in DOMAIN f \cup 0..k |-> IF j \in DOMAIN f THEN f[j] ELSE Null]

Empty == [j \in {} |-> Null]

Init == files = [i \in Inode |-> Empty] /\ full = FALSE

Write(i, k, x) ==
  /\ ~full
  /\ files' = [files EXCEPT ![i] = [Extended(@, k) EXCEPT ![k] = x]]
  /\ UNCHANGED full

(* A write for which there is no room changes no block: at most the file   *)
(* is longer.                                                              *)
Fail(i, k) ==
  /\ ~full
  /\ full' = TRUE
  /\ \/ UNCHANGED files
     \/ files' = [files EXCEPT ![i] = Extended(@, k)]

Next == \E i \in Inode, k \in Offset : Fail(i, k) \/ \E x \in Data : Write(i, k, x)

Spec == Init /\ [][Next]_<<files, full>>
=============================================================================
