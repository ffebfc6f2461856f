----------------------------- MODULE MCTreeDisk -----------------------------
(* TreeDisk for TLC.  Every block of every file has contents of its own,   *)
(* so that a block read in the wrong place is noticed.                     *)
EXTENDS TreeDisk

Blocks == {0, 1} \X Offset

TreeNext ==
  \/ TreediskCreate
  \/ \E ino \in Inode, offset \in Offset : TreediskWrite(ino, offset, <<ino, offset>>)

TreeSpec == Init /\ [][TreeNext]_vars
=============================================================================
