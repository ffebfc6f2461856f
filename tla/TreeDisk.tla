------------------------------ MODULE TreeDisk ------------------------------
(***************************************************************************)
(* The tree file system (library/file/file1.c) on a disk of blocks.  Block *)
(* 0 is the superblock, then come the blocks with inodes; every other      *)
(* block is a data block or an indirect block of one file, or is on the    *)
(* free list, a stack of blocks that hold references to free blocks.       *)
(*                                                                         *)
(* mkfs.c creates the file system and writes the files; GPID_FILE reads    *)
(* them.  A write computes with copies of the superblock and of a block of *)
(* inodes that it takes when it starts (struct treedisk_snapshot).         *)
(***************************************************************************)
EXTENDS Integers, FiniteSets, FiniteSetsExt

CONSTANTS
  NBLOCKS,             \* getsize() of the disk
  REFS_PER_BLOCK,
  INODES_PER_BLOCK,
  NINODES,
  BITS,                \* width of block_no
  Data, Null,          \* contents of data blocks, Null is all zeros
  MaxOffset            \* bound: the last offset that is written

ASSUME TreeDiskAssumption ==
  /\ BITS \in Nat /\ NBLOCKS \in Nat /\ NINODES \in Nat \ {0} /\ INODES_PER_BLOCK \in Nat \ {0}
  /\ \E e \in 1..(BITS - 1) : REFS_PER_BLOCK = 2^e
  /\ MaxOffset \in Nat /\ Null \notin Data

NInodeBlocks == (NINODES + INODES_PER_BLOCK - 1) \div INODES_PER_BLOCK
Inode == 0..(NInodeBlocks * INODES_PER_BLOCK - 1)
Offset == 0..MaxOffset
Slot == 0..(REFS_PER_BLOCK - 1)

VARIABLES
  disk,      \* the contents of the blocks
  full       \* panic() has been called

vars == <<disk, full>>

NoRefs == [i \in Slot |-> 0]
NoInodes == [i \in 0..(INODES_PER_BLOCK - 1) |-> [root |-> 0, nblocks |-> 0]]

-----------------------------------------------------------------------------
(* Trees                                                                   *)

(* log2 of REFS_PER_BLOCK, as treedisk_init() finds it.                    *)
log_rpb == Min({e \in 1..BITS : (REFS_PER_BLOCK - 1) \div 2^e = 0})

log_shift_r(x, nbits) == IF nbits >= BITS THEN 0 ELSE x \div 2^nbits

(* Levels of indirect blocks above the block with number x.                *)
Levels(x) ==
  CHOOSE n \in 0..BITS : /\ log_shift_r(x, n * log_rpb) = 0
                         /\ n > 0 => log_shift_r(x, (n - 1) * log_rpb) # 0

LevelsOf(nblocks) == IF nblocks > 0 THEN Levels(nblocks - 1) ELSE 0

Index(offset, n) == log_shift_r(offset, n * log_rpb) % REFS_PER_BLOCK

InodeBlock(ino) == 1 + ino \div INODES_PER_BLOCK

GetInode(d, ino) == d[InodeBlock(ino)][ino % INODES_PER_BLOCK]

RECURSIVE ReadFrom(_, _, _, _)

(* The walk of treedisk_read() from block b with n levels to go.           *)
ReadFrom(d, b, n, offset) ==
  IF b = 0 THEN Null
  ELSE IF n = 0 THEN d[b]
  ELSE ReadFrom(d, d[b][Index(offset, n - 1)], n - 1, offset)

(* treedisk_read(), for an offset that is not too large.                   *)
treedisk_read(d, ino, offset) ==
  ReadFrom(d, GetInode(d, ino).root, LevelsOf(GetInode(d, ino).nblocks), offset)

-----------------------------------------------------------------------------
(* A write in progress: the disk, the copies of the superblock and of the  *)
(* inode, the block that was allocated or found last, and whether the free *)
(* list was empty.                                                         *)
Snapshot(ino) ==
  [disk |-> disk, super |-> disk[0], inode |-> GetInode(disk, ino), b |-> 0, full |-> FALSE]

(* Mutant: the loop ends before slot 1.                                    *)
LastRef_short(refs) == Max({i \in Slot : i = 0 \/ (i > 1 /\ refs[i] # 0)})

(* The last reference in a free list block, 0 if there is none but the     *)
(* link to the next.                                                       *)
LastRef(refs) == Max({i \in Slot : i = 0 \/ refs[i] # 0})

(* treedisk_alloc_block()                                                  *)
AllocBlock(s) ==
  LET fb == s.super.free_list
      i == LastRef(s.disk[fb])
      rest == [s.super EXCEPT !.free_list = s.disk[fb][0]]
  IN  IF fb = 0 THEN [s EXCEPT !.full = TRUE]
      ELSE IF i = 0 THEN [s EXCEPT !.super = rest, !.disk[0] = rest, !.b = fb]
      ELSE [s EXCEPT !.disk[fb][i] = 0, !.b = s.disk[fb][i]]

PutInode(s, ino) ==
  [s EXCEPT !.disk[InodeBlock(ino)][ino % INODES_PER_BLOCK] = s.inode]

RECURSIVE Grow_lost(_, _)

(* Mutant: the new root does not refer to the old one.                     *)
Grow_lost(s, n) ==
  LET a == AllocBlock(s)
  IN  IF n = 0 THEN s
      ELSE IF a.full THEN a
      ELSE Grow_lost([a EXCEPT !.disk[a.b] = NoRefs, !.inode.root = a.b], n - 1)

RECURSIVE Grow(_, _)

(* Insert n indirect blocks above the root.                                *)
Grow(s, n) ==
  LET a == AllocBlock(s)
  IN  IF n = 0 THEN s
      ELSE IF a.full THEN a
      ELSE Grow([a EXCEPT !.disk[a.b] = [NoRefs EXCEPT ![0] = a.inode.root],
                          !.inode.root = a.b], n - 1)

RECURSIVE Descend(_, _, _, _, _)

(* Walk down from the indirect block p, whose contents are tib, allocating *)
(* the blocks that are missing.  A new indirect block is written when its  *)
(* first reference is set.                                                 *)
Descend(s, p, tib, n, offset) ==
  LET i == Index(offset, n)
      a == AllocBlock(s)
      linked == [a EXCEPT !.disk[p] = [tib EXCEPT ![i] = a.b]]
  IN  CASE tib[i] # 0 /\ n = 0 -> [s EXCEPT !.b = tib[i]]
        [] tib[i] # 0 /\ n > 0 -> Descend(s, tib[i], s.disk[tib[i]], n - 1, offset)
        [] tib[i] = 0 /\ a.full -> a
        [] tib[i] = 0 /\ ~a.full /\ n = 0 -> linked
        [] tib[i] = 0 /\ ~a.full /\ n > 0 -> Descend(linked, a.b, NoRefs, n - 1, offset)

(* The same from the inode, which holds the root.                          *)
FindBlock(s, ino, n, offset) ==
  LET a == AllocBlock(s)
      linked == PutInode([a EXCEPT !.inode.root = a.b], ino)
  IN  CASE s.inode.root # 0 /\ n = 0 -> [s EXCEPT !.b = s.inode.root]
        [] s.inode.root # 0 /\ n > 0 ->
             Descend(s, s.inode.root, s.disk[s.inode.root], n - 1, offset)
        [] s.inode.root = 0 /\ a.full -> a
        [] s.inode.root = 0 /\ ~a.full /\ n = 0 -> linked
        [] s.inode.root = 0 /\ ~a.full /\ n > 0 ->
             Descend(linked, a.b, NoRefs, n - 1, offset)

Valid(ino) == ino < disk[0].n_inodeblocks * INODES_PER_BLOCK

(* treedisk_write()                                                        *)
TreediskWrite(ino, offset, x) ==
  LET s == Snapshot(ino)
      now == LevelsOf(s.inode.nblocks)
      longer == offset >= s.inode.nblocks
      after == IF longer THEN Levels(offset) ELSE now
      sized == IF longer THEN [s EXCEPT !.inode.nblocks = offset + 1] ELSE s
      grown == Grow(sized, IF after > now THEN after - now ELSE 0)
      found == FindBlock(PutInode(grown, ino), ino, after, offset)
  IN  /\ ~full /\ Valid(ino)
      /\ full' = (grown.full \/ found.full)
      /\ disk' = CASE grown.full -> grown.disk
                   [] ~grown.full /\ found.full -> found.disk
                   [] ~grown.full /\ ~found.full -> [found.disk EXCEPT ![found.b] = x]

-----------------------------------------------------------------------------
(* Creating a file system                                                  *)

RECURSIVE SetupFreelist(_, _, _)

(* setup_freelist(): a free list block for every REFS_PER_BLOCK blocks.    *)
SetupFreelist(d, next, head) ==
  LET last == Min({next + REFS_PER_BLOCK, NBLOCKS}) - 1
      refs == [i \in Slot |-> IF i = 0 THEN head ELSE IF next + i <= last THEN next + i ELSE 0]
  IN  IF next >= NBLOCKS THEN [disk |-> d, head |-> head]
      ELSE SetupFreelist([d EXCEPT ![next] = refs], last + 1, next)

(* treedisk_create() on a disk without a file system.                      *)
TreediskCreate ==
  LET l == SetupFreelist(disk, NInodeBlocks + 1, 0)
  IN  /\ disk[0].n_inodeblocks = 0 /\ NBLOCKS >= NInodeBlocks + 2
      /\ disk' = [b \in DOMAIN disk |->
           IF b = 0 THEN [n_inodeblocks |-> NInodeBlocks, free_list |-> l.head]
           ELSE IF b <= NInodeBlocks THEN NoInodes
           ELSE l.disk[b]]
      /\ UNCHANGED full

-----------------------------------------------------------------------------
(* The RAM disk of mkfs.c: all zeros.                                      *)
Init ==
  /\ disk = [b \in 0..(NBLOCKS - 1) |->
       IF b = 0 THEN [n_inodeblocks |-> 0, free_list |-> 0] ELSE Null]
  /\ full = FALSE

Next ==
  \/ TreediskCreate
  \/ \E ino \in Inode, offset \in Offset, x \in Data : TreediskWrite(ino, offset, x)

Spec == Init /\ [][Next]_vars

-----------------------------------------------------------------------------
Created == disk[0].n_inodeblocks # 0

RECURSIVE Nodes(_, _)

(* The indirect blocks of the tree with n levels below block b.            *)
Nodes(b, n) ==
  IF b = 0 \/ n = 0 THEN {}
  ELSE {b} \cup UNION {Nodes(disk[b][i], n - 1) : i \in Slot}

IndirectBlocks ==
  UNION {Nodes(GetInode(disk, ino).root, LevelsOf(GetInode(disk, ino).nblocks)) : ino \in Inode}

RECURSIVE ListFrom(_)

ListFrom(b) == IF b = 0 THEN {} ELSE {b} \cup ListFrom(disk[b][0])

(* Everything on the disk that refers to block b.                          *)
RefsTo(b) ==
  {<<"inode", ino>> : ino \in {i \in Inode : GetInode(disk, i).root = b}}
    \cup {r \in (IndirectBlocks \cup ListFrom(disk[0].free_list)) \X Slot : disk[r[1]][r[2]] = b}
    \cup {r \in {<<"free_list">>} : disk[0].free_list = b}

(* After any sequence of writes every block is in exactly one place: once  *)
(* in one file, or once on the free list.  A write of treedisk_write()     *)
(* takes several blocks from the list with one copy of the superblock.     *)
BlocksAccountedFor ==
  Created /\ ~full =>
    \A b \in (NInodeBlocks + 1)..(NBLOCKS - 1) : Cardinality(RefsTo(b)) = 1

Contents(ino) ==
  IF Created
  THEN [k \in 0..(GetInode(disk, ino).nblocks - 1) |-> treedisk_read(disk, ino, k)]
  ELSE [k \in {} |-> Null]

Files == INSTANCE InodeStore WITH files <- [ino \in Inode |-> Contents(ino)]

(* What is written at an offset of a file is what is read there, whatever  *)
(* levels later writes put above it and whatever was in its block before;  *)
(* offsets never written read as null; and a write that finds the disk     *)
(* full damages nothing.                                                   *)
StoresFiles == Files!Spec
=============================================================================
