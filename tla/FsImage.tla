------------------------------ MODULE FsImage ------------------------------
(***************************************************************************)
(* The on-disk format of include/fs.h, which the kernel, mkfs and xfsck     *)
(* share.                                                                   *)
(*                                                                          *)
(* A block is BSIZE cells.  A cell of a directory is a struct dirent, a     *)
(* cell of an indirect block is an address, which has no name, a cell of a  *)
(* file is a piece of its data.  Sizes and offsets count cells.  The        *)
(* bitmap is one block, as it is for every disk of less than BPB blocks.    *)
(***************************************************************************)
EXTENDS Integers, Sequences, FiniteSets, SequencesExt, FiniteSetsExt, Functions

CONSTANTS NINODES, NBLOCKS,  \* of the superblock: inodes, data blocks
          IPB,               \* inodes of an inode block
          BSIZE,             \* cells of a block
          NDIRECT, NINDIRECT

ASSUME SizeAssumption ==
  /\ {IPB, BSIZE, NDIRECT, NINDIRECT, NINODES, NBLOCKS} \subseteq Nat \ {0}
  /\ NINDIRECT <= BSIZE /\ NINODES > 1

ROOTINO == 1
T_DIR == 1
T_FILE == 2
T_DEV == 3
MAXFILE == NDIRECT + NINDIRECT

\* The first data block: boot block, superblock, inodes and the bitmap come before.
UsedBlocks == NINODES \div IPB + 4
SIZE == NBLOCKS + UsedBlocks

Inum == 0 .. NINODES - 1
Block == 0 .. SIZE - 1

Dirent(n, i) == [name |-> n, inum |-> i]
Zero == Dirent("", 0)
Address(b) == Dirent("", b)
Data == Dirent("data", 0)
ZeroBlock == [c \in 0 .. BSIZE - 1 |-> Zero]

NoInode == [type |-> 0, nlink |-> 0, size |-> 0, addrs |-> [a \in 0 .. NDIRECT |-> 0]]

\* The address of the bn-th block of the inode din, 0 when it has none.
BlockOf(din, block, bn) ==
  IF bn < NDIRECT THEN din.addrs[bn]
  ELSE IF din.addrs[NDIRECT] = 0 THEN 0
  ELSE block[din.addrs[NDIRECT]][bn - NDIRECT].inum

BlocksFor(size) == (size + BSIZE - 1) \div BSIZE

\* The blocks that hold the contents of an inode, and all blocks it has.
ContentBlocks(din, block) == {BlockOf(din, block, bn) : bn \in 0 .. MAXFILE - 1} \ {0}
AllBlocks(din, block) == ContentBlocks(din, block) \cup ({din.addrs[NDIRECT]} \ {0})

\* The cell at an offset of an inode's contents.
CellAt(din, block, off) == block[BlockOf(din, block, off \div BSIZE)][off % BSIZE]

\* The offsets of a directory that hold an entry; whole blocks are looked at.
EntryOffsets(din, block) ==
  {off \in 0 .. BlocksFor(din.size) * BSIZE - 1 :
     BlockOf(din, block, off \div BSIZE) # 0 /\ CellAt(din, block, off).inum # 0}

Entries(din, block) == {CellAt(din, block, off) : off \in EntryOffsets(din, block)}
============================================================================
