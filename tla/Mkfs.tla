------------------------------- MODULE Mkfs --------------------------------
(***************************************************************************)
(* tools/mkfs.c: the image of a file system made from a directory of the   *)
(* host.  A step of the program is an operator from the image so far, with  *)
(* the counters freeinode and freeblock, to the next one.                   *)
(***************************************************************************)
EXTENDS FsImage

\* What the host's directory lists: a file of len cells, or a directory.
HostFile(n, len) == [name |-> n, dir |-> FALSE, len |-> len, entries |-> <<>>]
HostDir(n, entries) == [name |-> n, dir |-> TRUE, len |-> 0, entries |-> entries]

\* mkfs(nblocks, ninodes, size): all blocks are zero.
mkfs == [freeinode |-> 1, freeblock |-> UsedBlocks,
         inode |-> [i \in Inum |-> NoInode],
         block |-> [b \in Block |-> ZeroBlock]]

\* The number of the new inode is s.freeinode.
ialloc(s, type) ==
  [s EXCEPT !.freeinode = @ + 1,
            !.inode[s.freeinode] = [NoInode EXCEPT !.type = type, !.nlink = 1]]

\* The blocks that iappend allocates before it writes at offset off.
mapped(s, inum, fbn) ==
  LET din == s.inode[inum]
      direct == [s EXCEPT !.inode[inum].addrs[fbn] = s.freeblock, !.freeblock = @ + 1]
      indirect == IF din.addrs[NDIRECT] # 0 THEN s
                  ELSE [s EXCEPT !.inode[inum].addrs[NDIRECT] = s.freeblock, !.freeblock = @ + 1]
  IN IF BlockOf(din, s.block, fbn) # 0 THEN s
     ELSE IF fbn < NDIRECT THEN direct
     ELSE [indirect EXCEPT
             !.block[indirect.inode[inum].addrs[NDIRECT]][fbn - NDIRECT] = Address(indirect.freeblock),
             !.freeblock = @ + 1]

iappend(s, inum, cells) ==
  FoldLeft(LAMBDA t, cell :
             LET off == t.inode[inum].size
                 u == mapped(t, inum, off \div BSIZE)
                 x == BlockOf(u.inode[inum], u.block, off \div BSIZE)
             IN [u EXCEPT !.block[x][off % BSIZE] = cell, !.inode[inum].size = off + 1],
           s, cells)

RECURSIVE add_dir(_, _, _, _)

\* add_dir: the entry of a child comes after the child's own contents, and at the
\* end the size becomes the next multiple of the block size.
add_dir(s, entries, cur, parent) ==
  LET dots == iappend(s, cur, <<Dirent(".", cur), Dirent("..", parent)>>)
      add(t, e) ==
        LET child == t.freeinode
            made == IF e.dir THEN add_dir(ialloc(t, T_DIR), e.entries, child, cur)
                    ELSE iappend(ialloc(t, T_FILE), child, [c \in 1 .. e.len |-> Data])
        IN iappend(made, cur, <<Dirent(e.name, child)>>)
      all == FoldLeft(add, dots, entries)
  IN [all EXCEPT !.inode[cur].size = (@ \div BSIZE + 1) * BSIZE]

\* main: the root directory, and balloc(usedblocks), the bitmap.
Image(entries) ==
  LET s == add_dir(ialloc(mkfs, T_DIR), entries, ROOTINO, ROOTINO)
  IN [inode |-> s.inode, block |-> s.block, bitmap |-> 0 .. s.freeblock - 1]
============================================================================
