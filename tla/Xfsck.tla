------------------------------- MODULE Xfsck -------------------------------
(***************************************************************************)
(* tools/xfsck.c: the rules of the file system checker, as predicates of   *)
(* an image, in the order in which the program tests them.  Each has the   *)
(* loop bounds of the program.                                             *)
(***************************************************************************)
EXTENDS FsImage

nb_inodes == (NINODES + IPB - 1) \div IPB
nb_bitmap == 1
nb_total == NBLOCKS + nb_inodes + nb_bitmap + 3
ib_data == 2 + nb_inodes + 1 + nb_bitmap
ib_end == ib_data + NBLOCKS - 1

\* The inodes of the inode blocks; the image has no more of them than NINODES here.
ASSUME InodeAssumption == NINODES % IPB = 0

InUse(img) == {i \in Inum : img.inode[i].type # 0}
Dirs(img) == {i \in Inum : img.inode[i].type = T_DIR}

\* img_ptr + BSIZE * addrs[index_idb], which is the boot block when there is no
\* indirect block.
Indirect(img, i) == [k \in 0 .. NINDIRECT - 1 |-> img.block[img.inode[i].addrs[NDIRECT]][k].inum]

\* The addresses whose blocks the rules about directories read, each as often as
\* it is there, the boot block for an address of 0.
Direct(img, i) == [k \in 0 .. NDIRECT - 1 |-> img.inode[i].addrs[k]]

\* How often an entry of directory i, from the h0-th of each block on, has inum j.
Count(img, i, j, h0) ==
  Cardinality({<<k, h>> \in (0 .. NDIRECT - 1) \X (h0 .. BSIZE - 1) :
                 img.block[Direct(img, i)[k]][h].inum = j})
  + Cardinality({<<k, h>> \in (0 .. NINDIRECT - 1) \X (h0 .. BSIZE - 1) :
                 img.block[Indirect(img, i)[k]][h].inum = j})

CountAll(img, j, h0) == MapThenSumSet(LAMBDA i : Count(img, i, j, h0), Dirs(img))

----------------------------------------------------------------------------

superblock == SIZE >= nb_total

bad_inode(img) == \E i \in Inum : img.inode[i].type \notin 0 .. 3

Outside(b) == b # 0 /\ (b < ib_data \/ b > ib_end)

bad_address(img) ==
  \E i \in InUse(img) :
    \/ \E k \in 0 .. NDIRECT : Outside(img.inode[i].addrs[k])
    \/ img.inode[i].addrs[NDIRECT] # 0 /\ \E k \in 0 .. NINDIRECT - 1 : Outside(Indirect(img, i)[k])

\* Rule 4: . and .. in the first block, and . is the directory itself.
bad_directory(img) ==
  \E i \in Dirs(img) : LET first == img.block[img.inode[i].addrs[0]] IN
    \/ {".", ".."} \ {first[h].name : h \in DOMAIN first} # {}
    \/ \E h \in DOMAIN first : first[h].name = "." /\ first[h].inum # i

\* Rule 5: the indirect addresses are tested when they are 0 too.
marked_free(img) ==
  \E i \in InUse(img) :
    \/ \E k \in 0 .. NDIRECT : img.inode[i].addrs[k] \notin img.bitmap \cup {0}
    \/ \E k \in 0 .. NINDIRECT - 1 : Indirect(img, i)[k] \notin img.bitmap

\* Rule 6, from the first data block to the number of data blocks, over all
\* inodes, those not in use included.
not_in_use(img) ==
  \E b \in UsedBlocks .. NBLOCKS - 1 :
    /\ b \in img.bitmap
    /\ \A i \in Inum :
         /\ \A k \in 0 .. NDIRECT : img.inode[i].addrs[k] # b
         /\ \A k \in 0 .. NINDIRECT - 1 : Indirect(img, i)[k] # b

\* Rule 7 looks for the second use in the inodes from i to the number of inode
\* blocks.
used_twice(img) ==
  \E i \in InUse(img) : \E j \in 0 .. NDIRECT - 1 :
    /\ img.inode[i].addrs[j] # 0
    /\ \E k \in i .. nb_inodes - 1 : \E h \in 0 .. NDIRECT - 1 :
         <<k, h>> # <<i, j>> /\ img.inode[k].addrs[h] = img.inode[i].addrs[j]

\* Rule 8: size is unsigned, so that no size is right when there is no block.
bad_size(img) ==
  \E i \in InUse(img) :
    LET size == img.inode[i].size
        num_db == Cardinality({k \in 0 .. NDIRECT - 1 : img.inode[i].addrs[k] # 0})
                  + IF img.inode[i].addrs[NDIRECT] = 0 THEN 0
                    ELSE Cardinality({k \in 0 .. NINDIRECT - 1 : Indirect(img, i)[k] # 0})
    IN size # 0 /\ (size > num_db * BSIZE \/ size < (num_db - 1) * BSIZE)

\* Mutation: an inode that no directory refers to is accepted.
not_found_never(img) == FALSE

\* Rule 9
not_found(img) == \E i \in InUse(img) : CountAll(img, i, 0) = 0

\* Rule 10
refers_to_free(img) ==
  \E i \in Dirs(img) : \E k \in 0 .. MAXFILE - 1, h \in 0 .. BSIZE - 1 :
    LET b == IF k < NDIRECT THEN Direct(img, i)[k] ELSE Indirect(img, i)[k - NDIRECT]
        e == img.block[b][h]
    IN e.inum > 0 /\ img.inode[e.inum].type = 0

\* Rule 11
bad_count(img) ==
  \E i \in InUse(img) : img.inode[i].type = T_FILE /\ CountAll(img, i, 0) # img.inode[i].nlink

\* Rule 12: the first two entries of every block are passed over, and the first
\* directory counts as the root.
extra_link(img) ==
  \E i \in Dirs(img) :
    CountAll(img, i, 2) + (IF \A j \in Dirs(img) : i <= j THEN 1 ELSE 0) # 1

\* Extra rule 1, with the direct blocks only.
bad_parent(img) ==
  \E i \in Dirs(img) :
    ~ \E k \in 0 .. NDIRECT - 1, h \in 0 .. BSIZE - 1 :
        LET e == img.block[Direct(img, i)[k]][h] IN
          /\ e.name = ".."
          /\ \E j \in 0 .. NDIRECT - 1, g \in 0 .. BSIZE - 1 :
               img.block[Direct(img, e.inum)[j]][g].inum = i

\* main: nothing is printed.
xfsck(img) ==
  /\ superblock
  /\ ~bad_inode(img) /\ ~bad_address(img) /\ ~bad_directory(img)
  /\ ~marked_free(img) /\ ~not_in_use(img) /\ ~used_twice(img) /\ ~bad_size(img)
  /\ ~not_found(img) /\ ~refers_to_free(img) /\ ~bad_count(img)
  /\ ~extra_link(img) /\ ~bad_parent(img)
============================================================================
