---------------------------- MODULE FileSystem -----------------------------
(***************************************************************************)
(* The file system of kernel/fs.c under the calls of kernel/sysfile.c and   *)
(* kernel/file.c, with crashes, on the image that mkfs makes.               *)
(*                                                                          *)
(* k[p] is what process p has still to do of its call, one step after the   *)
(* other.  A step is a section inside icache.lock or the use of one buffer, *)
(* so that there is at most one write to the disk in it; bread and bwrite   *)
(* are module BufferCache's, and the searches of balloc and ialloc are one  *)
(* step.  What a process does alone, with the inode locked, joins the step  *)
(* before or after it.  ilock waits for I_BUSY in its guard.  The cache has *)
(* an entry for each inode number; an entry without references is what iget *)
(* makes of it.                                                             *)
(***************************************************************************)
EXTENDS Xfsck, TLC

CONSTANTS Proc,
          Host,        \* the directory that mkfs copies
          Heirs,       \* the processes that start with the first file open
          NINODE,      \* entries of the inode cache
          Path,        \* the paths of the calls: [abs, elems]
          Ops,         \* the calls that processes make
          Sizes,       \* of reads and writes
          MaxCalls, MaxCrashes  \* bounds

ASSUME CallAssumption ==
  /\ Ops \subseteq {"create", "mkdir", "mknod", "open", "close", "read", "write", "fstat", "link",
             "unlink", "chdir"}
  /\ Heirs \subseteq Proc
  /\ {MaxCalls, MaxCrashes} \cup Sizes \subseteq Nat
  /\ \A path \in Path : path.abs \in BOOLEAN /\ path.elems # <<>>

VARIABLES disk,      \* what is on the disk: inode, block and bitmap
          ic,        \* icache.inode
          k, ret,    \* what is left of a call, and the result of its last function
          open, cwd, \* the open file of a process, and its working directory
          panic,     \* the message of panic()
          calls, crashes

M == INSTANCE Mkfs

files == <<open, cwd>>
bounds == <<calls, crashes>>
vars == <<disk, ic, k, ret, files, panic, bounds>>

NoEntry == [ref |-> 0, busy |-> FALSE, valid |-> FALSE, din |-> NoInode]
NoFile == [ip |-> 0, writable |-> FALSE, off |-> 0]

\* init and every process have / as their working directory.
Booted == [i \in Inum |-> IF i = ROOTINO THEN [NoEntry EXCEPT !.ref = 1 + Cardinality(Proc)] ELSE NoEntry]

First == ROOTINO + 1

Init ==
  /\ disk = M!Image(Host)
  /\ ic = IF Heirs = {} THEN Booted
          ELSE [Booted EXCEPT ![First] = [ref |-> Cardinality(Heirs), busy |-> FALSE, valid |-> TRUE,
                                          din |-> disk.inode[First]]]
  /\ k = [p \in Proc |-> <<>>] /\ ret = [p \in Proc |-> 0]
  /\ open = [p \in Proc |-> IF p \in Heirs THEN [ip |-> First, writable |-> TRUE, off |-> 0] ELSE NoFile]
  /\ cwd = [p \in Proc |-> ROOTINO]
  /\ panic = "" /\ calls = 0 /\ crashes = 0

----------------------------------------------------------------------------

At(p, op) == panic = "" /\ k[p] # <<>> /\ k[p][1][1] = op
Arg(p, n) == k[p][1][n + 1]

Then(p, steps) == k' = [k EXCEPT ![p] = steps \o Tail(@)]
Before(p, steps) == k' = [k EXCEPT ![p] = steps \o @]

Panics(msg) == panic' = msg /\ UNCHANGED <<disk, ic, k, ret, files, bounds>>

Lowest(S) == CHOOSE x \in S : \A y \in S : x <= y

\* Mutations: the inode stays locked; the reference is kept.
unlockput_locked(i) == << <<"iput", i>> >>
unlockput_kept(i) == << <<"iunlock", i>> >>

unlockput(i) == << <<"iunlock", i>>, <<"iput", i>> >>

----------------------------------------------------------------------------
\* The inode cache

\* iget(dev, inum), and idup of an inode that is in the cache.
iget(c, i) == [c EXCEPT ![i] = IF @.ref > 0 THEN [@ EXCEPT !.ref = @ + 1] ELSE [NoEntry EXCEPT !.ref = 1]]

\* iget finds a slot.
Slot(i) == ic[i].ref > 0 \/ Cardinality({j \in Inum : ic[j].ref > 0}) < NINODE

Unref(e) == IF e.ref = 1 THEN NoEntry ELSE [e EXCEPT !.ref = @ - 1]

\* What ilock leaves in the inode.
Contents(i) == IF ic[i].valid THEN ic[i].din ELSE disk.inode[i]

Locks(p, i) ==
  /\ ~ic[i].busy
  /\ IF ic[i].ref < 1 THEN Panics("ilock")
     ELSE IF ~ic[i].valid /\ disk.inode[i].type = 0 THEN Panics("ilock: no type")
     ELSE /\ ic' = [ic EXCEPT ![i].busy = TRUE, ![i].valid = TRUE, ![i].din = Contents(i)]
          /\ Then(p, <<>>)
          /\ UNCHANGED <<disk, ret, files, panic, bounds>>

ilock(p) == At(p, "ilock") /\ Locks(p, Arg(p, 1))

\* ilock of what namei or nameiparent found; the call fails when that is nothing.
ilock_found(p) ==
  /\ At(p, "ilock_found")
  /\ IF ret[p] # 0 THEN Locks(p, ret[p])
     ELSE k' = [k EXCEPT ![p] = <<>>] /\ UNCHANGED <<disk, ic, ret, files, panic, bounds>>

iunlock(p) ==
  /\ At(p, "iunlock")
  /\ IF ~ic[Arg(p, 1)].busy THEN Panics("iunlock")
     ELSE /\ ic' = [ic EXCEPT ![Arg(p, 1)].busy = FALSE]
          /\ Then(p, <<>>)
          /\ UNCHANGED <<disk, ret, files, panic, bounds>>

\* Mutation: a file without links is freed although somebody else has it open.
Unused_open(e) == e.valid /\ e.din.nlink = 0

\* Mutation: the links are not looked at.
Unused_linked(e) == e.ref = 1 /\ e.valid

Unused(e) == e.ref = 1 /\ e.valid /\ e.din.nlink = 0

\* Mutation: the bit in the bitmap is cleared first.
bfree_bit_first(b) == << <<"clear_bit", b>>, <<"bzero", b>> >>

\* Mutation: the bit stays.
bfree_zero(b) == << <<"bzero", b>> >>

bfree(b) == << <<"bzero", b>>, <<"clear_bit", b>> >>

itrunc(i) ==
  LET din == ic[i].din
      direct == [a \in 1 .. NDIRECT |-> din.addrs[a - 1]]
      ind == din.addrs[NDIRECT]
      indirect == IF ind = 0 THEN <<>>
                  ELSE [a \in 1 .. NINDIRECT |-> disk.block[ind][a - 1].inum] \o <<ind>>
      blocks == SelectSeq(direct \o indirect, LAMBDA b : b # 0)
  IN FlattenSeq([a \in DOMAIN blocks |-> bfree(blocks[a])]) \o << <<"itrunc_end", i>> >>

iput(p) ==
  LET i == Arg(p, 1) IN
  /\ At(p, "iput")
  /\ IF Unused(ic[i]) /\ ic[i].busy THEN Panics("iput busy")
     ELSE /\ IF Unused(ic[i])
             THEN /\ ic' = [ic EXCEPT ![i].busy = TRUE]
                  /\ Then(p, itrunc(i) \o << <<"free_inode", i>>, <<"iput_end", i>> >>)
             ELSE ic' = [ic EXCEPT ![i] = Unref(@)] /\ Then(p, <<>>)
          /\ UNCHANGED <<disk, ret, files, panic, bounds>>

\* The addresses and the size are 0; iupdate(ip).
itrunc_end(p) ==
  LET i == Arg(p, 1)
      din == [ic[i].din EXCEPT !.size = 0, !.addrs = NoInode.addrs]
  IN /\ At(p, "itrunc_end")
     /\ ic' = [ic EXCEPT ![i].din = din]
     /\ disk' = [disk EXCEPT !.inode[i] = din]
     /\ Then(p, <<>>)
     /\ UNCHANGED <<ret, files, panic, bounds>>

\* ip->type = 0; iupdate(ip).
free_inode(p) ==
  /\ At(p, "free_inode")
  /\ ic' = [ic EXCEPT ![Arg(p, 1)].din.type = 0]
  /\ disk' = [disk EXCEPT !.inode[Arg(p, 1)].type = 0]
  /\ Then(p, <<>>)
  /\ UNCHANGED <<ret, files, panic, bounds>>

\* ip->flags = 0
Freed(e) == Unref([NoEntry EXCEPT !.ref = e.ref])

iput_end(p) ==
  /\ At(p, "iput_end")
  /\ ic' = [ic EXCEPT ![Arg(p, 1)] = Freed(@)]
  /\ Then(p, <<>>)
  /\ UNCHANGED <<disk, ret, files, panic, bounds>>

----------------------------------------------------------------------------
\* Blocks

\* bfree, in two writes: the block, and its bit in the bitmap.
bzero(p) ==
  /\ At(p, "bzero")
  /\ disk' = [disk EXCEPT !.block[Arg(p, 1)] = ZeroBlock]
  /\ Then(p, <<>>)
  /\ UNCHANGED <<ic, ret, files, panic, bounds>>

clear_bit(p) ==
  /\ At(p, "clear_bit")
  /\ IF Arg(p, 1) \notin disk.bitmap THEN Panics("freeing free block")
     ELSE /\ disk' = [disk EXCEPT !.bitmap = @ \ {Arg(p, 1)}]
          /\ Then(p, <<>>)
          /\ UNCHANGED <<ic, ret, files, panic, bounds>>

FreeBlocks == Block \ disk.bitmap

\* One of the writes by which bmap(ip, bn) allocates the block, ahead of the step
\* that needs it.
bmap(p, i, bn) ==
  LET b == Lowest(FreeBlocks) IN
  IF FreeBlocks = {} THEN Panics("balloc: out of blocks")
  ELSE /\ disk' = [disk EXCEPT !.bitmap = @ \cup {b}]
       /\ CASE bn < NDIRECT -> ic' = [ic EXCEPT ![i].din.addrs[bn] = b] /\ UNCHANGED k
            [] bn >= NDIRECT /\ ic[i].din.addrs[NDIRECT] = 0 ->
                 ic' = [ic EXCEPT ![i].din.addrs[NDIRECT] = b] /\ UNCHANGED k
            [] OTHER -> Before(p, << <<"bmap_entry", i, bn - NDIRECT, b>> >>) /\ UNCHANGED ic
       /\ UNCHANGED <<ret, files, panic, bounds>>

\* a[bn] = addr; bwrite(bp).
bmap_entry(p) ==
  /\ At(p, "bmap_entry")
  /\ disk' = [disk EXCEPT !.block[ic[Arg(p, 1)].din.addrs[NDIRECT]][Arg(p, 2)] = Address(Arg(p, 3))]
  /\ Then(p, <<>>)
  /\ UNCHANGED <<ic, ret, files, panic, bounds>>

----------------------------------------------------------------------------
\* Contents of an inode

\* The step that writes cells at off: MAXFILE cuts them short.
WriteAt(i, off, cells) ==
  <<"writei", i, off, SubSeq(cells, 1, Lowest({Len(cells), MAXFILE * BSIZE - off}))>>

\* Where the writes of a writei go.
Target(p) == BlockOf(ic[Arg(p, 1)].din, disk.block, Arg(p, 2) \div BSIZE)

writei_map(p) ==
  /\ At(p, "writei") /\ Arg(p, 3) # <<>> /\ Target(p) = 0
  /\ bmap(p, Arg(p, 1), Arg(p, 2) \div BSIZE)

\* The block is written, with what fits into it.
writei_block(p) ==
  LET i == Arg(p, 1)
      off == Arg(p, 2)
      cells == Arg(p, 3)
      m == Lowest({Len(cells), BSIZE - (off % BSIZE)})
      put(c) == c - (off % BSIZE) + 1
  IN /\ At(p, "writei") /\ cells # <<>> /\ Target(p) # 0
     /\ disk' = [disk EXCEPT !.block[Target(p)] =
                   [c \in DOMAIN @ |-> IF put(c) \in 1 .. m THEN cells[put(c)] ELSE @[c]]]
     /\ Then(p, << <<"writei", i, off + m, SubSeq(cells, m + 1, Len(cells))>> >>)
     /\ UNCHANGED <<ic, ret, files, panic, bounds>>

\* The file has grown: ip->size = off; iupdate(ip).
writei_end(p) ==
  LET i == Arg(p, 1)
      din == [ic[i].din EXCEPT !.size = Arg(p, 2)]
  IN /\ At(p, "writei") /\ Arg(p, 3) = <<>>
     /\ IF din.size > ic[i].din.size
        THEN ic' = [ic EXCEPT ![i].din = din] /\ disk' = [disk EXCEPT !.inode[i] = din]
        ELSE UNCHANGED <<ic, disk>>
     /\ Then(p, <<>>)
     /\ UNCHANGED <<ret, files, panic, bounds>>

iupdate_nlink(i, n) ==
  /\ ic' = [ic EXCEPT ![i].din.nlink = n]
  /\ disk' = [disk EXCEPT !.inode[i] = [ic[i].din EXCEPT !.nlink = n]]

\* ip->nlink++ or --; iupdate(ip).
nlink(p) ==
  /\ At(p, "nlink")
  /\ iupdate_nlink(Arg(p, 1), ic[Arg(p, 1)].din.nlink + Arg(p, 2))
  /\ Then(p, <<>>)
  /\ UNCHANGED <<ret, files, panic, bounds>>

----------------------------------------------------------------------------
\* Directories

\* dirlookup reads whole blocks.
Scanned(i) ==
  {off \in 0 .. BlocksFor(ic[i].din.size) * BSIZE - 1 : BlockOf(ic[i].din, disk.block, off \div BSIZE) # 0}

Matches(i, n) ==
  {off \in Scanned(i) : LET c == CellAt(ic[i].din, disk.block, off) IN c.inum # 0 /\ c.name = n}

\* The blocks that are inside the size and have not been allocated, which bmap
\* does as soon as they are read.
Holes(i) == {bn \in 0 .. BlocksFor(ic[i].din.size) - 1 : BlockOf(ic[i].din, disk.block, bn) = 0}

\* The holes on the way to the entry for n.
HolesBefore(i, n) == {bn \in Holes(i) : \A off \in Matches(i, n) : bn < off \div BSIZE}

Found(i, n) == HolesBefore(i, n) = {} /\ Matches(i, n) # {}
Missing(i, n) == HolesBefore(i, n) = {} /\ Matches(i, n) = {}
InumOf(i, n) == CellAt(ic[i].din, disk.block, Lowest(Matches(i, n))).inum

\* dirlookup(dp, name) of the step at hand allocates a block.
Maps(p, i, n) == HolesBefore(i, n) # {} /\ bmap(p, i, Lowest(HolesBefore(i, n)))

\* The inode found, with a reference.
Gets(p, i, steps) ==
  IF Slot(i)
  THEN ic' = iget(ic, i) /\ Then(p, steps) /\ UNCHANGED <<disk, panic, bounds>>
  ELSE panic' = "iget: no inodes" /\ UNCHANGED <<disk, ic, k, bounds>>

\* The first empty entry, or the end.
EmptyOffset(i) ==
  Lowest({off \in 0 .. ic[i].din.size - 1 : CellAt(ic[i].din, disk.block, off).inum = 0} \cup {ic[i].din.size})

\* dirlink(dp, name, inum); its result is in ret.
dirlink(p) ==
  LET dp == Arg(p, 1)
      n == Arg(p, 2)
      off == EmptyOffset(dp)
  IN /\ At(p, "dirlink")
     /\ \/ Maps(p, dp, n)
        \/ /\ Found(dp, n)
           /\ Gets(p, InumOf(dp, n), << <<"iput", InumOf(dp, n)>> >>)
           /\ ret' = [ret EXCEPT ![p] = 0]
           /\ UNCHANGED files
        \/ /\ Missing(dp, n)
           /\ IF off = MAXFILE * BSIZE THEN Panics("dirlink")
              ELSE /\ Then(p, << <<"writei", dp, off, <<Dirent(n, Arg(p, 3))>> >> >>)
                   /\ ret' = [ret EXCEPT ![p] = 1]
                   /\ UNCHANGED <<disk, ic, files, panic, bounds>>

----------------------------------------------------------------------------
\* Paths

\* What is left of namex at inode i.
Walk(i, elems, parent) ==
  IF elems = <<>> THEN <<>> ELSE << <<"ilock", i>>, <<"namex", i, elems, parent>> >>

From(p, path) == IF path.abs THEN ROOTINO ELSE cwd[p]

\* The beginning of namex(path, nameiparent, name), before steps.
Looks_up(p, path, parent, steps) ==
  /\ ic' = iget(ic, From(p, path))
  /\ ret' = [ret EXCEPT ![p] = From(p, path)]
  /\ k' = [k EXCEPT ![p] = Walk(From(p, path), path.elems, parent) \o steps]

\* The loop of namex, inode i locked.
namex(p) ==
  LET i == Arg(p, 1)
      elems == Arg(p, 2)
      parent == Arg(p, 3)
      n == elems[1]
      dir == ic[i].din.type = T_DIR
      stop == parent /\ Len(elems) = 1
  IN /\ At(p, "namex")
     /\ \/ /\ ~dir \/ (~stop /\ Missing(i, n))
           /\ ret' = [ret EXCEPT ![p] = 0]
           /\ Then(p, unlockput(i))
           /\ UNCHANGED <<disk, ic, files, panic, bounds>>
        \/ /\ dir /\ stop
           /\ ret' = [ret EXCEPT ![p] = i]
           /\ Then(p, << <<"iunlock", i>> >>)
           /\ UNCHANGED <<disk, ic, files, panic, bounds>>
        \/ dir /\ ~stop /\ Maps(p, i, n)
        \/ /\ dir /\ ~stop /\ Found(i, n)
           /\ Gets(p, InumOf(i, n), unlockput(i) \o Walk(InumOf(i, n), Tail(elems), parent))
           /\ ret' = [ret EXCEPT ![p] = InumOf(i, n)]
           /\ UNCHANGED files

----------------------------------------------------------------------------
\* Calls

Calls(p, op) == panic = "" /\ k[p] = <<>> /\ calls < MaxCalls /\ op \in Ops /\ calls' = calls + 1

\* A call that begins with a path and goes on with steps.
PathCall(p, op, path, parent, steps) ==
  /\ Calls(p, op)
  /\ Looks_up(p, path, parent, steps)
  /\ UNCHANGED <<disk, files, panic, crashes>>

sys_unlink(p) ==
  \E path \in Path : PathCall(p, "unlink", path, TRUE, << <<"ilock_found">>, <<"unlink", Last(path.elems)>> >>)

\* The directory is locked.
unlink(p) ==
  LET dp == ret[p]
      n == Arg(p, 1)
      i == InumOf(dp, n)
  IN /\ At(p, "unlink")
     /\ \/ /\ n \in {".", ".."} \/ Missing(dp, n)
           /\ Then(p, unlockput(dp))
           /\ UNCHANGED <<disk, ic, ret, files, panic, bounds>>
        \/ n \notin {".", ".."} /\ Maps(p, dp, n)
        \/ /\ n \notin {".", ".."} /\ Found(dp, n)
           /\ Gets(p, i, << <<"ilock", i>>, <<"unlink_locked", dp, i, Lowest(Matches(dp, n))>> >>)
           /\ UNCHANGED <<ret, files>>

isdirempty(i) == \A off \in 2 .. ic[i].din.size - 1 : CellAt(ic[i].din, disk.block, off).inum = 0

\* Mutation: the count goes down, and the inode is put, before the entry is gone.
unlink_steps_entry_last(dp, i, off) ==
  << <<"nlink", i, -1>> >> \o unlockput(i) \o << <<"writei", dp, off, <<Zero>> >> >>
  \o (IF ic[i].din.type = T_DIR THEN << <<"nlink", dp, -1>> >> ELSE <<>>)
  \o unlockput(dp)

\* The entry is erased, then the counts go down.
unlink_steps(dp, i, off) ==
  << <<"writei", dp, off, <<Zero>> >> >>
  \o (IF ic[i].din.type = T_DIR THEN << <<"nlink", dp, -1>> >> ELSE <<>>)
  \o unlockput(dp)
  \o << <<"nlink", i, -1>> >> \o unlockput(i)

unlink_locked(p) ==
  LET dp == Arg(p, 1)
      i == Arg(p, 2)
      dir == ic[i].din.type = T_DIR
  IN /\ At(p, "unlink_locked")
     /\ IF ic[i].din.nlink < 1 THEN Panics("unlink: nlink < 1")
        ELSE IF dir /\ isdirempty(i) /\ Holes(i) # {} THEN bmap(p, i, Lowest(Holes(i)))
        ELSE /\ Then(p, IF dir /\ ~isdirempty(i) THEN unlockput(i) \o unlockput(dp)
                        ELSE unlink_steps(dp, i, Arg(p, 3)))
             /\ UNCHANGED <<disk, ic, ret, files, panic, bounds>>

sys_link(p) ==
  \E old, new \in Path :
    PathCall(p, "link", old, FALSE, << <<"ilock_found">>, <<"link", new>> >>)

link(p) ==
  LET i == ret[p] IN
  /\ At(p, "link")
  /\ Then(p, IF ic[i].din.type = T_DIR THEN unlockput(i)
             ELSE << <<"nlink", i, 1>>, <<"iunlock", i>>, <<"link_new", i, Arg(p, 1)>> >>)
  /\ UNCHANGED <<disk, ic, ret, files, panic, bounds>>

link_new(p) ==
  LET new == Arg(p, 2) IN
  /\ At(p, "link_new")
  /\ Looks_up(p, new, TRUE, << <<"link_dp", Arg(p, 1), Last(new.elems)>> >>)
  /\ UNCHANGED <<disk, files, panic, bounds>>

bad(i) == << <<"ilock", i>>, <<"nlink", i, -1>> >> \o unlockput(i)

link_dp(p) ==
  LET i == Arg(p, 1)
      dp == ret[p]
  IN /\ At(p, "link_dp")
     /\ Then(p, IF dp = 0 THEN bad(i)
                ELSE << <<"ilock", dp>>, <<"dirlink", dp, Arg(p, 2), i>>, <<"link_end", dp, i>> >>)
     /\ UNCHANGED <<disk, ic, ret, files, panic, bounds>>

link_end(p) ==
  LET dp == Arg(p, 1)
      i == Arg(p, 2)
  IN /\ At(p, "link_end")
     /\ Then(p, unlockput(dp) \o (IF ret[p] = 0 THEN bad(i) ELSE << <<"iput", i>> >>))
     /\ UNCHANGED <<disk, ic, ret, files, panic, bounds>>

\* create(path, type) of open with O_CREATE and O_RDWR, of mkdir and of mknod.
sys_create(p) ==
  \E path \in Path, c \in {<<"create", T_FILE>>, <<"mkdir", T_DIR>>, <<"mknod", T_DEV>>} :
    PathCall(p, c[1], path, TRUE, << <<"ilock_found">>, <<"create", Last(path.elems), c[2]>> >>)

create(p) ==
  LET dp == ret[p]
      n == Arg(p, 1)
      type == Arg(p, 2)
      i == InumOf(dp, n)
  IN /\ At(p, "create")
     /\ \/ Maps(p, dp, n)
        \/ /\ Found(dp, n)
           /\ Gets(p, i, unlockput(dp) \o << <<"ilock", i>>, <<"create_found", i, type>> >>)
           /\ UNCHANGED <<ret, files>>
        \/ /\ Missing(dp, n)
           /\ Then(p, << <<"ialloc", dp, n, type>> >>)
           /\ UNCHANGED <<disk, ic, ret, files, panic, bounds>>

create_found(p) ==
  LET i == Arg(p, 1) IN
  /\ At(p, "create_found")
  /\ Then(p, IF Arg(p, 2) = T_FILE /\ ic[i].din.type = T_FILE THEN << <<"opened", i, TRUE>> >>
             ELSE unlockput(i))
  /\ UNCHANGED <<disk, ic, ret, files, panic, bounds>>

\* After ialloc: the count, the entries of a directory, and the entry for it.
create_steps(dp, n, i, type) ==
  << <<"ilock", i>>, <<"nlink", i, 1>> >>
  \o (IF type # T_DIR THEN <<>>
      ELSE << <<"nlink", dp, 1>>, <<"dirlink", i, ".", i>>, <<"dirlink", i, "..", dp>> >>)
  \o << <<"dirlink", dp, n, i>> >> \o unlockput(dp)
  \o (IF type = T_FILE THEN << <<"opened", i, TRUE>> >> ELSE unlockput(i))

\* ialloc(dev, type): an inode that is free on the disk.
ialloc(p) ==
  LET free == {i \in Inum \ {0} : disk.inode[i].type = 0}
      i == Lowest(free)
      type == Arg(p, 3)
  IN /\ At(p, "ialloc")
     /\ IF free = {} THEN Panics("ialloc: no inodes")
        ELSE IF ~Slot(i) THEN Panics("iget: no inodes")
        ELSE /\ disk' = [disk EXCEPT !.inode[i] = [NoInode EXCEPT !.type = type]]
             /\ ic' = iget(ic, i)
             /\ Then(p, create_steps(Arg(p, 1), Arg(p, 2), i, type))
             /\ UNCHANGED <<ret, files, panic, bounds>>

\* open with O_RDWR or O_RDONLY.
sys_open(p) ==
  \E path \in Path, writable \in BOOLEAN :
    PathCall(p, "open", path, FALSE, << <<"ilock_found">>, <<"open", writable>> >>)

open_locked(p) ==
  LET i == ret[p] IN
  /\ At(p, "open")
  /\ Then(p, IF ic[i].din.type = T_DIR /\ Arg(p, 1) THEN unlockput(i)
             ELSE << <<"opened", i, Arg(p, 1)>> >>)
  /\ UNCHANGED <<disk, ic, ret, files, panic, bounds>>

\* filealloc and fdalloc: a process has one descriptor (bound).
opened(p) ==
  LET i == Arg(p, 1) IN
  /\ At(p, "opened")
  /\ IF open[p] = NoFile
     THEN /\ open' = [open EXCEPT ![p] = [ip |-> i, writable |-> Arg(p, 2), off |-> 0]]
          /\ Then(p, << <<"iunlock", i>> >>)
     ELSE Then(p, unlockput(i)) /\ UNCHANGED open
  /\ UNCHANGED <<disk, ic, ret, cwd, panic, bounds>>

sys_close(p) ==
  /\ open[p] # NoFile /\ Calls(p, "close")
  /\ open' = [open EXCEPT ![p] = NoFile]
  /\ k' = [k EXCEPT ![p] = << <<"iput", open[p].ip>> >>]
  /\ UNCHANGED <<disk, ic, ret, cwd, panic, crashes>>

\* A call that locks the inode of the open file for one step.
FileCall(p, op, step) ==
  LET i == open[p].ip IN
  /\ open[p] # NoFile /\ Calls(p, op)
  /\ k' = [k EXCEPT ![p] = << <<"ilock", i>>, step, <<"iunlock", i>> >>]
  /\ UNCHANGED <<disk, ic, ret, files, panic, crashes>>

sys_write(p) == open[p].writable /\ \E n \in Sizes : FileCall(p, "write", <<"filewrite", n>>)
sys_read(p) == \E n \in Sizes : FileCall(p, "read", <<"fileread", n>>)
sys_fstat(p) == FileCall(p, "fstat", <<"filestat">>)

\* The devices that mknod makes have no driver: they are neither read nor written.
filewrite(p) ==
  LET i == open[p].ip
      off == open[p].off
      step == WriteAt(i, off, [c \in 1 .. Arg(p, 1) |-> Data])
  IN /\ At(p, "filewrite")
     /\ IF ic[i].din.type = T_DEV THEN Then(p, <<>>) /\ UNCHANGED open
        ELSE Then(p, <<step>>) /\ open' = [open EXCEPT ![p].off = off + Len(step[4])]
     /\ UNCHANGED <<disk, ic, ret, cwd, panic, bounds>>

fileread(p) ==
  LET i == open[p].ip
      off == open[p].off
      end == Lowest({off + Arg(p, 1), ic[i].din.size})
      holes == {bn \in Holes(i) : off \div BSIZE <= bn /\ bn * BSIZE < end}
  IN /\ At(p, "fileread")
     /\ \/ ic[i].din.type # T_DEV /\ holes # {} /\ bmap(p, i, Lowest(holes))
        \/ /\ ic[i].din.type = T_DEV \/ holes = {}
           /\ open' = [open EXCEPT ![p].off = IF ic[i].din.type = T_DEV THEN @ ELSE end]
           /\ Then(p, <<>>)
           /\ UNCHANGED <<disk, ic, ret, cwd, panic, bounds>>

filestat(p) == At(p, "filestat") /\ Then(p, <<>>) /\ UNCHANGED <<disk, ic, ret, files, panic, bounds>>

sys_chdir(p) ==
  \E path \in Path : PathCall(p, "chdir", path, FALSE, << <<"ilock_found">>, <<"chdir">> >>)

chdir(p) ==
  LET i == ret[p] IN
  /\ At(p, "chdir")
  /\ IF ic[i].din.type # T_DIR THEN Then(p, unlockput(i)) /\ UNCHANGED cwd
     ELSE /\ Then(p, << <<"iunlock", i>>, <<"iput", cwd[p]>> >>)
          /\ cwd' = [cwd EXCEPT ![p] = i]
  /\ UNCHANGED <<disk, ic, ret, open, panic, bounds>>

----------------------------------------------------------------------------

\* The machine stops at any time, also between two writes of a call, and starts
\* again with what is on the disk.
crash ==
  /\ panic = "" /\ crashes < MaxCrashes /\ crashes' = crashes + 1
  /\ ic' = Booted
  /\ k' = [p \in Proc |-> <<>>] /\ ret' = [p \in Proc |-> 0]
  /\ open' = [p \in Proc |-> NoFile] /\ cwd' = [p \in Proc |-> ROOTINO]
  /\ UNCHANGED <<disk, panic, calls>>

Step(p) ==
  \/ ilock(p) \/ ilock_found(p) \/ iunlock(p)
  \/ iput(p) \/ itrunc_end(p) \/ free_inode(p) \/ iput_end(p)
  \/ bzero(p) \/ clear_bit(p) \/ bmap_entry(p)
  \/ writei_map(p) \/ writei_block(p) \/ writei_end(p)
  \/ nlink(p) \/ dirlink(p) \/ namex(p) \/ ialloc(p)
  \/ unlink(p) \/ unlink_locked(p)
  \/ link(p) \/ link_new(p) \/ link_dp(p) \/ link_end(p)
  \/ create(p) \/ create_found(p) \/ open_locked(p) \/ opened(p) \/ chdir(p)
  \/ filewrite(p) \/ fileread(p) \/ filestat(p)

Call(p) ==
  \/ sys_unlink(p) \/ sys_link(p) \/ sys_create(p) \/ sys_open(p) \/ sys_close(p)
  \/ sys_write(p) \/ sys_read(p) \/ sys_fstat(p) \/ sys_chdir(p)

Next == (\E p \in Proc : Step(p) \/ Call(p)) \/ crash

Spec == Init /\ [][Next]_vars

----------------------------------------------------------------------------
\* Properties

Kids(i) == IF disk.inode[i].type # T_DIR THEN {}
           ELSE {e.inum : e \in Entries(disk.inode[i], disk.block)}

RECURSIVE Closure(_)
Closure(S) == LET T == S \cup UNION {Kids(i) : i \in S} IN IF T = S THEN S ELSE Closure(T)

\* The inodes that the entries on the disk lead to, from the root.
Reachable == Closure({ROOTINO})

Links(i) ==
  MapThenSumSet(LAMBDA d : Cardinality({off \in EntryOffsets(disk.inode[d], disk.block) :
                                          CellAt(disk.inode[d], disk.block, off).inum = i}),
                {d \in Reachable : disk.inode[d].type = T_DIR})

AtRest == panic = "" /\ \A p \in Proc : k[p] = <<>>

\* The assertions of fs.c and sysfile.c hold: no inode is locked that is free on
\* the disk, none is freed while it is locked, no block is freed twice, no entry
\* leads to an inode without links.  The disk, the inodes or the cache may be used up.
NoPanic == panic \in {"", "balloc: out of blocks", "ialloc: no inodes", "iget: no inodes", "dirlink"}

\* At any time, so after a crash at any time, no entry on the disk leads to a free
\* inode: create writes the inode before the entry, unlink erases the entry before
\* iput frees the inode.
NoDangling == \A i \in Reachable : disk.inode[i].type # 0

\* At any time a file on the disk has at least the links it is counted for, so that
\* a crash can leave a count too high, never one that frees a file still in use.
LinkCounts == \A i \in Reachable : disk.inode[i].type = T_FILE => disk.inode[i].nlink >= Links(i)

\* At any time the files and directories on the disk share no block, and what they
\* use is not free: bmap marks a block before an inode has it, and iput erases the
\* inode after no entry leads to it.
NoSharing ==
  \A i \in Reachable : LET B(j) == AllBlocks(disk.inode[j], disk.block) IN
    /\ B(i) \subseteq disk.bitmap
    /\ \A j \in Reachable \ {i} : B(i) \cap B(j) = {}

\* At any time a free block is zero, which balloc counts on: bmap uses it as an
\* indirect block, and dirlookup reads all of a directory's last block.
FreeIsZero == \A b \in FreeBlocks : disk.block[b] = ZeroBlock

\* When no call is in progress, the references to an inode are those of open files
\* and working directories: no path through a call drops one too many or too few.
RestingRefs ==
  AtRest => \A i \in Inum :
    ic[i].ref = Cardinality({p \in Proc : open[p].ip = i /\ i # 0}) + Cardinality({p \in Proc : cwd[p] = i})
                + (IF i = ROOTINO THEN 1 ELSE 0)

Waits(p) ==
  \/ At(p, "ilock") /\ ic[Arg(p, 1)].busy
  \/ At(p, "ilock_found") /\ ret[p] # 0 /\ ic[ret[p]].busy

\* The calls never all wait for each other's inodes, although unlink and create
\* hold the directory while they lock what is in it.
NoDeadlock ==
  panic = "" /\ (\E p \in Proc : k[p] # <<>>) => \E p \in Proc : k[p] # <<>> /\ ~Waits(p)

\* "If nothing is printed in console, the file system img has no error" (xfsck.c):
\* of the images that calls in progress and crashes leave, xfsck passes none in
\* which an inode in use is not reachable, a count is not the number of entries,
\* two inodes share a block, or one has a block that is free.
XfsckSound ==
  xfsck(disk) =>
    /\ InUse(disk) \subseteq Reachable /\ NoDangling /\ NoSharing
    /\ \A i \in InUse(disk) : disk.inode[i].type = T_FILE => disk.inode[i].nlink = Links(i)

\* Nobody has a file or directory that was removed.
NoneRemoved == \A i \in Inum \ {ROOTINO} : ic[i].ref > 0 => disk.inode[i].nlink > 0

\* The image is in order when no call is in progress, all that was removed has
\* been closed, and there was no crash: xfsck passes it.
XfsckAccepts == AtRest /\ crashes = 0 /\ NoneRemoved => xfsck(disk)
============================================================================
