----------------------------- MODULE ZerosMount -----------------------------
(***************************************************************************)
(* One mount handle of fs/zeros_mount.c on a disk that can lose its        *)
(* process at any moment.                                                  *)
(*                                                                         *)
(* The unit of a step is the block write: a call is a sequence of steps,   *)
(* one per group of pwrite()s that a crash can separate, and the changes   *)
(* of RAM between two writes belong to the step that follows them.  Inodes *)
(* and directory blocks are written through; bitmaps and superblock live   *)
(* in RAM and reach the disk in flush_metadata, last thing of every call   *)
(* that succeeds.  A call that is refused before it changes anything is a  *)
(* stuttering step and has no action.                                      *)
(***************************************************************************)
EXTENDS ZerosFS

CONSTANTS
  Paths,      \* the paths calls are made with
  MaxLen,     \* bound: blocks of the longest write
  U32         \* 2^32 in the code: the superblock counters wrap at U32

ASSUME MountAssumption ==
  /\ Paths \subseteq Path
  /\ MaxLen \in Nat
  /\ U32 \in Nat /\ U32 > TotalBlocks /\ U32 > TotalInodes

VARIABLES
  itab,       \* disk: inode table
  data,       \* disk: data blocks
  dsb,        \* disk: free_inodes and free_blocks of the superblock
  dibm,       \* disk: inode bitmap
  dbbm,       \* disk: block bitmap
  sb,         \* RAM copy of the superblock counters (mnt->sb)
  ibm,        \* RAM copy of the inode bitmap        (mnt->inode_bitmap)
  bbm,        \* RAM copy of the block bitmap        (mnt->block_bitmap)
  cwd,        \* mnt->cwd_ino
  pc,         \* where the call in progress is
  c,          \* its local variables
  live,       \* history: inodes an entry written to disk names, and root
  wrote,      \* history: what each inode was last written with
  harm        \* history: which kinds of damage have happened

diskVars == <<itab, data, dsb, dibm, dbbm>>
ramVars  == <<sb, ibm, bbm, cwd>>
hist     == <<live, wrote, harm>>
vars     == <<itab, data, dsb, dibm, dbbm, sb, ibm, bbm, cwd, pc, c,
              live, wrote, harm>>

(* "torn"  an inode or entry on disk disagrees with the bitmaps in use, or *)
(*         a call took the bytes of a regular file for directory entries   *)
(* "mixed" a file kept its extents but some of its blocks were rewritten   *)
(* "lost"  an inode or a block is marked used and nothing names it         *)
(* "drift" a crash separated the superblock from the bitmaps on disk       *)
(* "stray" a call went on with an inode that nothing has ever written      *)
Harms == {"torn", "mixed", "lost", "drift", "stray"}

Counters == [free_inodes : 0 .. U32 - 1, free_blocks : 0 .. U32 - 1]

FlushPcs == {"flush_sb", "flush_ibm", "flush_bbm"}
Pcs == {"unmounted", "idle", "mkdir_init", "touch_init", "dir_add_entry",
        "dir_add_extent", "write_loop", "astray"} \cup FlushPcs

Ops  == {"none", "mkdir", "touch", "create", "write", "rm", "close"}

AnyPath == [abs |-> TRUE, dir |-> "", name |-> ""]

(* op "create" is the zeros_touch call inside zeros_write_file. *)
Call == [op : Ops, path : Path, ino : Inodes, parent : Inodes,
         blk : Blocks, ext : Seq(Extent), left : 0 .. MaxLen,
         len : 0 .. MaxLen, val : Vals \cup {NoVal}]

NoCall == [op |-> "none", path |-> AnyPath, ino |-> ROOT, parent |-> ROOT,
           blk |-> 0, ext |-> <<>>, left |-> 0, len |-> 0, val |-> NoVal]

TypeOK ==
  /\ itab \in [Inodes -> Inode]
  /\ data \in [DataBlocks -> Block]
  /\ dsb \in Counters /\ dibm \subseteq Inodes /\ dbbm \subseteq Blocks
  /\ sb \in Counters /\ ibm \subseteq Inodes /\ bbm \subseteq Blocks
  /\ cwd \in Inodes
  /\ pc \in Pcs
  /\ c \in Call
  /\ live \subseteq Inodes
  /\ wrote \in [Inodes -> [val : Vals \cup {NoVal}, len : 0 .. MaxLen]]
  /\ harm \subseteq Harms

-----------------------------------------------------------------------------
Parent(p)  == resolve_parent(itab, data, cwd, p)
Resolve(p) == resolve_path(itab, data, cwd, p)

(* The last component is looked up among the bytes of a regular file. *)
ThroughFile(p) ==
  p.name # "" /\ Readable(itab, Parent(p)) /\ itab[Parent(p)].mode # "dir"

PathHarm(p) == IF ThroughFile(p) THEN {"torn"} ELSE {}

FreeInodes == Inodes \ ibm
Mut_FreeBlocks == DataBlocks \ dbbm

FreeBlocks == DataBlocks \ bbm    \* alloc_block scans from data_start

(* mnt->sb.free_x-- and free_x++ on uint32_t *)
Mut_Dec(x) == x - 1

Dec(x) == (x - 1) % U32

Mut_Add(x, k) == (x + 1) % U32

Add(x, k) == (x + k) % U32

(* free_block on every block of an inode.  Here and below, Mut_X is a      *)
(* plausible mistake in X: the runs show that a property notices it.       *)
Mut_Release(n) == bbm \ {BlockAt(n, p) : p \in {q \in BlockPos(n) : q[2] = 0}}
Release(n) == bbm \ BlocksOf(n)

(* zeros_format: the root directory is the only inode (ZEROS_INITIAL_DIRS  *)
(* taken empty), every counter agrees with its bitmap.                     *)
Init ==
  /\ itab = [i \in Inodes |->
               IF i = ROOT
               THEN [mode |-> "dir", extents |-> <<OneBlock(DataStart)>>]
               ELSE FreshInode]
  /\ data = [b \in DataBlocks |->
               IF b = DataStart THEN DirBlock(ROOT, ROOT) ELSE EmptyDirBlock]
  /\ dibm = {ROOT} /\ dbbm = MetaBlocks \cup {DataStart}
  /\ dsb = [free_inodes |-> TotalInodes - 1,
            free_blocks |-> TotalBlocks - DataStart - 1]
  /\ sb = dsb /\ ibm = {} /\ bbm = {} /\ cwd = ROOT
  /\ pc = "unmounted" /\ c = NoCall
  /\ live = {ROOT}
  /\ wrote = [i \in Inodes |-> [val |-> NoVal, len |-> 0]]
  /\ harm = {}

-----------------------------------------------------------------------------
(* The timestamp zeros_mount_open flushes is not modelled, so its flush    *)
(* writes back what it has just read.                                      *)
zeros_mount_open ==
  /\ pc = "unmounted"
  /\ sb' = dsb /\ ibm' = dibm /\ bbm' = dbbm /\ cwd' = ROOT
  /\ pc' = "idle"
  /\ UNCHANGED <<diskVars, c, hist>>

zeros_mount_close ==
  /\ pc = "idle"
  /\ pc' = "flush_sb" /\ c' = [NoCall EXCEPT !.op = "close"]
  /\ UNCHANGED <<diskVars, ramVars, hist>>

zeros_cd(p) ==
  /\ pc = "idle"
  /\ Readable(itab, Resolve(p))
  /\ itab[Resolve(p)].mode = "dir"
  /\ cwd' = Resolve(p)
  /\ harm' = harm \cup PathHarm(p)
  /\ UNCHANGED <<diskVars, sb, ibm, bbm, pc, c, live, wrote>>

(* A call follows an entry to an inode that was never written, in the      *)
(* table or beyond it, and takes the bytes it finds for an inode.  The     *)
(* model ends here: zeros_rm and zeros_write_file free the extents such    *)
(* bytes happen to spell (one of them here), and anything may follow.      *)
astray(p) ==
  /\ pc = "idle"
  /\ Resolve(p) # NIL /\ ~Readable(itab, Resolve(p))
  /\ \E first, last \in Blocks : bbm' = bbm \ (first .. last)
  /\ pc' = "astray"
  /\ harm' = harm \cup {"stray"} \cup PathHarm(p)
  /\ UNCHANGED <<diskVars, sb, ibm, cwd, c, live, wrote>>

(* A call that stops with -1 half way: RAM keeps what was changed so far   *)
(* and nothing is flushed.                                                 *)
Abandon(h) ==
  /\ pc' = "idle" /\ c' = NoCall
  /\ harm' = harm \cup h

(* alloc_inode *)
TakeInode(ino) ==
  /\ FreeInodes # {}
  /\ ino = LowestClear(FreeInodes)
  /\ ibm' = ibm \cup {ino}

-----------------------------------------------------------------------------
Mut_MkdirCall(p) == pc = "idle" /\ Readable(itab, Parent(p))

(* zeros_mkdir up to its first write. *)
MkdirCall(p) ==
  /\ pc = "idle"
  /\ Readable(itab, Parent(p))
  /\ dir_lookup(itab, data, Parent(p), p.name) = NIL

zeros_mkdir(p) ==
  /\ MkdirCall(p)
  /\ FreeBlocks # {}
  /\ \E ino \in Inodes, blk \in Blocks :
       /\ TakeInode(ino)
       /\ blk = LowestClear(FreeBlocks)
       /\ bbm' = bbm \cup {blk}
       /\ sb' = [free_inodes |-> Dec(sb.free_inodes),
                 free_blocks |-> Dec(sb.free_blocks)]
       /\ c' = [NoCall EXCEPT !.op = "mkdir", !.path = p, !.ino = ino,
                              !.parent = Parent(p), !.blk = blk]
  /\ pc' = "mkdir_init"
  /\ UNCHANGED <<diskVars, cwd, hist>>

(* "disco lleno" after alloc_inode: the inode stays marked. *)
zeros_mkdir_disk_full(p) ==
  /\ MkdirCall(p)
  /\ FreeBlocks = {}
  /\ \E ino \in Inodes : TakeInode(ino)
  /\ sb' = [sb EXCEPT !.free_inodes = Dec(@)]
  /\ Abandon({"lost"})
  /\ UNCHANGED <<diskVars, bbm, cwd, live, wrote>>

(* The block and the inode of the new directory, with . and ..: nothing on *)
(* disk names either of them yet, so their four writes are one step.       *)
mkdir_init ==
  /\ pc = "mkdir_init"
  /\ data' = [data EXCEPT ![c.blk] = DirBlock(c.ino, c.parent)]
  /\ itab' = [itab EXCEPT ![c.ino] =
                [mode |-> "dir", extents |-> <<OneBlock(c.blk)>>]]
  /\ pc' = "dir_add_entry"
  /\ UNCHANGED <<dsb, dibm, dbbm, ramVars, c, hist>>

(* zeros_touch up to its first write; an existing file only gets its atime *)
(* written, which is not modelled.                                         *)
CreateFile(p, op, v, n) ==
  /\ pc = "idle"
  /\ Resolve(p) = NIL
  /\ Readable(itab, Parent(p))
  /\ \E ino \in Inodes :
       /\ TakeInode(ino)
       /\ c' = [NoCall EXCEPT !.op = op, !.path = p, !.ino = ino,
                              !.parent = Parent(p), !.val = v, !.len = n]
  /\ sb' = [sb EXCEPT !.free_inodes = Dec(@)]
  /\ pc' = "touch_init"
  /\ UNCHANGED <<diskVars, bbm, cwd, hist>>

zeros_touch(p) == CreateFile(p, "touch", NoVal, 0)

touch_init ==
  /\ pc = "touch_init"
  /\ itab' = [itab EXCEPT ![c.ino] = [mode |-> "reg", extents |-> <<>>]]
  /\ pc' = "dir_add_entry"
  /\ UNCHANGED <<data, dsb, dibm, dbbm, ramVars, c, hist>>

-----------------------------------------------------------------------------
(* dir_add_entry(mnt, parent_ino, name, ino) *)

NewDirent == [inode |-> c.ino, name |-> c.path.name,
              type |-> IF c.op = "mkdir" THEN "dir" ELSE "reg"]

(* The parent may be a regular file: its blocks are then used as entries.  *)
LinkHarm == IF itab[c.parent].mode = "dir" THEN {} ELSE {"torn"}

(* The entry of c.ino is on disk from this step on. *)
Linked ==
  /\ pc' = "flush_sb"
  /\ live' = live \cup {c.ino}
  /\ wrote' = [wrote EXCEPT ![c.ino] = [val |-> NoVal, len |-> 0]]
  /\ harm' = harm \cup LinkHarm

dir_add_entry_slot ==
  /\ pc = "dir_add_entry"
  /\ FreeCells(data, itab[c.parent]) # {}
  /\ LET p == FirstCell(FreeCells(data, itab[c.parent]))
     IN  data' = [data EXCEPT ![BlockAt(itab[c.parent], p)].ent[p[3]] = NewDirent]
  /\ Linked
  /\ UNCHANGED <<itab, dsb, dibm, dbbm, ramVars, c>>

DirFull == FreeCells(data, itab[c.parent]) = {}

Mut_CanGrowDir == FreeBlocks # {}
CanGrowDir == Len(itab[c.parent].extents) < MaxExtents /\ FreeBlocks # {}

dir_add_entry_block ==
  /\ pc = "dir_add_entry"
  /\ DirFull /\ CanGrowDir
  /\ \E blk \in Blocks :
       /\ blk = LowestClear(FreeBlocks)
       /\ bbm' = bbm \cup {blk}
       /\ data' = [data EXCEPT ![blk] =
                     [EmptyDirBlock EXCEPT !.ent[0] = NewDirent]]
       /\ c' = [c EXCEPT !.blk = blk]
  /\ sb' = [sb EXCEPT !.free_blocks = Dec(@)]
  /\ pc' = "dir_add_extent"
  /\ UNCHANGED <<itab, dsb, dibm, dbbm, ibm, cwd, hist>>

dir_add_extent ==
  /\ pc = "dir_add_extent"
  /\ itab' = [itab EXCEPT ![c.parent].extents = Append(@, OneBlock(c.blk))]
  /\ Linked
  /\ UNCHANGED <<data, dsb, dibm, dbbm, ramVars, c>>

(* "directorio lleno" or "disco lleno": the new inode stays marked. *)
dir_add_entry_fails ==
  /\ pc = "dir_add_entry"
  /\ DirFull /\ ~CanGrowDir
  /\ Abandon({"lost"})
  /\ UNCHANGED <<diskVars, ramVars, live, wrote>>

-----------------------------------------------------------------------------
(* zeros_write_file from line 609 on: the old blocks are freed in RAM, the *)
(* inode on disk keeps pointing at them until its own write.               *)
StartWrite(p, v, n) ==
  LET ino == Resolve(p)
      old == itab[ino]
  IN  /\ Readable(itab, ino)
      /\ old.mode # "dir"
      /\ bbm' = Release(old)
      /\ sb' = [sb EXCEPT !.free_blocks = Add(@, Cardinality(BlockPos(old)))]
      /\ c' = [NoCall EXCEPT !.op = "write", !.path = p, !.ino = ino,
                             !.left = n, !.len = n, !.val = v]
      /\ pc' = "write_loop"
      /\ harm' = harm \cup PathHarm(p)

zeros_write_file(p, v, n) ==
  \/ CreateFile(p, "create", v, n)
  \/ /\ pc = "idle"
     /\ StartWrite(p, v, n)
     /\ UNCHANGED <<diskVars, ibm, cwd, live, wrote>>

Writable == Len(c.ext) < MaxExtents /\ FreeBlocks # {}

write_loop ==
  /\ pc = "write_loop" /\ c.left > 0
  /\ Writable
  /\ \E blk \in Blocks :
       /\ blk = LowestClear(FreeBlocks)
       /\ bbm' = bbm \cup {blk}
       /\ data' = [data EXCEPT ![blk] = FileBlock(c.val)]
       /\ c' = [c EXCEPT !.left = @ - 1, !.ext = GrowExtents(@, blk)]
  /\ sb' = [sb EXCEPT !.free_blocks = Dec(@)]
  /\ UNCHANGED <<itab, dsb, dibm, dbbm, ibm, cwd, pc, hist>>

(* "archivo demasiado grande" or "disco lleno": the inode on disk still    *)
(* has its old extents, whose blocks are free or already rewritten.        *)
write_fails ==
  /\ pc = "write_loop" /\ c.left > 0
  /\ ~Writable
  /\ Abandon((IF BlocksOf(itab[c.ino]) # {} THEN {"torn"} ELSE {})
             \cup (IF c.ext # <<>> THEN {"lost"} ELSE {}))
  /\ UNCHANGED <<diskVars, ramVars, live, wrote>>

write_inode ==
  /\ pc = "write_loop" /\ c.left = 0
  /\ itab' = [itab EXCEPT ![c.ino].extents = c.ext]
  /\ wrote' = [wrote EXCEPT ![c.ino] = [val |-> c.val, len |-> c.len]]
  /\ pc' = "flush_sb"
  /\ UNCHANGED <<data, dsb, dibm, dbbm, ramVars, c, live, harm>>

-----------------------------------------------------------------------------
(* zeros_rm: blocks and inode are freed in RAM, then the entry the path    *)
(* ends in is erased; whether one was found is not looked at.              *)
Mut_Erased(p) == data
Erased(p) ==
  LET n    == itab[Parent(p)]
      hits == CellsNamed(data, n, p.name)
      cell == FirstCell(hits)
  IN  IF hits = {} THEN data
      ELSE [data EXCEPT ![BlockAt(n, cell)].ent[cell[3]] = FreeDirent]

Mut_Removable(ino) ==
  /\ Readable(itab, ino) /\ ino # ROOT
  /\ itab[ino].mode = "dir" => dir_is_empty(itab, data, ino)

Removable(ino) ==
  /\ Readable(itab, ino) /\ ino # ROOT /\ ino # cwd
  /\ itab[ino].mode = "dir" => dir_is_empty(itab, data, ino)

zeros_rm(p) ==
  LET ino == Resolve(p)
      n   == itab[ino]
  IN  /\ pc = "idle"
      /\ Removable(ino)
      /\ bbm' = Release(n)
      /\ ibm' = ibm \ {ino}
      /\ sb' = [free_inodes |-> Add(sb.free_inodes, 1),
                free_blocks |-> Add(sb.free_blocks, Cardinality(BlockPos(n)))]
      /\ data' = Erased(p)
      /\ c' = [NoCall EXCEPT !.op = "rm"]
      /\ pc' = "flush_sb"
      /\ live' = live \ {ino}
      /\ wrote' = [wrote EXCEPT ![ino] = [val |-> NoVal, len |-> 0]]
      /\ harm' = harm \cup PathHarm(p)
                      \cup (IF p.name \in Names THEN {} ELSE {"torn"})
      /\ UNCHANGED <<itab, dsb, dibm, dbbm, cwd>>

-----------------------------------------------------------------------------
(* flush_metadata: superblock, then inode bitmap, then block bitmap. *)

flush_sb ==
  /\ pc = "flush_sb"
  /\ dsb' = sb /\ pc' = "flush_ibm"
  /\ UNCHANGED <<itab, data, dibm, dbbm, ramVars, c, hist>>

Mut_flush_ibm ==
  /\ pc = "flush_ibm"
  /\ pc' = "flush_bbm"
  /\ UNCHANGED <<diskVars, ramVars, c, hist>>

flush_ibm ==
  /\ pc = "flush_ibm"
  /\ dibm' = ibm /\ pc' = "flush_bbm"
  /\ UNCHANGED <<itab, data, dsb, dbbm, ramVars, c, hist>>

(* The last write of a call.  zeros_write_file goes on with the file its   *)
(* zeros_touch created, resolving the path again.                          *)
flush_bbm ==
  /\ pc = "flush_bbm"
  /\ dbbm' = bbm
  /\ \/ /\ c.op = "create"
        /\ StartWrite(c.path, c.val, c.len)
        /\ UNCHANGED <<ibm, cwd>>
     \/ /\ c.op = "create"
        /\ ~(/\ Readable(itab, Resolve(c.path))
             /\ itab[Resolve(c.path)].mode # "dir")
        /\ pc' = "idle" /\ c' = NoCall /\ UNCHANGED <<ramVars, harm>>
     \/ /\ c.op = "close"
        /\ pc' = "unmounted" /\ c' = NoCall
        /\ sb' = dsb /\ ibm' = {} /\ bbm' = {} /\ cwd' = ROOT /\ UNCHANGED harm
     \/ /\ c.op \notin {"create", "close"}
        /\ pc' = "idle" /\ c' = NoCall /\ UNCHANGED <<ramVars, harm>>
  /\ UNCHANGED <<itab, data, dsb, dibm, live, wrote>>

-----------------------------------------------------------------------------
(* The process dies.  The entry or the inode a call writes becomes         *)
(* effective before the bitmaps do: from then to the end of the flush a    *)
(* crash tears a creation or a write, and only leaks after a removal.      *)
Committing == pc \in FlushPcs /\ c.op \in {"mkdir", "touch", "create", "write"}

CrashHarm ==
     (IF Committing THEN {"torn"} ELSE {})
  \cup (IF pc \in {"flush_ibm", "flush_bbm"} THEN {"drift"} ELSE {})
  \cup (IF pc \in FlushPcs /\ c.op = "rm" THEN {"lost"} ELSE {})
  \cup (IF pc = "write_loop" /\ c.ext # <<>> /\ BlocksOf(itab[c.ino]) # {}
        THEN {"mixed"} ELSE {})

Crash ==
  /\ pc \notin {"unmounted", "astray"}
  /\ pc' = "unmounted" /\ c' = NoCall
  /\ sb' = dsb /\ ibm' = {} /\ bbm' = {} /\ cwd' = ROOT
  /\ harm' = harm \cup CrashHarm
  /\ UNCHANGED <<diskVars, live, wrote>>

-----------------------------------------------------------------------------
ApiCall ==
  \/ zeros_mount_open
  \/ zeros_mount_close
  \/ \E p \in Paths :
       \/ zeros_cd(p)
       \/ astray(p)
       \/ zeros_mkdir(p)
       \/ zeros_mkdir_disk_full(p)
       \/ zeros_touch(p)
       \/ zeros_rm(p)
       \/ \E v \in Vals, n \in 0 .. MaxLen : zeros_write_file(p, v, n)

Progress ==
  \/ mkdir_init \/ touch_init
  \/ dir_add_entry_slot \/ dir_add_entry_block \/ dir_add_extent
  \/ dir_add_entry_fails
  \/ write_loop \/ write_fails \/ write_inode
  \/ flush_sb \/ flush_ibm \/ flush_bbm

Next == ApiCall \/ Progress \/ Crash

Spec == Init /\ [][Next]_vars
-----------------------------------------------------------------------------
(* Properties.  Sound: no event that the code is known not to survive has  *)
(* happened (see harm); what is stated of a tree or of blocks assumes it.  *)

Sound      == "torn" \notin harm
Mounted    == pc # "unmounted"
Writing(i) == pc = "write_loop" /\ c.ino = i

(* An inode has at most MaxExtents extents (the size of its array), every  *)
(* extent lies in the data area, and the superblock, the bitmaps and the   *)
(* inode table are marked used: no file or directory write reaches them.   *)
MetadataSafe ==
  /\ \A i \in Inodes : ExtentsInData(itab[i].extents)
  /\ MetaBlocks \subseteq dbbm
  /\ Mounted => MetaBlocks \subseteq bbm

(* A call goes on with an inode that was never written only after a file's *)
(* bytes were taken for entries or on a disk already torn: no order of     *)
(* calls, failed calls and crashes leaves an entry before the inode it     *)
(* names is on disk.                                                       *)
StraysOnlyThroughDamage == "stray" \in harm => "torn" \in harm

(* Through crashes, failed calls, damage and lookups in the bytes of files *)
(* that name any inode of the table, the metadata stay safe.  It ends      *)
(* where a call goes on with an inode that was never written, whose bytes  *)
(* can be anything, and no undamaged disk lets a call get there.           *)
MetadataProtected ==
  /\ "stray" \notin harm => MetadataSafe
  /\ StraysOnlyThroughDamage

(* The strengthening that makes this inductive: what the call in progress  *)
(* is about to put into the inode table is as good.                        *)
CallWellFormed ==
  /\ pc \in {"mkdir_init", "dir_add_extent"} => c.blk \in DataBlocks
  /\ pc = "dir_add_extent" => Len(itab[c.parent].extents) < MaxExtents
  /\ ExtentsInData(c.ext)

Layout == TypeOK /\ MetadataSafe /\ CallWellFormed

LayoutUntilAstray ==
  /\ TypeOK
  /\ pc = "astray" <=> "stray" \in harm
  /\ pc # "astray" => Layout

(* Every inode an entry names is marked used and so are its blocks, and no *)
(* block belongs to two of them or twice to one: alloc_block never hands   *)
(* out a block that a file or a directory still uses.  While               *)
(* zeros_write_file rewrites a file its old blocks are free and the new    *)
(* ones are nobody else's.                                                 *)
BlockOwnership ==
  Sound /\ Mounted =>
    /\ live \subseteq ibm
    /\ \A i \in live : /\ Writing(i) \/ BlocksOf(itab[i]) \subseteq bbm
                       /\ NoRepeat(itab[i])
    /\ \A i, j \in live :
         i # j => BlocksOf(itab[i]) \cap BlocksOf(itab[j]) = {}
    /\ pc = "write_loop" =>
         LET new == BlocksOf([extents |-> c.ext])
         IN  /\ new \subseteq bbm /\ NoRepeat([extents |-> c.ext])
             /\ \A i \in live \ {c.ino} : new \cap BlocksOf(itab[i]) = {}

(* What a crash finds on disk.  Except between the write that makes an     *)
(* entry or an extent effective and the end of the flush, the bitmaps on   *)
(* disk cover every inode an entry names and all of its blocks.            *)
CrashRecoverable ==
  Sound /\ ~Committing =>
    /\ live \subseteq dibm
    /\ \A i \in live : BlocksOf(itab[i]) \subseteq dbbm

(* The directory tree.  An entry is a used slot of a block of a live       *)
(* directory, <<directory, block, slot>>; it is a link unless its name is  *)
(* "." or "..".                                                            *)
At(h) == data[h[2]].ent[h[3]]
Target(h) == At(h).inode

Entries(i) == {h \in {i} \X BlocksOf(itab[i]) \X Slots : Target(h) # NIL}

LiveDirs == {i \in live : itab[i].mode = "dir"}

Links == UNION {{h \in Entries(i) : At(h).name \notin {".", ".."}} : i \in LiveDirs}

(* Links name live inodes and never root; no inode has two links and no    *)
(* directory two links of the same name; every live inode but root has a   *)
(* link.                                                                   *)
LinksSound ==
  LET L == Links
  IN  /\ {Target(h) : h \in L} = live \ {ROOT}
      /\ \A g, h \in L :
           \/ Target(g) = Target(h)
           \/ g[1] = h[1] /\ At(g).name = At(h).name
           => g = h

(* "." names the directory itself and ".." the directory that holds its    *)
(* link, so cd .. and a path through .. end where the tree says.           *)
DotsSound ==
  LET L == Links
  IN  \A i \in LiveDirs : \A h \in Entries(i) :
        /\ At(h).name = "." => Target(h) = i
        /\ At(h).name = ".." =>
             IF i = ROOT THEN Target(h) = ROOT
             ELSE \E g \in L : g[1] = Target(h) /\ Target(g) = i

(* The tree survives every call, failed or not, and every crash outside    *)
(* the commit window.                                                      *)
TreeSound ==
  Sound => ROOT \in live /\ itab[ROOT].mode = "dir" /\ LinksSound /\ DotsSound

(* The current directory is never pulled out from under the handle: it is  *)
(* a directory that still has its entry.                                   *)
CwdAlive ==
  Sound /\ Mounted => cwd \in live /\ itab[cwd].mode = "dir"

(* A file reads back as it was last written: zeros_read_file finds as many *)
(* blocks as the write had and each holds that write's contents, whatever  *)
(* happened to other files since.                                          *)
ReadBack ==
  harm \cap {"torn", "mixed"} = {} =>
    \A i \in live :
      itab[i].mode = "reg" /\ ~Writing(i) =>
        /\ Cardinality(BlockPos(itab[i])) = wrote[i].len
        /\ \A b \in BlocksOf(itab[i]) : data[b].val = wrote[i].val

(* free_inodes and free_blocks count the clear bits of the bitmaps, as     *)
(* zeros_fsck expects, through every failed call and every crash that did  *)
(* not separate the two.                                                   *)
CountersMatch ==
  harm \cap {"torn", "drift"} = {} /\ Mounted =>
    /\ sb.free_inodes = Cardinality(FreeInodes)
    /\ sb.free_blocks = Cardinality(FreeBlocks)

(* Nothing leaks while no call fails half way and no crash happens during  *)
(* a removal: between calls the used inodes are exactly the named ones and *)
(* the used blocks exactly theirs, in RAM and on disk.                     *)
NothingLost ==
  harm = {} /\ pc = "idle" =>
    /\ ibm = live /\ dibm = live
    /\ bbm = MetaBlocks \cup UNION {BlocksOf(itab[i]) : i \in live}
    /\ dbbm = bbm /\ dsb = sb

(* zeros_mount.c:684 "Eliminar la entrada del directorio padre": after     *)
(* zeros_rm no directory entry names an inode that is free.                *)
NoDanglingEntry ==
  pc = "idle" => \A i \in LiveDirs : \A h \in Entries(i) : Target(h) \in ibm
=============================================================================
