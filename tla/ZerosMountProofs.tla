-------------------------- MODULE ZerosMountProofs --------------------------
(***************************************************************************)
(* One ZerosMount handle, proved for every geometry and every set of       *)
(* paths, in four parts:                                                   *)
(*   1. Layout: types, and the metadata nothing writes into;               *)
(*   2. Good: who owns which block, the directory tree, what a crash finds;*)
(*   3. what the handle counts, what its files hold, what is never lost;   *)
(*   4. ZerosMount implements ZerosTree: the mapping of ZerosMountTree     *)
(*      takes the initial states to the initial tree and every step to a   *)
(*      step of the tree or to none.                                       *)
(***************************************************************************)
EXTENDS ZerosMountTree, ZerosFSProofs

-----------------------------------------------------------------------------
(* Part 1.  Types and layout. *)

(* resolve_parent and resolve_path return UINT32_MAX or a number, of the   *)
(* table or beyond it.                                                     *)
LEMMA ResolveType ==
  ASSUME TypeOK, \A i \in Inodes : ExtentsInData(itab[i].extents),
         NEW p \in Path
  PROVE  /\ Parent(p) \in Inodes \cup {NIL, OUT}
         /\ Resolve(p) \in Inodes \cup {NIL, OUT}
<1>0. itab \in [Inodes -> Inode] /\ data \in [DataBlocks -> Block] /\ cwd \in Inodes
  BY DEF TypeOK
<1>. DEFINE numbers == Inodes \cup {NIL, OUT}
            start   == IF p.abs THEN ROOT ELSE cwd
<1>1. Parent(p) \in numbers
  <2>1. start \in Inodes /\ start \in numbers BY <1>0, RootInodes
  <2>2. dir_lookup(itab, data, start, p.dir) \in numbers BY <1>0, <2>1, LookupType
  <2>3. Parent(p) = IF p.dir = "" THEN start ELSE dir_lookup(itab, data, start, p.dir)
    BY DEF Parent, resolve_parent
  <2>. HIDE DEF numbers, start
  <2>. QED BY <2>1, <2>2, <2>3
<1>2. Resolve(p) \in numbers
  <2>1. CASE Readable(itab, Parent(p))
    <3>1. dir_lookup(itab, data, Parent(p), p.name) \in numbers
      BY <1>0, <2>1, LookupType DEF Readable
    <3>2. Resolve(p) = IF p.name = "" THEN Parent(p)
                       ELSE dir_lookup(itab, data, Parent(p), p.name)
      BY <2>1 DEF Resolve, resolve_path, Parent
    <3>. HIDE DEF numbers
    <3>. QED BY <1>1, <3>1, <3>2
  <2>2. CASE ~Readable(itab, Parent(p))
    <3>1. Resolve(p) = Parent(p) BY <2>2 DEF Resolve, resolve_path, Parent
    <3>. QED BY <1>1, <3>1
  <2>. QED BY <2>1, <2>2
<1>. QED BY <1>1, <1>2

-----------------------------------------------------------------------------
(* Layout is inductive. *)

(* The uint32_t counters stay uint32_t: they wrap. *)
LEMMA CountersTyped ==
  ASSUME NEW x \in 0 .. U32 - 1, NEW k \in Nat
  PROVE  Dec(x) \in 0 .. U32 - 1 /\ Add(x, k) \in 0 .. U32 - 1
BY MountAssumption, GeometryAssumption DEF Dec, Add

(* The locals of no call are well formed. *)
LEMMA NoCallTyped == NoCall \in Call /\ ExtentsInData(NoCall.ext) /\ NoCall.blk \in Blocks
<1>1. AnyPath \in Path BY DEF AnyPath, Path
<1>2. <<>> \in Seq(Extent) OBVIOUS
<1>3. 0 \in 0 .. MaxLen /\ 0 \in Blocks
  BY MountAssumption, GeometryAssumption DEF Blocks
<1>4. NoCall \in Call
  BY <1>1, <1>2, <1>3, RootInodes DEF NoCall, Call, Ops
<1>5. ExtentsInData(NoCall.ext)
  BY GeometryAssumption DEF NoCall, ExtentsInData
<1>. QED BY <1>3, <1>4, <1>5 DEF NoCall

(* alloc_block returns a data block. *)
LEMMA FreeBlockFacts ==
  ASSUME FreeBlocks # {}
  PROVE  LowestClear(FreeBlocks) \in DataBlocks \ bbm
<1>1. FreeBlocks \subseteq Nat BY GeometryAssumption DEF FreeBlocks, DataBlocks
<1>. QED BY <1>1, LowestClearIn DEF FreeBlocks

(* The steps of a call that only read the inode table and write at most    *)
(* RAM: what they leave to prove about the layout.                         *)
LEMMA CallStep ==
  ASSUME Layout, itab' = itab, dbbm' = dbbm, TypeOK',
         MetaBlocks \subseteq bbm',
         ExtentsInData(c'.ext),
         pc' \in {"mkdir_init", "dir_add_extent"} => c'.blk \in DataBlocks,
         pc' = "dir_add_extent" => Len(itab[c'.parent].extents) < MaxExtents
  PROVE  Layout'
BY DEF Layout, MetadataSafe, CallWellFormed, Mounted

(* zeros_mkdir up to its first write preserves Layout. *)
LEMMA MkdirLayout ==
  ASSUME Layout, NEW p \in Paths, zeros_mkdir(p)
  PROVE  Layout'
<1>. USE DEF Layout
<1>0. p \in Path BY MountAssumption
<1>1. Parent(p) \in Inodes
  BY DEF zeros_mkdir, MkdirCall, Readable
<1>2. PICK ino \in Inodes, blk \in Blocks :
        /\ ibm' = ibm \cup {ino}
        /\ blk = LowestClear(FreeBlocks)
        /\ bbm' = bbm \cup {blk}
        /\ sb' = [free_inodes |-> Dec(sb.free_inodes),
                  free_blocks |-> Dec(sb.free_blocks)]
        /\ c' = [NoCall EXCEPT !.op = "mkdir", !.path = p, !.ino = ino,
                               !.parent = Parent(p), !.blk = blk]
  BY DEF zeros_mkdir, TakeInode
<1>3. blk \in DataBlocks BY <1>2, FreeBlockFacts DEF zeros_mkdir
<1>4. c' \in Call /\ c'.ext = NoCall.ext /\ c'.blk = blk
  BY <1>0, <1>1, <1>2, NoCallTyped DEF Call, Ops
<1>5. sb' \in Counters
  BY <1>2, CountersTyped DEF TypeOK, Counters
<1>6. pc = "idle" /\ pc' = "mkdir_init" /\ UNCHANGED <<diskVars, cwd, hist>>
  BY DEF zeros_mkdir, MkdirCall
<1>7. TypeOK'
  BY <1>2, <1>4, <1>5, <1>6 DEF TypeOK, diskVars, hist, Pcs
<1>8. MetaBlocks \subseteq bbm'
  BY <1>2, <1>6 DEF MetadataSafe, Mounted
<1>. QED BY <1>3, <1>4, <1>6, <1>7, <1>8, NoCallTyped, CallStep DEF diskVars

(* Back to "idle" or "unmounted" with no call in progress. *)
LEMMA NoCallStep ==
  ASSUME Layout, itab' = itab, MetaBlocks \subseteq dbbm', TypeOK',
         pc' # "unmounted" => MetaBlocks \subseteq bbm', c' = NoCall,
         pc' \in {"idle", "unmounted"}
  PROVE  Layout'
BY NoCallTyped DEF Layout, MetadataSafe, CallWellFormed, Mounted

(* zeros_mount_open and zeros_mount_close preserve Layout. *)
LEMMA OpenCloseLayout ==
  ASSUME Layout, zeros_mount_open \/ zeros_mount_close
  PROVE  Layout'
<1>. USE DEF Layout
<1>1. CASE zeros_mount_open
  <2>1. TypeOK'
    BY <1>1, RootInodes DEF zeros_mount_open, TypeOK, diskVars, hist, Pcs
  <2>. QED
    BY <1>1, <2>1 DEF zeros_mount_open, MetadataSafe, CallWellFormed,
                      Mounted, diskVars
<1>2. CASE zeros_mount_close
  <2>1. c' \in Call /\ c'.ext = NoCall.ext
    BY <1>2, NoCallTyped DEF zeros_mount_close, Call, Ops
  <2>2. TypeOK'
    BY <1>2, <2>1 DEF zeros_mount_close, TypeOK, diskVars, ramVars, hist,
                      Pcs, FlushPcs
  <2>. QED
    BY <1>2, <2>1, <2>2, NoCallTyped, CallStep
    DEF zeros_mount_close, MetadataSafe, Mounted, diskVars, ramVars
<1>. QED BY <1>1, <1>2

(* zeros_cd preserves Layout. *)
LEMMA CdLayout ==
  ASSUME Layout, NEW p \in Paths, zeros_cd(p)
  PROVE  Layout'
<1>. USE DEF Layout
<1>1. Resolve(p) \in Inodes
  BY DEF zeros_cd, Readable
<1>2. TypeOK'
  BY <1>1 DEF zeros_cd, TypeOK, diskVars, PathHarm, Harms
<1>. QED
  BY <1>2 DEF zeros_cd, MetadataSafe, CallWellFormed, Mounted, diskVars

(* zeros_mkdir that runs out of blocks preserves Layout. *)
LEMMA MkdirDiskFullLayout ==
  ASSUME Layout, NEW p \in Paths, zeros_mkdir_disk_full(p)
  PROVE  Layout'
<1>. USE DEF Layout
<1>1. PICK ino \in Inodes : ibm' = ibm \cup {ino}
  BY DEF zeros_mkdir_disk_full, TakeInode
<1>2. sb' \in Counters
  BY CountersTyped DEF zeros_mkdir_disk_full, TypeOK, Counters
<1>3. /\ pc = "idle" /\ pc' = "idle" /\ c' = NoCall /\ harm' = harm \cup {"lost"}
      /\ UNCHANGED <<diskVars, bbm, cwd, live, wrote>>
  BY DEF zeros_mkdir_disk_full, MkdirCall, Abandon
<1>4. TypeOK'
  BY <1>1, <1>2, <1>3, NoCallTyped DEF TypeOK, diskVars, Pcs, Harms
<1>. QED
  BY <1>3, <1>4, NoCallStep DEF MetadataSafe, Mounted, diskVars

(* zeros_touch up to its first write preserves Layout. *)
LEMMA CreateLayout ==
  ASSUME Layout, NEW p \in Paths, NEW op \in {"touch", "create"},
         NEW v \in Vals \cup {NoVal}, NEW n \in 0 .. MaxLen,
         CreateFile(p, op, v, n)
  PROVE  Layout'
<1>. USE DEF Layout
<1>0. p \in Path BY MountAssumption
<1>1. Parent(p) \in Inodes
  BY DEF CreateFile, Readable
<1>2. PICK ino \in Inodes :
        /\ ibm' = ibm \cup {ino}
        /\ c' = [NoCall EXCEPT !.op = op, !.path = p, !.ino = ino,
                               !.parent = Parent(p), !.val = v, !.len = n]
  BY DEF CreateFile, TakeInode
<1>3. c' \in Call /\ c'.ext = NoCall.ext
  BY <1>0, <1>1, <1>2, NoCallTyped DEF Call, Ops
<1>4. sb' \in Counters
  BY CountersTyped DEF CreateFile, TypeOK, Counters
<1>5. pc = "idle" /\ pc' = "touch_init" /\ UNCHANGED <<diskVars, bbm, cwd, hist>>
  BY DEF CreateFile
<1>6. TypeOK'
  BY <1>2, <1>3, <1>4, <1>5 DEF TypeOK, diskVars, hist, Pcs
<1>. QED
  BY <1>3, <1>5, <1>6, NoCallTyped, CallStep DEF MetadataSafe, Mounted, diskVars

(* Freeing the old blocks of a file frees no metadata block. *)
LEMMA StartWriteFacts ==
  ASSUME Layout, pc # "unmounted", NEW p \in Path, NEW v \in Vals \cup {NoVal},
         NEW n \in 0 .. MaxLen, StartWrite(p, v, n)
  PROVE  /\ sb' \in Counters /\ bbm' \subseteq Blocks /\ MetaBlocks \subseteq bbm'
         /\ c' \in Call /\ c'.ext = NoCall.ext /\ pc' = "write_loop"
         /\ harm' \subseteq Harms
<1>. USE DEF Layout
<1>1. Resolve(p) \in Inodes
  BY DEF StartWrite, Readable
<1>. DEFINE old == itab[Resolve(p)]
<1>2. old \in Inode /\ ExtentsInData(old.extents)
  BY <1>1 DEF TypeOK, MetadataSafe
<1>3. BlocksOf(old) \subseteq DataBlocks
  BY <1>2, BlocksOfInData
<1>4. bbm' = bbm \ BlocksOf(old) /\ pc' = "write_loop"
  BY DEF StartWrite, Release
<1>5. MetaBlocks \subseteq bbm'
  BY <1>3, <1>4, GeometryAssumption
  DEF MetadataSafe, Mounted, MetaBlocks, DataBlocks
<1>6. Cardinality(BlockPos(old)) \in Nat
  BY <1>2, BlockPosFinite
<1>7. sb' \in Counters
  BY <1>6, CountersTyped DEF StartWrite, TypeOK, Counters
<1>8. c' = [NoCall EXCEPT !.op = "write", !.path = p, !.ino = Resolve(p),
                          !.left = n, !.len = n, !.val = v]
  BY DEF StartWrite
<1>9. c' \in Call /\ c'.ext = NoCall.ext
  BY <1>1, <1>8, NoCallTyped DEF Call, Ops
<1>10. harm' \subseteq Harms BY DEF StartWrite, PathHarm, TypeOK, Harms
<1>. QED BY <1>4, <1>5, <1>7, <1>9, <1>10 DEF TypeOK

(* zeros_write_file up to its first write preserves Layout. *)
LEMMA WriteFileLayout ==
  ASSUME Layout, NEW p \in Paths, NEW v \in Vals, NEW n \in 0 .. MaxLen,
         zeros_write_file(p, v, n)
  PROVE  Layout'
<1>1. CASE CreateFile(p, "create", v, n)
  BY <1>1, CreateLayout
<1>2. CASE pc = "idle" /\ StartWrite(p, v, n) /\ UNCHANGED <<diskVars, ibm, cwd, live, wrote>>
  <2>1. /\ sb' \in Counters /\ bbm' \subseteq Blocks /\ MetaBlocks \subseteq bbm'
        /\ c' \in Call /\ c'.ext = NoCall.ext /\ pc' = "write_loop"
        /\ harm' \subseteq Harms
    BY <1>2, StartWriteFacts, MountAssumption
  <2>2. TypeOK'
    BY <1>2, <2>1 DEF Layout, TypeOK, diskVars, Pcs
  <2>. QED BY <1>2, <2>1, <2>2, NoCallTyped, CallStep DEF diskVars
<1>. QED BY <1>1, <1>2 DEF zeros_write_file

(* zeros_rm up to its flush preserves Layout. *)
LEMMA RmLayout ==
  ASSUME Layout, NEW p \in Paths, zeros_rm(p)
  PROVE  Layout'
<1>. USE DEF Layout
<1>. DEFINE n == itab[Resolve(p)]
<1>1. p \in Path /\ Resolve(p) \in Inodes
  BY MountAssumption DEF zeros_rm, Removable, Readable
<1>2. n \in Inode /\ ExtentsInData(n.extents)
  BY <1>1 DEF TypeOK, MetadataSafe
<1>3. BlocksOf(n) \subseteq DataBlocks /\ Cardinality(BlockPos(n)) \in Nat
  BY <1>2, BlocksOfInData, BlockPosFinite
<1>4. /\ pc = "idle" /\ pc' = "flush_sb"
      /\ bbm' = bbm \ BlocksOf(n) /\ ibm' = ibm \ {Resolve(p)}
      /\ live' = live \ {Resolve(p)} /\ harm' \subseteq harm \cup {"torn"}
      /\ c' = [NoCall EXCEPT !.op = "rm"]
      /\ wrote' = [wrote EXCEPT ![Resolve(p)] = [val |-> NoVal, len |-> 0]]
      /\ UNCHANGED <<itab, dsb, dibm, dbbm, cwd>>
  BY DEF zeros_rm, Release, PathHarm
<1>5. MetaBlocks \subseteq bbm'
  BY <1>3, <1>4, GeometryAssumption
  DEF MetadataSafe, Mounted, MetaBlocks, DataBlocks
<1>6. sb' \in Counters
  BY <1>3, CountersTyped DEF zeros_rm, TypeOK, Counters
<1>7. c' \in Call /\ c'.ext = NoCall.ext
  BY <1>4, NoCallTyped DEF Call, Ops
<1>8. data' \in [DataBlocks -> Block]
  <2>1. data' = Erased(p) BY DEF zeros_rm
  <2>2. data \in [DataBlocks -> Block] BY DEF TypeOK
  <2>3. FreeDirent \in Dirent BY DEF FreeDirent, Dirent, Types
  <2>. QED BY <2>1, <2>2, <2>3 DEF Erased, Block
<1>9. wrote' \in [Inodes -> [val : Vals \cup {NoVal}, len : 0 .. MaxLen]]
  <2>1. 0 \in 0 .. MaxLen BY MountAssumption
  <2>. QED BY <1>4, <2>1 DEF TypeOK
<1>10. TypeOK'
  BY <1>4, <1>6, <1>7, <1>8, <1>9 DEF TypeOK, Pcs, FlushPcs, Harms
<1>. QED BY <1>4, <1>5, <1>7, <1>10, NoCallTyped, CallStep

(* Writing the new inode preserves Layout: its only block is a data block. *)
LEMMA InitInodeLayout ==
  ASSUME Layout, mkdir_init \/ touch_init
  PROVE  Layout'
<1>. USE DEF Layout
<1>0. c \in Call /\ c.ino \in Inodes /\ c.parent \in Inodes
  BY DEF TypeOK, Call
<1>1. CASE mkdir_init
  <2>1. c.blk \in DataBlocks BY <1>1 DEF mkdir_init, CallWellFormed
  <2>. DEFINE new == [mode |-> "dir", extents |-> <<OneBlock(c.blk)>>]
  <2>2. new \in Inode /\ ExtentsInData(new.extents)
    BY <2>1, OneBlockFacts, GeometryAssumption DEF Inode, ExtentsInData, Types
  <2>3. DirBlock(c.ino, c.parent) \in Block BY <1>0, DirBlockTyped
  <2>4. /\ data' = [data EXCEPT ![c.blk] = DirBlock(c.ino, c.parent)]
        /\ itab' = [itab EXCEPT ![c.ino] = new]
        /\ pc = "mkdir_init" /\ pc' = "dir_add_entry"
        /\ UNCHANGED <<dsb, dibm, dbbm, ramVars, c, hist>>
    BY <1>1 DEF mkdir_init
  <2>. HIDE DEF new
  <2>5. TypeOK'
    BY <2>2, <2>3, <2>4 DEF TypeOK, ramVars, hist, Pcs
  <2>6. \A i \in Inodes : ExtentsInData(itab'[i].extents)
    BY <2>2, <2>4 DEF TypeOK, MetadataSafe
  <2>. QED
    BY <2>4, <2>5, <2>6
    DEF MetadataSafe, CallWellFormed, Mounted, ramVars
<1>2. CASE touch_init
  <2>. DEFINE new == [mode |-> "reg", extents |-> <<>>]
  <2>2. new \in Inode /\ ExtentsInData(new.extents)
    BY GeometryAssumption DEF Inode, ExtentsInData, Types
  <2>4. /\ itab' = [itab EXCEPT ![c.ino] = new]
        /\ pc = "touch_init" /\ pc' = "dir_add_entry"
        /\ UNCHANGED <<data, dsb, dibm, dbbm, ramVars, c, hist>>
    BY <1>2 DEF touch_init
  <2>. HIDE DEF new
  <2>5. TypeOK'
    BY <2>2, <2>4 DEF TypeOK, ramVars, hist, Pcs
  <2>6. \A i \in Inodes : ExtentsInData(itab'[i].extents)
    BY <2>2, <2>4 DEF TypeOK, MetadataSafe
  <2>. QED
    BY <2>4, <2>5, <2>6
    DEF MetadataSafe, CallWellFormed, Mounted, ramVars
<1>. QED BY <1>1, <1>2

(* Making an entry effective preserves the types. *)
LEMMA LinkedTyped ==
  ASSUME TypeOK, Linked
  PROVE  /\ pc' = "flush_sb" /\ pc' \in Pcs
         /\ live' \subseteq Inodes /\ harm' \subseteq Harms
         /\ wrote' \in [Inodes -> [val : Vals \cup {NoVal}, len : 0 .. MaxLen]]
<1>1. c.ino \in Inodes BY DEF TypeOK, Call
<1>2. 0 \in 0 .. MaxLen BY MountAssumption
<1>3. LinkHarm \subseteq Harms BY DEF LinkHarm, Harms
<1>. QED BY <1>1, <1>2, <1>3 DEF Linked, TypeOK, Pcs, FlushPcs

(* The new entry is a directory entry. *)
LEMMA NewDirentTyped ==
  ASSUME TypeOK
  PROVE  NewDirent \in Dirent
BY DEF NewDirent, Dirent, TypeOK, Call, Path, Types

(* dir_add_entry preserves Layout, with and without a new extent. *)
LEMMA AddEntryLayout ==
  ASSUME Layout, dir_add_entry_slot \/ dir_add_entry_block
                   \/ dir_add_extent \/ dir_add_entry_fails
  PROVE  Layout'
<1>. USE DEF Layout
<1>0. c \in Call /\ c.parent \in Inodes /\ itab[c.parent] \in Inode
      /\ ExtentsInData(itab[c.parent].extents)
  BY DEF TypeOK, Call, MetadataSafe
<1>1. CASE dir_add_entry_slot
  <2>. DEFINE p == FirstCell(FreeCells(data, itab[c.parent]))
  <2>1. /\ data' = [data EXCEPT ![BlockAt(itab[c.parent], p)].ent[p[3]] = NewDirent]
        /\ pc = "dir_add_entry" /\ Linked
        /\ UNCHANGED <<itab, dsb, dibm, dbbm, ramVars, c>>
    BY <1>1 DEF dir_add_entry_slot
  <2>. HIDE DEF p
  <2>2. data' \in [DataBlocks -> Block]
    BY <2>1, NewDirentTyped DEF TypeOK, Block
  <2>3. TypeOK'
    BY <2>1, <2>2, LinkedTyped DEF TypeOK, ramVars
  <2>. QED
    BY <2>1, <2>3, LinkedTyped
    DEF MetadataSafe, CallWellFormed, Mounted, ramVars
<1>2. CASE dir_add_entry_block
  <2>1. PICK blk \in Blocks :
          /\ blk = LowestClear(FreeBlocks)
          /\ bbm' = bbm \cup {blk}
          /\ data' = [data EXCEPT ![blk] =
                        [EmptyDirBlock EXCEPT !.ent[0] = NewDirent]]
          /\ c' = [c EXCEPT !.blk = blk]
    BY <1>2 DEF dir_add_entry_block
  <2>2. /\ pc = "dir_add_entry" /\ pc' = "dir_add_extent"
        /\ Len(itab[c.parent].extents) < MaxExtents /\ FreeBlocks # {}
        /\ UNCHANGED <<itab, dsb, dibm, dbbm, ibm, cwd, hist>>
    BY <1>2 DEF dir_add_entry_block, CanGrowDir
  <2>3. blk \in DataBlocks BY <2>1, <2>2, FreeBlockFacts
  <2>4. EmptyDirBlock \in Block
    BY DEF EmptyDirBlock, Block, FreeDirent, Dirent, Types
  <2>5. [EmptyDirBlock EXCEPT !.ent[0] = NewDirent] \in Block
    BY <2>4, NewDirentTyped DEF Block
  <2>6. data' \in [DataBlocks -> Block]
    BY <2>1, <2>5 DEF TypeOK
  <2>7. sb' \in Counters
    BY <1>2, CountersTyped DEF dir_add_entry_block, TypeOK, Counters
  <2>8. c' \in Call /\ c'.ext = c.ext /\ c'.blk = blk /\ c'.parent = c.parent
    BY <1>0, <2>1 DEF Call
  <2>9. TypeOK'
    BY <2>1, <2>2, <2>6, <2>7, <2>8 DEF TypeOK, hist, Pcs
  <2>10. MetaBlocks \subseteq bbm'
    BY <2>1, <2>2 DEF MetadataSafe, Mounted
  <2>. QED
    BY <2>2, <2>3, <2>8, <2>9, <2>10, CallStep DEF CallWellFormed
<1>3. CASE dir_add_extent
  <2>1. /\ itab' = [itab EXCEPT ![c.parent].extents = Append(@, OneBlock(c.blk))]
        /\ pc = "dir_add_extent" /\ Linked
        /\ UNCHANGED <<data, dsb, dibm, dbbm, ramVars, c>>
    BY <1>3 DEF dir_add_extent
  <2>2. c.blk \in DataBlocks /\ Len(itab[c.parent].extents) < MaxExtents
    BY <2>1 DEF CallWellFormed
  <2>. DEFINE ext == Append(itab[c.parent].extents, OneBlock(c.blk))
  <2>3. ext \in Seq(Extent) /\ ExtentsInData(ext)
    BY <1>0, <2>2, AppendExtent DEF Inode
  <2>4. itab' = [itab EXCEPT ![c.parent].extents = ext]
    BY <2>1
  <2>. HIDE DEF ext
  <2>5. itab' \in [Inodes -> Inode]
    BY <1>0, <2>3, <2>4 DEF TypeOK, Inode
  <2>6. \A i \in Inodes : ExtentsInData(itab'[i].extents)
    BY <1>0, <2>3, <2>4 DEF TypeOK, Inode, MetadataSafe
  <2>7. TypeOK'
    BY <2>1, <2>5, LinkedTyped DEF TypeOK, ramVars
  <2>. QED
    BY <2>1, <2>6, <2>7, LinkedTyped
    DEF MetadataSafe, CallWellFormed, Mounted, ramVars
<1>4. CASE dir_add_entry_fails
  <2>1. TypeOK'
    BY <1>4, NoCallTyped
    DEF dir_add_entry_fails, Abandon, TypeOK, diskVars, ramVars, Pcs, Harms
  <2>. QED
    BY <1>4, <2>1, NoCallStep
    DEF dir_add_entry_fails, Abandon, MetadataSafe, Mounted, diskVars, ramVars
<1>. QED BY <1>1, <1>2, <1>3, <1>4

(* The write loop preserves Layout: its extents grow as GrowExtentsFacts says. *)
LEMMA WriteLayout ==
  ASSUME Layout, write_loop \/ write_fails \/ write_inode
  PROVE  Layout'
<1>. USE DEF Layout
<1>0. c \in Call /\ c.ino \in Inodes /\ c.ext \in Seq(Extent)
      /\ ExtentsInData(c.ext) /\ c.left \in 0 .. MaxLen
      /\ c.val \in Vals \cup {NoVal} /\ c.len \in 0 .. MaxLen
  BY DEF TypeOK, Call, CallWellFormed
<1>1. CASE write_loop
  <2>1. PICK blk \in Blocks :
          /\ blk = LowestClear(FreeBlocks)
          /\ bbm' = bbm \cup {blk}
          /\ data' = [data EXCEPT ![blk] = FileBlock(c.val)]
          /\ c' = [c EXCEPT !.left = @ - 1, !.ext = GrowExtents(@, blk)]
    BY <1>1 DEF write_loop
  <2>2. /\ pc = "write_loop" /\ pc' = "write_loop" /\ c.left > 0
        /\ Len(c.ext) < MaxExtents /\ FreeBlocks # {}
        /\ UNCHANGED <<itab, dsb, dibm, dbbm, ibm, cwd, hist>>
    BY <1>1 DEF write_loop, Writable
  <2>3. blk \in DataBlocks BY <2>1, <2>2, FreeBlockFacts
  <2>4. FileBlock(c.val) \in Block
    BY <1>0, EntriesAssumption DEF FileBlock, Block
  <2>5. data' \in [DataBlocks -> Block]
    BY <2>1, <2>4 DEF TypeOK
  <2>6. sb' \in Counters
    BY <1>1, CountersTyped DEF write_loop, TypeOK, Counters
  <2>7. GrowExtents(c.ext, blk) \in Seq(Extent) /\ ExtentsInData(GrowExtents(c.ext, blk))
    BY <1>0, <2>2, <2>3, GrowExtentsFacts
  <2>8. c.left - 1 \in 0 .. MaxLen BY <1>0, <2>2, MountAssumption
  <2>9. c' \in Call /\ c'.ext = GrowExtents(c.ext, blk)
    BY <1>0, <2>1, <2>7, <2>8 DEF Call
  <2>10. TypeOK'
    BY <2>1, <2>2, <2>5, <2>6, <2>9 DEF TypeOK, hist
  <2>11. MetaBlocks \subseteq bbm'
    BY <2>1, <2>2 DEF MetadataSafe, Mounted
  <2>. QED BY <2>2, <2>7, <2>9, <2>10, <2>11, CallStep
<1>2. CASE write_fails
  <2>1. TypeOK'
    BY <1>2, NoCallTyped
    DEF write_fails, Abandon, TypeOK, diskVars, ramVars, Pcs, Harms
  <2>. QED
    BY <1>2, <2>1, NoCallStep
    DEF write_fails, Abandon, MetadataSafe, Mounted, diskVars, ramVars
<1>3. CASE write_inode
  <2>1. /\ itab' = [itab EXCEPT ![c.ino].extents = c.ext]
        /\ wrote' = [wrote EXCEPT ![c.ino] = [val |-> c.val, len |-> c.len]]
        /\ pc = "write_loop" /\ pc' = "flush_sb"
        /\ UNCHANGED <<data, dsb, dibm, dbbm, ramVars, c, live, harm>>
    BY <1>3 DEF write_inode
  <2>2. itab' \in [Inodes -> Inode]
    BY <1>0, <2>1 DEF TypeOK, Inode
  <2>3. \A i \in Inodes : ExtentsInData(itab'[i].extents)
    BY <1>0, <2>1 DEF TypeOK, Inode, MetadataSafe
  <2>4. wrote' \in [Inodes -> [val : Vals \cup {NoVal}, len : 0 .. MaxLen]]
    BY <1>0, <2>1 DEF TypeOK
  <2>5. TypeOK'
    BY <2>1, <2>2, <2>4 DEF TypeOK, ramVars, Pcs, FlushPcs
  <2>. QED
    BY <2>1, <2>3, <2>5 DEF MetadataSafe, CallWellFormed, Mounted, ramVars
<1>. QED BY <1>1, <1>2, <1>3

(* flush_metadata preserves Layout, and so does the write that follows it
   when zeros_write_file has just created its file. *)
LEMMA FlushLayout ==
  ASSUME Layout, flush_sb \/ flush_ibm \/ flush_bbm
  PROVE  Layout'
<1>. USE DEF Layout
<1>1. CASE flush_sb
  <2>1. TypeOK'
    BY <1>1 DEF flush_sb, TypeOK, ramVars, hist, Pcs, FlushPcs
  <2>. QED
    BY <1>1, <2>1
    DEF flush_sb, MetadataSafe, CallWellFormed, Mounted, ramVars
<1>2. CASE flush_ibm
  <2>1. TypeOK'
    BY <1>2 DEF flush_ibm, TypeOK, ramVars, hist, Pcs, FlushPcs
  <2>. QED
    BY <1>2, <2>1
    DEF flush_ibm, MetadataSafe, CallWellFormed, Mounted, ramVars
<1>3. CASE flush_bbm
  <2>0. /\ pc = "flush_bbm" /\ dbbm' = bbm
        /\ UNCHANGED <<itab, data, dsb, dibm, live, wrote>>
        /\ MetaBlocks \subseteq dbbm'
    BY <1>3 DEF flush_bbm, MetadataSafe, Mounted
  <2>1. CASE /\ StartWrite(c.path, c.val, c.len)
             /\ UNCHANGED <<ibm, cwd>>
    <3>1. c.path \in Path /\ c.val \in Vals \cup {NoVal} /\ c.len \in 0 .. MaxLen
      BY DEF TypeOK, Call
    <3>2. /\ sb' \in Counters /\ bbm' \subseteq Blocks /\ MetaBlocks \subseteq bbm'
          /\ c' \in Call /\ c'.ext = NoCall.ext /\ pc' = "write_loop"
          /\ harm' \subseteq Harms
      BY <2>0, <2>1, <3>1, StartWriteFacts
    <3>3. TypeOK'
      BY <2>0, <2>1, <3>2 DEF TypeOK, Pcs
    <3>. QED
      BY <2>0, <3>2, <3>3, NoCallTyped DEF MetadataSafe, CallWellFormed, Mounted
  <2>2. CASE pc' = "idle" /\ c' = NoCall /\ UNCHANGED <<ramVars, harm>>
    <3>1. TypeOK'
      BY <2>0, <2>2, NoCallTyped DEF TypeOK, ramVars, Pcs
    <3>. QED
      BY <2>0, <2>2, <3>1, NoCallStep DEF MetadataSafe, Mounted, ramVars
  <2>3. CASE /\ pc' = "unmounted" /\ c' = NoCall
             /\ sb' = dsb /\ ibm' = {} /\ bbm' = {} /\ cwd' = ROOT
             /\ UNCHANGED harm
    <3>1. TypeOK'
      BY <2>0, <2>3, NoCallTyped, RootInodes DEF TypeOK, Pcs
    <3>. QED
      BY <2>0, <2>3, <3>1, NoCallStep
  <2>. QED BY <1>3, <2>1, <2>2, <2>3 DEF flush_bbm
<1>. QED BY <1>1, <1>2, <1>3

(* A crash preserves Layout: the disk does not change. *)
LEMMA CrashLayout ==
  ASSUME Layout, Crash
  PROVE  Layout'
<1>1. CrashHarm \subseteq Harms BY DEF CrashHarm, Harms
<1>2. TypeOK'
  BY <1>1, NoCallTyped, RootInodes DEF Crash, Layout, TypeOK, diskVars, Pcs
<1>. QED
  BY <1>2, NoCallStep DEF Crash, Layout, MetadataSafe, diskVars

(* A freshly formatted disk satisfies Layout. *)
LEMMA InitLayout == Init => Layout
<1>. SUFFICES ASSUME Init PROVE Layout OBVIOUS
<1>0. DataStart \in DataBlocks /\ MetaBlocks \subseteq Blocks /\ DataBlocks \subseteq Blocks
  BY GeometryAssumption DEF DataBlocks, MetaBlocks, Blocks
<1>. DEFINE root == [mode |-> "dir", extents |-> <<OneBlock(DataStart)>>]
<1>1. root \in Inode /\ ExtentsInData(root.extents)
  BY <1>0, OneBlockFacts, GeometryAssumption DEF Inode, ExtentsInData, Types
<1>2. FreshInode \in Inode /\ ExtentsInData(FreshInode.extents)
  BY GeometryAssumption DEF FreshInode, Inode, ExtentsInData, Types
<1>3. itab = [i \in Inodes |-> IF i = ROOT THEN root ELSE FreshInode]
  BY DEF Init
<1>. HIDE DEF root
<1>4. itab \in [Inodes -> Inode] /\ \A i \in Inodes : ExtentsInData(itab[i].extents)
  BY <1>1, <1>2, <1>3
<1>5. data \in [DataBlocks -> Block]
  <2>1. EmptyDirBlock \in Block
    BY DEF EmptyDirBlock, Block, FreeDirent, Dirent, Types
  <2>2. DirBlock(ROOT, ROOT) \in Block BY RootInodes, DirBlockTyped
  <2>. QED BY <2>1, <2>2 DEF Init
<1>6. dsb \in Counters
  BY MountAssumption, GeometryAssumption DEF Init, Counters
<1>7. wrote \in [Inodes -> [val : Vals \cup {NoVal}, len : 0 .. MaxLen]]
  BY MountAssumption DEF Init
<1>8. TypeOK
  BY <1>0, <1>4, <1>5, <1>6, <1>7, NoCallTyped, RootInodes DEF Init, TypeOK, Pcs
<1>. QED
  BY <1>4, <1>8, NoCallTyped
  DEF Init, Layout, MetadataSafe, CallWellFormed, Mounted

(* A call that follows no entry to an inode that was never written. *)
InTable == ~\E p \in Paths : astray(p)

(* Every other step preserves Layout. *)
LEMMA NextLayout == Layout /\ [Next /\ InTable]_vars => Layout'
<1>. SUFFICES ASSUME Layout, [Next /\ InTable]_vars PROVE Layout' OBVIOUS
<1>1. CASE ApiCall /\ InTable
  <2>1. ASSUME NEW p \in Paths, zeros_touch(p) PROVE Layout'
    <3>1. 0 \in 0 .. MaxLen BY MountAssumption
    <3>. QED BY <2>1, <3>1, CreateLayout DEF zeros_touch
  <2>. QED
    BY <1>1, <2>1, OpenCloseLayout, CdLayout, MkdirLayout, MkdirDiskFullLayout,
       RmLayout, WriteFileLayout DEF ApiCall, InTable
<1>2. CASE Progress
  BY <1>2, InitInodeLayout, AddEntryLayout, WriteLayout, FlushLayout DEF Progress
<1>3. CASE Crash
  BY <1>3, CrashLayout
<1>4. CASE UNCHANGED vars
  BY <1>4 DEF vars, Layout, TypeOK, MetadataSafe, CallWellFormed, Mounted
<1>. QED BY <1>1, <1>2, <1>3, <1>4 DEF Next

(* Only astray records that a call went astray, and stops there. *)
LEMMA StrayStep ==
  ASSUME Next, pc = "astray" <=> "stray" \in harm
  PROVE  /\ pc # "astray"
         /\ InTable => pc' # "astray" /\ "stray" \notin harm'
<1>1. pc # "astray"
  <2>1. ApiCall => pc # "astray"
    BY DEF ApiCall, zeros_mount_open, zeros_mount_close, zeros_cd, astray, zeros_mkdir,
           zeros_mkdir_disk_full, MkdirCall, zeros_touch, CreateFile, zeros_rm,
           zeros_write_file
  <2>2. Progress => pc # "astray"
    BY DEF Progress, mkdir_init, touch_init, dir_add_entry_slot, dir_add_entry_block,
           dir_add_extent, dir_add_entry_fails, write_loop, write_fails, write_inode,
           flush_sb, flush_ibm, flush_bbm
  <2>3. Crash => pc # "astray" BY DEF Crash
  <2>. QED BY <2>1, <2>2, <2>3 DEF Next
<1>2. ASSUME InTable PROVE pc' # "astray" /\ "stray" \notin harm'
  <2>. "stray" \notin harm BY <1>1
  <2>1. ApiCall => pc' # "astray" /\ "stray" \notin harm'
    <3>1. ASSUME NEW p \in Paths, zeros_cd(p) \/ zeros_mkdir(p) \/ zeros_mkdir_disk_full(p)
                                     \/ zeros_touch(p) \/ zeros_rm(p)
          PROVE  pc' # "astray" /\ "stray" \notin harm'
      BY <1>1, <3>1 DEF zeros_cd, zeros_mkdir, zeros_mkdir_disk_full, Abandon, hist,
                        zeros_touch, CreateFile, zeros_rm, PathHarm
    <3>2. ASSUME NEW p \in Paths, NEW v \in Vals, NEW n \in 0 .. MaxLen,
                 zeros_write_file(p, v, n)
          PROVE  pc' # "astray" /\ "stray" \notin harm'
      BY <1>1, <3>2 DEF zeros_write_file, CreateFile, StartWrite, hist, PathHarm
    <3>3. zeros_mount_open \/ zeros_mount_close => pc' # "astray" /\ "stray" \notin harm'
      BY <1>1 DEF zeros_mount_open, zeros_mount_close, hist
    <3>. QED BY <1>2, <3>1, <3>2, <3>3 DEF ApiCall, InTable
  <2>2. Progress => pc' # "astray" /\ "stray" \notin harm'
    BY <1>1 DEF Progress, mkdir_init, touch_init, dir_add_entry_slot, dir_add_entry_block,
           dir_add_extent, dir_add_entry_fails, write_loop, write_fails, write_inode,
           flush_sb, flush_ibm, flush_bbm, Abandon, Linked, LinkHarm, StartWrite, PathHarm, hist
  <2>3. Crash => pc' # "astray" /\ "stray" \notin harm' BY <1>1 DEF Crash, CrashHarm
  <2>. QED BY <2>1, <2>2, <2>3 DEF Next
<1>. QED BY <1>1, <1>2

(* A call that goes astray leaves types as they are and says so. *)
LEMMA AstrayStep ==
  ASSUME TypeOK, NEW p \in Paths, astray(p)
  PROVE  TypeOK' /\ pc' = "astray" /\ "stray" \in harm'
<1>1. harm' \subseteq Harms BY DEF astray, PathHarm, TypeOK, Harms
<1>2. bbm' \subseteq Blocks BY DEF astray, TypeOK
<1>. QED BY <1>1, <1>2 DEF astray, TypeOK, diskVars, Pcs

(* Layout holds in every reachable state of every disk geometry and for    *)
(* every contents of files, until a call goes astray.                      *)
THEOREM LayoutInvariant == Spec => []LayoutUntilAstray
<1>1. Init => LayoutUntilAstray
  BY InitLayout DEF LayoutUntilAstray, Layout, Init
<1>2. LayoutUntilAstray /\ [Next]_vars => LayoutUntilAstray'
  <2>. SUFFICES ASSUME LayoutUntilAstray, [Next]_vars PROVE LayoutUntilAstray' OBVIOUS
  <2>1. CASE UNCHANGED vars
    BY <2>1 DEF vars, LayoutUntilAstray, Layout, TypeOK, MetadataSafe, CallWellFormed, Mounted
  <2>2. CASE Next /\ InTable
    <3>1. pc # "astray" /\ pc' # "astray" /\ "stray" \notin harm'
      BY <2>2, StrayStep DEF LayoutUntilAstray
    <3>2. Layout' BY <2>2, <3>1, NextLayout DEF LayoutUntilAstray
    <3>. QED BY <3>1, <3>2 DEF LayoutUntilAstray, Layout
  <2>3. CASE Next /\ ~InTable
    BY <2>3, AstrayStep DEF LayoutUntilAstray, InTable
  <2>. QED BY <2>1, <2>2, <2>3
<1>. QED BY <1>1, <1>2, PTL DEF Spec

(* The types, for every geometry, set of names and paths. *)
THEOREM TypeCorrect == Spec => []TypeOK
<1>1. LayoutUntilAstray => TypeOK BY DEF LayoutUntilAstray
<1>. QED BY <1>1, LayoutInvariant, PTL

-----------------------------------------------------------------------------
(* Part 2.  The inductive invariant of ownership and of the tree. *)

Ent(b, s) == data[b].ent[s]

(* Slot s of block b is an entry, or a link, of the live directory i. *)
Used(i, b, s) ==
  /\ i \in live /\ itab[i].mode = "dir"
  /\ b \in BlocksOf(itab[i]) /\ s \in Slots
  /\ Ent(b, s).inode # NIL

IsLink(i, b, s) == Used(i, b, s) /\ Ent(b, s).name \notin {".", ".."}

(* The entries form a tree.  Over what TreeSound says: every directory has *)
(* its "." and "..", so that dir_lookup refuses to create them again.      *)
TreeLinks ==
  /\ \A i \in live, b \in DataBlocks, s \in Slots :
       IsLink(i, b, s) => Ent(b, s).inode \in live \ {ROOT}
  /\ \A j \in live \ {ROOT} : \E i \in live, b \in DataBlocks, s \in Slots :
       IsLink(i, b, s) /\ Ent(b, s).inode = j
  /\ \A i, k \in live, b, d \in DataBlocks, s, r \in Slots :
       /\ IsLink(i, b, s) /\ IsLink(k, d, r)
       /\ \/ Ent(b, s).inode = Ent(d, r).inode
          \/ i = k /\ Ent(b, s).name = Ent(d, r).name
       => i = k /\ b = d /\ s = r

TreeDots ==
  /\ \A i \in live, b \in DataBlocks, s \in Slots : Used(i, b, s) =>
       /\ Ent(b, s).name = "." => Ent(b, s).inode = i
       /\ Ent(b, s).name = ".." =>
            IF i = ROOT THEN Ent(b, s).inode = ROOT
            ELSE \E d \in DataBlocks, r \in Slots :
                   IsLink(Ent(b, s).inode, d, r) /\ Ent(d, r).inode = i
  /\ \A i \in live, n \in {".", ".."} : itab[i].mode = "dir" =>
       \E b \in DataBlocks, s \in Slots : Used(i, b, s) /\ Ent(b, s).name = n

TreeInv ==
  /\ ROOT \in live /\ itab[ROOT].mode = "dir"
  /\ TreeLinks /\ TreeDots

(* What an entry names has been written. *)
LiveWritten == \A i \in live : itab[i].mode # "none"

(* mkdir, touch and create from their first change of RAM to the write of  *)
(* the entry, and from the write of the new inode.                         *)
Creating == pc \in {"mkdir_init", "touch_init", "dir_add_entry", "dir_add_extent"}
Built    == pc \in {"dir_add_entry", "dir_add_extent"}

(* The inodes whose blocks must be kept: the live ones and the new one. *)
Owners == live \cup (IF Built THEN {c.ino} ELSE {})

Apart ==
  /\ \A i \in Owners : NoRepeat(itab[i])
  /\ \A i, j \in Owners : i # j => BlocksOf(itab[i]) \cap BlocksOf(itab[j]) = {}

Marked ==
  Mounted => /\ live \subseteq ibm
             /\ \A i \in Owners : Writing(i) \/ BlocksOf(itab[i]) \subseteq bbm

(* What a creation holds is nobody else's, and its name is still free. *)
CreateHolds ==
  Creating =>
    /\ c.op \in (CASE pc = "mkdir_init" -> {"mkdir"}
                   [] pc = "touch_init" -> {"touch", "create"}
                   [] OTHER -> {"mkdir", "touch", "create"})
    /\ c.ino \in ibm \ live /\ c.parent \in live
    /\ itab[c.parent].mode = "dir" =>
         \A b \in BlocksOf(itab[c.parent]), s \in Slots :
           Ent(b, s).inode # NIL => Ent(b, s).name # c.path.name

BlockHeld ==
  pc \in {"mkdir_init", "dir_add_extent"} =>
    c.blk \in bbm /\ \A i \in Owners : c.blk \notin BlocksOf(itab[i])

(* The new inode and block are on disk as the entry will present them. *)
NewNode ==
  /\ Built => IF c.op = "mkdir"
              THEN /\ itab[c.ino].mode = "dir" /\ BlocksOf(itab[c.ino]) # {}
                   /\ \A b \in BlocksOf(itab[c.ino]) : data[b] = DirBlock(c.ino, c.parent)
              ELSE itab[c.ino] = [mode |-> "reg", extents |-> <<>>]
  /\ pc = "dir_add_extent" => data[c.blk] = [EmptyDirBlock EXCEPT !.ent[0] = NewDirent]

(* zeros_write_file collects blocks no other file has. *)
NewFile == [extents |-> c.ext]

WriteHolds ==
  pc = "write_loop" =>
    /\ c.op = "write" /\ c.ino \in live /\ itab[c.ino].mode # "dir"
    /\ BlocksOf(NewFile) \subseteq bbm /\ NoRepeat(NewFile)
    /\ \A i \in live \ {c.ino} : BlocksOf(NewFile) \cap BlocksOf(itab[i]) = {}

(* What a crash would find. *)
DiskCovers ==
  /\ ~Committing => /\ live \subseteq dibm
                    /\ \A i \in live : BlocksOf(itab[i]) \subseteq dbbm
  /\ pc = "flush_bbm" => live \subseteq dibm

Cwd == Mounted => cwd \in live /\ itab[cwd].mode = "dir"

Good ==
  /\ TreeInv /\ LiveWritten /\ Cwd
  /\ Apart /\ Marked /\ DiskCovers
  /\ CreateHolds /\ BlockHeld /\ NewNode /\ WriteHolds

(* On a sound disk nothing has gone astray, so the layout holds too. *)
GoodInv == Sound => Layout /\ Good

-----------------------------------------------------------------------------
(* The typing facts every step uses. *)
LEMMA InodeFacts ==
  ASSUME Layout
  PROVE  /\ itab \in [Inodes -> Inode] /\ data \in [DataBlocks -> Block]
         /\ live \subseteq Inodes /\ cwd \in Inodes /\ c \in Call
         /\ \A i \in Inodes : /\ itab[i] \in Inode /\ ExtentsInData(itab[i].extents)
                              /\ BlocksOf(itab[i]) \subseteq DataBlocks
<1>1. /\ itab \in [Inodes -> Inode] /\ data \in [DataBlocks -> Block]
      /\ live \subseteq Inodes /\ cwd \in Inodes /\ c \in Call
  BY DEF Layout, TypeOK
<1>2. \A i \in Inodes : itab[i] \in Inode /\ ExtentsInData(itab[i].extents)
  BY <1>1 DEF Layout, MetadataSafe
<1>3. \A i \in Inodes : BlocksOf(itab[i]) \subseteq DataBlocks
  BY <1>2, BlocksOfInData
<1>. QED BY <1>1, <1>2, <1>3

(* A lookup in a live directory ends at something live. *)
LEMMA LookupLive ==
  ASSUME Layout, TreeInv, NEW i \in live, itab[i].mode = "dir", NEW name \in Components
  PROVE  dir_lookup(itab, data, i, name) \in live \cup {NIL}
<1>. DEFINE j == dir_lookup(itab, data, i, name)
<1>. SUFFICES ASSUME j # NIL PROVE j \in live OBVIOUS
<1>0. /\ itab \in [Inodes -> Inode] /\ data \in [DataBlocks -> Block]
      /\ i \in Inodes /\ ExtentsInData(itab[i].extents)
      /\ BlocksOf(itab[i]) \subseteq DataBlocks
  BY InodeFacts
<1>1. PICK b \in BlocksOf(itab[i]), s \in Slots :
        data[b].ent[s].inode = j /\ data[b].ent[s].name = name
  <2>1. \E b \in BlocksOf(itab[i]), s \in Slots :
          data[b].ent[s].inode = j /\ data[b].ent[s].name = name
    BY <1>0, LookupFacts
  <2>. QED BY <2>1
<1>. HIDE DEF j
<1>4. b \in DataBlocks /\ Used(i, b, s) BY <1>0, <1>1 DEF Used, Ent
<1>5. CASE name \notin {".", ".."}
  <2>1. IsLink(i, b, s) BY <1>1, <1>4, <1>5 DEF IsLink, Ent
  <2>2. Ent(b, s).inode \in live BY <1>4, <2>1 DEF TreeInv, TreeLinks
  <2>. QED BY <1>1, <2>2 DEF Ent
<1>6. CASE name = "."
  <2>1. Ent(b, s).inode = i BY <1>1, <1>4, <1>6 DEF TreeInv, TreeDots, Ent
  <2>. QED BY <1>1, <2>1 DEF Ent
<1>7. CASE name = ".."
  <2>1. Ent(b, s).name = ".." /\ Ent(b, s).inode = j BY <1>1, <1>7 DEF Ent
  <2>2. IF i = ROOT THEN Ent(b, s).inode = ROOT
        ELSE \E d \in DataBlocks, r \in Slots :
               IsLink(Ent(b, s).inode, d, r) /\ Ent(d, r).inode = i
    BY <1>4, <2>1 DEF TreeInv, TreeDots
  <2>3. CASE i = ROOT BY <2>1, <2>2, <2>3 DEF TreeInv
  <2>4. CASE i # ROOT
    <3>1. PICK d \in DataBlocks, r \in Slots : IsLink(j, d, r) BY <2>1, <2>2, <2>4
    <3>. QED BY <3>1 DEF IsLink, Used
  <2>. QED BY <2>3, <2>4
<1>. QED BY <1>5, <1>6, <1>7

(* So does every path whose last component is not looked up in a file. *)
LEMMA ResolveLive ==
  ASSUME Layout, TreeInv, LiveWritten, cwd \in live, itab[cwd].mode = "dir", NEW p \in Path
  PROVE  /\ Parent(p) \in live \cup {NIL}
         /\ ~ThroughFile(p) => Resolve(p) \in live \cup {NIL}
<1>. DEFINE start == IF p.abs THEN ROOT ELSE cwd
<1>1. start \in live /\ itab[start].mode = "dir" BY DEF TreeInv
<1>2. p.dir \in Components \cup {""} /\ p.name \in Components \cup {""} BY DEF Path
<1>3. Parent(p) = IF p.dir = "" THEN start ELSE dir_lookup(itab, data, start, p.dir)
  BY DEF Parent, resolve_parent
<1>4. Parent(p) \in live \cup {NIL}
  <2>1. CASE p.dir = "" BY <1>1, <1>3, <2>1
  <2>2. CASE p.dir # ""
    <3>1. p.dir \in Components BY <1>2, <2>2
    <3>. HIDE DEF start
    <3>2. dir_lookup(itab, data, start, p.dir) \in live \cup {NIL} BY <1>1, <3>1, LookupLive
    <3>. QED BY <1>3, <2>2, <3>2
  <2>. QED BY <2>1, <2>2
<1>. DEFINE blank == p.name = ""
<1>5. Resolve(p) = IF blank \/ ~Readable(itab, Parent(p)) THEN Parent(p)
                   ELSE dir_lookup(itab, data, Parent(p), p.name)
  BY DEF Resolve, Parent, resolve_path
<1>6. ~ThroughFile(p) => blank \/ ~Readable(itab, Parent(p)) \/ itab[Parent(p)].mode = "dir"
  BY DEF ThroughFile
<1>7. blank \/ p.name \in Components BY <1>2
<1>. HIDE DEF blank
<1>8. CASE blank \/ ~Readable(itab, Parent(p)) BY <1>4, <1>5, <1>8
<1>9. CASE ~(blank \/ ~Readable(itab, Parent(p)))
  <2>. SUFFICES ASSUME ~ThroughFile(p) PROVE Resolve(p) \in live \cup {NIL} BY <1>4
  <2>1. itab[Parent(p)].mode = "dir" /\ p.name \in Components BY <1>6, <1>7, <1>9
  <2>2. Parent(p) \in live BY <1>4, <1>9, RootInodes DEF Readable
  <2>3. dir_lookup(itab, data, Parent(p), p.name) \in live \cup {NIL} BY <2>1, <2>2, LookupLive
  <2>. QED BY <1>5, <1>9, <2>3
<1>. QED BY <1>8, <1>9

(* A file is written before an entry names it, so nothing goes astray on   *)
(* a disk that is sound.                                                   *)
LEMMA NoStray ==
  ASSUME Layout, Good, Sound', NEW p \in Paths
  PROVE  ~astray(p)
<1>. SUFFICES ASSUME astray(p) PROVE FALSE OBVIOUS
<1>0. ~ThroughFile(p) BY DEF astray, PathHarm, Sound
<1>1. p \in Path BY MountAssumption
<1>2. pc = "idle" /\ Resolve(p) # NIL /\ ~Readable(itab, Resolve(p)) BY DEF astray
<1>3. cwd \in live /\ itab[cwd].mode = "dir" BY <1>2 DEF Good, Cwd, Mounted
<1>4. \A i \in live : Readable(itab, i)
  BY InodeFacts DEF Readable, Good, LiveWritten
<1>. QED BY <1>0, <1>1, <1>2, <1>3, <1>4, ResolveLive DEF Good

-----------------------------------------------------------------------------
(* The tree through a step. *)

(* A step that leaves the blocks of the live directories alone. *)
LEMMA TreeSame ==
  ASSUME TreeInv, live' = live,
         \A i \in live : itab'[i].mode = itab[i].mode,
         \A i \in live : itab[i].mode = "dir" =>
            /\ BlocksOf(itab'[i]) = BlocksOf(itab[i])
            /\ \A b \in BlocksOf(itab[i]) : data'[b].ent = data[b].ent
  PROVE  TreeInv'
<1>1. \A i \in live, b \in DataBlocks, s \in Slots :
        /\ Used(i, b, s)' <=> Used(i, b, s)
        /\ Used(i, b, s) => Ent(b, s)' = Ent(b, s)
  BY DEF Used, Ent
<1>2. \A i \in live, b \in DataBlocks, s \in Slots : IsLink(i, b, s)' <=> IsLink(i, b, s)
  BY <1>1 DEF IsLink
<1>3. \A i, b, s : IsLink(i, b, s) => i \in live /\ Used(i, b, s) BY DEF IsLink, Used
<1>4. TreeLinks' BY <1>1, <1>2, <1>3 DEF TreeInv, TreeLinks
<1>5. TreeDots'
  <2>1. ASSUME NEW i \in live, NEW b \in DataBlocks, NEW s \in Slots, Used(i, b, s)'
        PROVE  /\ Ent(b, s)'.name = "." => Ent(b, s)'.inode = i
               /\ Ent(b, s)'.name = ".." =>
                    IF i = ROOT THEN Ent(b, s)'.inode = ROOT
                    ELSE \E d \in DataBlocks, r \in Slots :
                           IsLink(Ent(b, s).inode, d, r)' /\ Ent(d, r)'.inode = i
    <3>1. Used(i, b, s) /\ Ent(b, s)' = Ent(b, s) BY <1>1, <2>1
    <3>2. /\ Ent(b, s).name = "." => Ent(b, s).inode = i
          /\ Ent(b, s).name = ".." =>
               IF i = ROOT THEN Ent(b, s).inode = ROOT
               ELSE \E d \in DataBlocks, r \in Slots :
                      IsLink(Ent(b, s).inode, d, r) /\ Ent(d, r).inode = i
      BY <3>1 DEF TreeInv, TreeDots
    <3>3. CASE i # ROOT /\ Ent(b, s).name = ".."
      <4>1. PICK d \in DataBlocks, r \in Slots :
               IsLink(Ent(b, s).inode, d, r) /\ Ent(d, r).inode = i
        BY <3>2, <3>3
      <4>2. IsLink(Ent(b, s).inode, d, r)' /\ Ent(d, r)' = Ent(d, r)
        BY <1>1, <1>2, <1>3, <3>1, <4>1
      <4>. QED BY <3>1, <3>2, <3>3, <4>1, <4>2
    <3>. QED BY <3>1, <3>2, <3>3
  <2>2. \A i \in live, n \in {".", ".."} : itab[i].mode = "dir" =>
          \E b \in DataBlocks, s \in Slots : Used(i, b, s)' /\ Ent(b, s)'.name = n
    BY <1>1 DEF TreeInv, TreeDots
  <2>. QED BY <2>1, <2>2 DEF TreeDots
<1>. QED BY <1>4, <1>5 DEF TreeInv

(* The write that links the new inode j into the directory k: entry r of   *)
(* block d, which was free or in no directory, becomes j's.                *)
AddsEntry(k, j, d, r, name) ==
  /\ live' = live \cup {j}
  /\ \A i \in live : itab'[i].mode = itab[i].mode
  /\ \A i \in live : itab[i].mode = "dir" /\ i # k =>
        BlocksOf(itab'[i]) = BlocksOf(itab[i]) /\ d \notin BlocksOf(itab[i])
  /\ BlocksOf(itab'[k]) = BlocksOf(itab[k]) \cup {d}
  /\ data'[d].ent[r].inode = j /\ data'[d].ent[r].name = name
  /\ \A b \in BlocksOf(itab[k]), s \in Slots :
        Ent(b, s).inode # NIL => Ent(b, s).name # name
  /\ \A s \in Slots \ {r} : IF d \in BlocksOf(itab[k])
                            THEN data'[d].ent[s] = data[d].ent[s]
                            ELSE data'[d].ent[s].inode = NIL
  /\ d \in BlocksOf(itab[k]) => data[d].ent[r].inode = NIL
  /\ \A i \in live : itab[i].mode = "dir" =>
        \A b \in BlocksOf(itab[i]) \ {d} : data'[b].ent = data[b].ent
  /\ itab'[j].mode = "dir" =>
        /\ BlocksOf(itab'[j]) # {} /\ BlocksOf(itab'[j]) \subseteq DataBlocks
        /\ \A b \in BlocksOf(itab'[j]) : data'[b] = DirBlock(j, k)

(* The write of the entry of the call in progress. *)
Entered == \E d \in DataBlocks, r \in Slots :
             itab[c.parent].mode = "dir" /\ AddsEntry(c.parent, c.ino, d, r, c.path.name)

(* The tree with one more leaf. *)
LEMMA TreeAdd ==
  ASSUME TreeInv, live \subseteq Inodes,
         NEW k \in live, itab[k].mode = "dir", NEW j \in Inodes, j \notin live,
         NEW d \in DataBlocks, NEW r \in Slots, NEW name, AddsEntry(k, j, d, r, name)
  PROVE  TreeInv'
<1>. USE DEF AddsEntry
<1>0. j # NIL /\ j # ROOT /\ k \in Inodes
  BY RootInodes DEF TreeInv
<1>1. name \notin {".", ".."}
  <2>1. \A n \in {".", ".."} : \E b \in DataBlocks, s \in Slots :
           Used(k, b, s) /\ Ent(b, s).name = n
    BY DEF TreeInv, TreeDots
  <2>. QED BY <2>1 DEF Used
<1>2. \A b, s : Used(k, b, s) => ~(b = d /\ s = r) /\ Ent(b, s).name # name
  BY DEF Used, Ent
<1>3. \A i \in live, b \in DataBlocks, s \in Slots :
        /\ Used(i, b, s)' <=> Used(i, b, s) \/ (i = k /\ b = d /\ s = r)
        /\ Used(i, b, s) => Ent(b, s)' = Ent(b, s)
  <2>. TAKE i \in live, b \in DataBlocks, s \in Slots
  <2>1. CASE i # k BY <2>1 DEF Used, Ent
  <2>2. CASE i = k /\ b # d BY <2>2 DEF Used, Ent
  <2>3. CASE i = k /\ b = d /\ s # r BY <2>3 DEF Used, Ent
  <2>4. CASE i = k /\ b = d /\ s = r BY <1>0, <1>2, <2>4 DEF Used, Ent
  <2>. QED BY <2>1, <2>2, <2>3, <2>4
<1>4. Ent(d, r)'.inode = j /\ Ent(d, r)'.name = name BY DEF Ent
<1>5. ASSUME NEW b \in DataBlocks, NEW s \in Slots, Used(j, b, s)'
      PROVE  \/ Ent(b, s)'.name = "." /\ Ent(b, s)'.inode = j
             \/ Ent(b, s)'.name = ".." /\ Ent(b, s)'.inode = k
  <2>1. itab'[j].mode = "dir" /\ b \in BlocksOf(itab'[j]) /\ Ent(b, s)'.inode # NIL
    BY <1>5 DEF Used
  <2>2. Ent(b, s)' = DirBlock(j, k).ent[s] BY <2>1 DEF Ent
  <2>3. s \in {0, 1} BY <1>0, <2>1, <2>2, DirBlockEntries
  <2>. QED BY <1>0, <2>2, <2>3, DirBlockEntries
<1>6. ASSUME NEW n \in {".", ".."}, itab'[j].mode = "dir"
      PROVE  \E b \in DataBlocks, s \in Slots : Used(j, b, s)' /\ Ent(b, s)'.name = n
  <2>1. PICK b \in BlocksOf(itab'[j]) : b \in DataBlocks BY <1>6
  <2>2. data'[b] = DirBlock(j, k) BY <1>6, <2>1
  <2>3. 0 \in Slots /\ 1 \in Slots BY <1>0, DirBlockEntries
  <2>4. /\ Ent(b, 0)'.inode = j /\ Ent(b, 0)'.name = "."
        /\ Ent(b, 1)'.inode = k /\ Ent(b, 1)'.name = ".."
    BY <1>0, <2>2, <2>3, DirBlockEntries DEF Ent
  <2>5. k # NIL BY <1>0, RootInodes
  <2>6. Used(j, b, 0)' /\ Used(j, b, 1)'
    BY <1>0, <1>6, <2>1, <2>3, <2>4, <2>5 DEF Used
  <2>. QED BY <2>1, <2>3, <2>4, <2>6
<1>7. \A i \in live', b \in DataBlocks, s \in Slots :
        IsLink(i, b, s)' <=> IsLink(i, b, s) \/ (i = k /\ b = d /\ s = r)
  <2>1. \A b, s : ~IsLink(j, b, s) BY DEF IsLink, Used
  <2>. TAKE i \in live', b \in DataBlocks, s \in Slots
  <2>2. CASE i = j BY <1>5, <2>1, <2>2 DEF IsLink
  <2>3. CASE i # j
    <3>1. i \in live BY <2>3
    <3>. QED BY <1>1, <1>3, <1>4, <3>1 DEF IsLink
  <2>. QED BY <2>2, <2>3
<1>8. \A i, b, s : IsLink(i, b, s) => i \in live /\ Used(i, b, s) BY DEF IsLink, Used
<1>9. \A i \in live, b \in DataBlocks, s \in Slots : IsLink(i, b, s) =>
        Ent(b, s)' = Ent(b, s) /\ Ent(b, s).inode \in live \ {ROOT}
  BY <1>3, <1>8 DEF TreeInv, TreeLinks
<1>10. TreeLinks'
  <2>1. \A i \in live', b \in DataBlocks, s \in Slots :
          IsLink(i, b, s)' => Ent(b, s)'.inode \in live' \ {ROOT}
    BY <1>0, <1>4, <1>7, <1>8, <1>9
  <2>2. ASSUME NEW x \in live' \ {ROOT}
        PROVE  \E i \in live', b \in DataBlocks, s \in Slots :
                 IsLink(i, b, s)' /\ Ent(b, s)'.inode = x
    <3>1. CASE x = j BY <1>4, <1>7, <3>1
    <3>2. CASE x # j
      <4>1. x \in live \ {ROOT} BY <3>2
      <4>2. PICK i \in live, b \in DataBlocks, s \in Slots :
                 IsLink(i, b, s) /\ Ent(b, s).inode = x
        BY <4>1 DEF TreeInv, TreeLinks
      <4>. QED BY <1>7, <1>9, <4>2
    <3>. QED BY <3>1, <3>2
  <2>3. ASSUME NEW i \in live', NEW i2 \in live', NEW b \in DataBlocks, NEW b2 \in DataBlocks,
               NEW s \in Slots, NEW s2 \in Slots,
               IsLink(i, b, s)', IsLink(i2, b2, s2)',
               \/ Ent(b, s)'.inode = Ent(b2, s2)'.inode
               \/ i = i2 /\ Ent(b, s)'.name = Ent(b2, s2)'.name
        PROVE  i = i2 /\ b = b2 /\ s = s2
    <3>1. CASE IsLink(i, b, s) /\ IsLink(i2, b2, s2)
      <4>1. i \in live /\ i2 \in live BY <1>8, <3>1
      <4>2. Ent(b, s)' = Ent(b, s) /\ Ent(b2, s2)' = Ent(b2, s2) BY <1>9, <3>1, <4>1
      <4>. QED BY <2>3, <3>1, <4>1, <4>2 DEF TreeInv, TreeLinks
    <3>2. ASSUME NEW x \in live, NEW y \in DataBlocks, NEW z \in Slots, IsLink(x, y, z)
          PROVE  /\ Ent(y, z)'.inode # Ent(d, r)'.inode
                 /\ x = k => Ent(y, z)'.name # Ent(d, r)'.name
      BY <1>2, <1>4, <1>8, <1>9, <3>2
    <3>. QED BY <1>7, <1>8, <2>3, <3>1, <3>2
  <2>. HIDE DEF AddsEntry
  <2>. QED BY <2>1, <2>2, <2>3 DEF TreeLinks
<1>11. TreeDots'
  <2>1. ASSUME NEW i \in live', NEW b \in DataBlocks, NEW s \in Slots, Used(i, b, s)'
        PROVE  /\ Ent(b, s)'.name = "." => Ent(b, s)'.inode = i
               /\ Ent(b, s)'.name = ".." =>
                    IF i = ROOT THEN Ent(b, s)'.inode = ROOT
                    ELSE \E d2 \in DataBlocks, r2 \in Slots :
                           IsLink(Ent(b, s).inode, d2, r2)' /\ Ent(d2, r2)'.inode = i
    <3>1. CASE i = j
      <4>1. IsLink(k, d, r)' BY <1>7
      <4>2. Ent(b, s)'.name = ".." => Ent(b, s)'.inode = k BY <1>5, <2>1, <3>1
      <4>. QED BY <1>0, <1>4, <1>5, <2>1, <3>1, <4>1, <4>2
    <3>2. CASE i \in live /\ i = k /\ b = d /\ s = r
      BY <1>1, <1>4, <3>2
    <3>3. CASE i \in live /\ Used(i, b, s)
      <4>1. Ent(b, s)' = Ent(b, s) BY <1>3, <3>3
      <4>2. /\ Ent(b, s).name = "." => Ent(b, s).inode = i
            /\ Ent(b, s).name = ".." =>
                 IF i = ROOT THEN Ent(b, s).inode = ROOT
                 ELSE \E d2 \in DataBlocks, r2 \in Slots :
                        IsLink(Ent(b, s).inode, d2, r2) /\ Ent(d2, r2).inode = i
        BY <3>3 DEF TreeInv, TreeDots
      <4>3. CASE i # ROOT /\ Ent(b, s).name = ".."
        <5>1. PICK d2 \in DataBlocks, r2 \in Slots :
                 IsLink(Ent(b, s).inode, d2, r2) /\ Ent(d2, r2).inode = i
          BY <4>2, <4>3
        <5>2. Ent(b, s).inode \in live /\ Ent(b, s).inode \in live' BY <1>8, <5>1
        <5>3. IsLink(Ent(b, s).inode, d2, r2)' /\ Ent(d2, r2)' = Ent(d2, r2)
          BY <1>7, <1>9, <4>1, <5>1, <5>2
        <5>. QED BY <4>1, <4>2, <4>3, <5>1, <5>3
      <4>. QED BY <4>1, <4>2, <4>3
    <3>. QED BY <1>3, <2>1, <3>1, <3>2, <3>3
  <2>2. ASSUME NEW i \in live', NEW n \in {".", ".."}, itab'[i].mode = "dir"
        PROVE  \E b \in DataBlocks, s \in Slots : Used(i, b, s)' /\ Ent(b, s)'.name = n
    <3>1. CASE i = j BY <1>6, <2>2, <3>1
    <3>2. CASE i \in live
      <4>1. PICK b \in DataBlocks, s \in Slots : Used(i, b, s) /\ Ent(b, s).name = n
        BY <2>2, <3>2 DEF TreeInv, TreeDots
      <4>. QED BY <1>3, <3>2, <4>1
    <3>. QED BY <3>1, <3>2
  <2>. QED BY <2>1, <2>2 DEF TreeDots
<1>. QED BY <1>10, <1>11 DEF TreeInv

(* The removal of the link of j, the only entry that named it. *)
LEMMA TreeRemove ==
  ASSUME TreeInv, NEW k \in live, NEW d \in DataBlocks, NEW r \in Slots,
         IsLink(k, d, r), NEW j \in live, j = Ent(d, r).inode,
         live' = live \ {j}, itab' = itab, data'[d].ent[r].inode = NIL,
         \A i \in live : itab[i].mode = "dir" =>
            \A b \in BlocksOf(itab[i]), s \in Slots :
               ~(b = d /\ s = r) => data'[b].ent[s] = data[b].ent[s],
         itab[j].mode = "dir" =>
            \A b \in BlocksOf(itab[j]), s \in Slots :
               Ent(b, s).inode # NIL => Ent(b, s).name \in {".", ".."}
  PROVE  TreeInv'
<1>0. \A i, b, s : IsLink(i, b, s) => i \in live /\ Used(i, b, s) BY DEF IsLink, Used
<1>1. j # ROOT BY DEF TreeInv, TreeLinks
<1>2. \A i \in live : Used(i, d, r) => i = k
  <2>1. \A i : Used(i, d, r) => IsLink(i, d, r) BY DEF IsLink
  <2>. QED BY <2>1 DEF TreeInv, TreeLinks
<1>3. \A i \in live', b \in DataBlocks, s \in Slots :
        /\ Used(i, b, s)' <=> Used(i, b, s) /\ ~(b = d /\ s = r)
        /\ Used(i, b, s) /\ ~(b = d /\ s = r) => Ent(b, s)' = Ent(b, s)
  BY <1>2 DEF Used, Ent
<1>4. \A b, s : ~IsLink(j, b, s) BY DEF IsLink, Used
<1>5. \A i \in live', b \in DataBlocks, s \in Slots :
        /\ IsLink(i, b, s)' <=> IsLink(i, b, s) /\ ~(b = d /\ s = r)
        /\ IsLink(i, b, s)' => Ent(b, s)' = Ent(b, s)
  BY <1>3 DEF IsLink
<1>6. \A i \in live, b \in DataBlocks, s \in Slots :
        IsLink(i, b, s) /\ Ent(b, s).inode # j => i \in live' /\ IsLink(i, b, s)'
  BY <1>4, <1>5
<1>7. TreeLinks'
  <2>1. ASSUME NEW i \in live', NEW b \in DataBlocks, NEW s \in Slots, IsLink(i, b, s)'
        PROVE  Ent(b, s)'.inode \in live' \ {ROOT}
    <3>1. IsLink(i, b, s) /\ ~(b = d /\ s = r) /\ Ent(b, s)' = Ent(b, s) /\ i \in live
      BY <1>5, <2>1
    <3>2. Ent(b, s).inode \in live \ {ROOT} /\ Ent(b, s).inode # j
      BY <3>1 DEF TreeInv, TreeLinks
    <3>. QED BY <3>1, <3>2
  <2>2. ASSUME NEW x \in live' \ {ROOT}
        PROVE  \E i \in live', b \in DataBlocks, s \in Slots :
                 IsLink(i, b, s)' /\ Ent(b, s)'.inode = x
    <3>1. PICK i \in live, b \in DataBlocks, s \in Slots :
               IsLink(i, b, s) /\ Ent(b, s).inode = x
      BY DEF TreeInv, TreeLinks
    <3>. QED BY <1>5, <1>6, <3>1
  <2>3. ASSUME NEW i \in live', NEW i2 \in live', NEW b \in DataBlocks, NEW b2 \in DataBlocks,
               NEW s \in Slots, NEW s2 \in Slots,
               IsLink(i, b, s)', IsLink(i2, b2, s2)',
               \/ Ent(b, s)'.inode = Ent(b2, s2)'.inode
               \/ i = i2 /\ Ent(b, s)'.name = Ent(b2, s2)'.name
        PROVE  i = i2 /\ b = b2 /\ s = s2
    <3>1. /\ IsLink(i, b, s) /\ IsLink(i2, b2, s2) /\ i \in live /\ i2 \in live
          /\ Ent(b, s)' = Ent(b, s) /\ Ent(b2, s2)' = Ent(b2, s2)
      BY <1>5, <2>3
    <3>. QED BY <2>3, <3>1 DEF TreeInv, TreeLinks
  <2>. QED BY <2>1, <2>2, <2>3 DEF TreeLinks
<1>8. TreeDots'
  <2>1. ASSUME NEW i \in live', NEW b \in DataBlocks, NEW s \in Slots, Used(i, b, s)'
        PROVE  /\ Ent(b, s)'.name = "." => Ent(b, s)'.inode = i
               /\ Ent(b, s)'.name = ".." =>
                    IF i = ROOT THEN Ent(b, s)'.inode = ROOT
                    ELSE \E d2 \in DataBlocks, r2 \in Slots :
                           IsLink(Ent(b, s).inode, d2, r2)' /\ Ent(d2, r2)'.inode = i
    <3>1. Used(i, b, s) /\ Ent(b, s)' = Ent(b, s) /\ i \in live BY <1>3, <2>1
    <3>2. /\ Ent(b, s).name = "." => Ent(b, s).inode = i
          /\ Ent(b, s).name = ".." =>
               IF i = ROOT THEN Ent(b, s).inode = ROOT
               ELSE \E d2 \in DataBlocks, r2 \in Slots :
                      IsLink(Ent(b, s).inode, d2, r2) /\ Ent(d2, r2).inode = i
      BY <3>1 DEF TreeInv, TreeDots
    <3>3. CASE i # ROOT /\ Ent(b, s).name = ".."
      <4>1. PICK d2 \in DataBlocks, r2 \in Slots :
               IsLink(Ent(b, s).inode, d2, r2) /\ Ent(d2, r2).inode = i
        BY <3>2, <3>3
      <4>2. Ent(b, s).inode \in live' /\ IsLink(Ent(b, s).inode, d2, r2)'
        BY <1>0, <1>6, <3>1, <4>1
      <4>3. Ent(d2, r2)' = Ent(d2, r2) BY <1>5, <3>1, <4>2
      <4>. QED BY <3>1, <3>2, <3>3, <4>1, <4>2, <4>3
    <3>. QED BY <3>1, <3>2, <3>3
  <2>2. ASSUME NEW i \in live', NEW n \in {".", ".."}, itab[i].mode = "dir"
        PROVE  \E b \in DataBlocks, s \in Slots : Used(i, b, s)' /\ Ent(b, s)'.name = n
    <3>1. PICK b \in DataBlocks, s \in Slots : Used(i, b, s) /\ Ent(b, s).name = n
      BY <2>2 DEF TreeInv, TreeDots
    <3>2. ~(b = d /\ s = r) BY <3>1 DEF IsLink
    <3>. QED BY <1>3, <3>1, <3>2
  <2>. QED BY <2>1, <2>2 DEF TreeDots
<1>. QED BY <1>1, <1>7, <1>8 DEF TreeInv

-----------------------------------------------------------------------------
(* The invariant, step by step. *)

(* Nothing on disk that the tree is made of changes. *)
LEMMA DiskSame ==
  ASSUME TreeInv, LiveWritten, itab' = itab, data' = data, live' = live
  PROVE  TreeInv' /\ LiveWritten'
<1>1. TreeInv' BY TreeSame
<1>. QED BY <1>1 DEF LiveWritten

(* A step that ends a call, or the process, and leaves the tree alone. *)
LEMMA EndOfCall ==
  ASSUME Good, itab' = itab, data' = data, live' = live, pc' \in {"idle", "unmounted"},
         live \subseteq dibm', \A i \in live : BlocksOf(itab[i]) \subseteq dbbm',
         pc' # "unmounted" =>
           /\ live \subseteq ibm' /\ \A i \in live : BlocksOf(itab[i]) \subseteq bbm'
           /\ cwd' \in live /\ itab[cwd'].mode = "dir"
  PROVE  Good'
<1>1. TreeInv' /\ LiveWritten' BY DiskSame DEF Good
<1>2. Owners' = live /\ live \subseteq Owners BY DEF Owners, Built
<1>3. Apart' BY <1>2 DEF Apart, Good
<1>4. Marked' BY <1>2 DEF Marked, Mounted
<1>5. DiskCovers' BY DEF DiskCovers
<1>6. Cwd' BY DEF Cwd, Mounted
<1>7. CreateHolds' /\ BlockHeld' /\ NewNode' /\ WriteHolds'
  BY DEF CreateHolds, Creating, BlockHeld, NewNode, Built, WriteHolds
<1>. QED BY <1>1, <1>3, <1>4, <1>5, <1>6, <1>7 DEF Good

(* Between calls: what everyone may rely on. *)
LEMMA NotWriting ==
  ASSUME Good, Mounted, pc # "write_loop"
  PROVE  /\ live \subseteq ibm /\ \A i \in live : BlocksOf(itab[i]) \subseteq bbm
         /\ cwd \in live /\ itab[cwd].mode = "dir"
BY DEF Good, Marked, Owners, Writing, Cwd

(* zeros_mount_open reads bitmaps that cover what the entries name. *)
LEMMA OpenGood == ASSUME Good, zeros_mount_open PROVE Good'
<1>1. /\ itab' = itab /\ data' = data /\ live' = live /\ pc' = "idle"
      /\ dibm' = dibm /\ dbbm' = dbbm /\ ibm' = dibm /\ bbm' = dbbm /\ cwd' = ROOT
      /\ pc = "unmounted"
  BY DEF zeros_mount_open, diskVars, hist
<1>2. live \subseteq dibm /\ \A i \in live : BlocksOf(itab[i]) \subseteq dbbm
  BY <1>1 DEF Good, DiskCovers, Committing, FlushPcs
<1>3. ROOT \in live /\ itab[ROOT].mode = "dir" BY DEF Good, TreeInv
<1>. QED BY <1>1, <1>2, <1>3, EndOfCall

(* zeros_cd ends in a live directory. *)
LEMMA CdGood ==
  ASSUME Layout, Good, NEW p \in Paths, ~ThroughFile(p), zeros_cd(p) PROVE Good'
<1>0. p \in Path BY MountAssumption
<1>1. /\ itab' = itab /\ data' = data /\ live' = live /\ pc' = "idle" /\ pc = "idle"
      /\ dibm' = dibm /\ dbbm' = dbbm /\ ibm' = ibm /\ bbm' = bbm /\ cwd' = Resolve(p)
      /\ Resolve(p) # NIL /\ itab[Resolve(p)].mode = "dir"
  BY RootInodes DEF zeros_cd, Readable, diskVars
<1>2. /\ live \subseteq ibm /\ \A i \in live : BlocksOf(itab[i]) \subseteq bbm
      /\ cwd \in live /\ itab[cwd].mode = "dir"
  BY <1>1, NotWriting DEF Mounted
<1>3. live \subseteq dibm /\ \A i \in live : BlocksOf(itab[i]) \subseteq dbbm
  BY <1>1 DEF Good, DiskCovers, Committing, FlushPcs
<1>4. Resolve(p) \in live BY <1>0, <1>1, <1>2, ResolveLive DEF Good
<1>. QED BY <1>1, <1>2, <1>3, <1>4, EndOfCall

(* A call that fails half way leaves marks behind and takes none away. *)
LEMMA AbandonGood ==
  ASSUME Good, Sound',
         (\E p \in Paths : zeros_mkdir_disk_full(p)) \/ dir_add_entry_fails \/ write_fails
  PROVE  Good'
<1>1. /\ itab' = itab /\ data' = data /\ live' = live /\ pc' = "idle"
      /\ pc \in {"idle", "dir_add_entry", "write_loop"}
      /\ dibm' = dibm /\ dbbm' = dbbm /\ ibm \subseteq ibm' /\ bbm' = bbm /\ cwd' = cwd
  BY DEF zeros_mkdir_disk_full, MkdirCall, TakeInode, dir_add_entry_fails, write_fails,
         Abandon, diskVars, ramVars
<1>2. live \subseteq dibm /\ \A i \in live : BlocksOf(itab[i]) \subseteq dbbm
  BY <1>1 DEF Good, DiskCovers, Committing, FlushPcs
<1>3. live \subseteq ibm /\ cwd \in live /\ itab[cwd].mode = "dir"
  BY <1>1 DEF Good, Marked, Mounted, Cwd
<1>4. \A i \in live : BlocksOf(itab[i]) \subseteq bbm
  <2>1. CASE pc # "write_loop" BY <1>1, <2>1, NotWriting DEF Mounted
  <2>2. CASE pc = "write_loop"
    <3>1. write_fails
      BY <2>2 DEF zeros_mkdir_disk_full, MkdirCall, dir_add_entry_fails
    <3>2. BlocksOf(itab[c.ino]) = {} BY <3>1 DEF write_fails, Abandon, Sound
    <3>. QED BY <1>1, <3>2 DEF Good, Marked, Owners, Writing, Mounted
  <2>. QED BY <2>1, <2>2
<1>. QED BY <1>1, <1>2, <1>3, <1>4, EndOfCall

(* A crash outside the commit window leaves a good disk. *)
LEMMA CrashGood ==
  ASSUME Good, Sound', Crash
  PROVE  Good'
<1>1. /\ itab' = itab /\ data' = data /\ live' = live /\ pc' = "unmounted"
      /\ dibm' = dibm /\ dbbm' = dbbm
  BY DEF Crash, diskVars
<1>2. ~Committing BY DEF Crash, CrashHarm, Sound
<1>3. live \subseteq dibm /\ \A i \in live : BlocksOf(itab[i]) \subseteq dbbm
  BY <1>2 DEF Good, DiskCovers
<1>. QED BY <1>1, <1>3, EndOfCall

(* The flush, and the call that consists of nothing else. *)
LEMMA FlushGood ==
  ASSUME Good, zeros_mount_close \/ flush_sb \/ flush_ibm
  PROVE  Good'
<1>1. /\ itab' = itab /\ data' = data /\ live' = live
      /\ pc \in {"idle", "flush_sb", "flush_ibm"} /\ pc' \in FlushPcs
      /\ dbbm' = dbbm /\ ibm' = ibm /\ bbm' = bbm /\ cwd' = cwd
  BY DEF zeros_mount_close, flush_sb, flush_ibm, diskVars, ramVars, hist, FlushPcs
<1>2. /\ live \subseteq ibm /\ \A i \in live : BlocksOf(itab[i]) \subseteq bbm
      /\ cwd \in live /\ itab[cwd].mode = "dir"
  BY <1>1, NotWriting DEF Mounted
<1>3. TreeInv' /\ LiveWritten' BY <1>1, DiskSame DEF Good
<1>4. Owners' = live /\ live \subseteq Owners BY <1>1 DEF Owners, Built, FlushPcs
<1>5. Apart' BY <1>1, <1>4 DEF Apart, Good
<1>6. Marked' /\ Cwd' BY <1>1, <1>2, <1>4 DEF Marked, Cwd
<1>7. DiskCovers'
  <2>1. CASE zeros_mount_close
    BY <2>1 DEF zeros_mount_close, Good, DiskCovers, Committing, FlushPcs, diskVars, hist
  <2>2. CASE flush_sb
    BY <2>2 DEF flush_sb, Good, DiskCovers, Committing, FlushPcs, hist
  <2>3. CASE flush_ibm
    BY <1>2, <2>3 DEF flush_ibm, Good, DiskCovers, Committing, FlushPcs, hist
  <2>. QED BY <2>1, <2>2, <2>3
<1>8. CreateHolds' /\ BlockHeld' /\ NewNode' /\ WriteHolds'
  BY <1>1 DEF CreateHolds, Creating, BlockHeld, NewNode, Built, WriteHolds, FlushPcs
<1>. QED BY <1>3, <1>5, <1>6, <1>7, <1>8 DEF Good

(* alloc_inode and alloc_block hand out what nobody has. *)
LEMMA CreateStart ==
  ASSUME Layout, Good, pc = "idle",
         itab' = itab, data' = data, live' = live, dibm' = dibm, dbbm' = dbbm, cwd' = cwd,
         \/ pc' = "mkdir_init" /\ c'.op = "mkdir" /\ c'.blk \in bbm' \ bbm
         \/ pc' = "touch_init" /\ c'.op \in {"touch", "create"},
         ibm \subseteq ibm', c'.ino \in ibm' \ ibm, bbm \subseteq bbm',
         c'.parent \in live, dir_lookup(itab, data, c'.parent, c'.path.name) = NIL
  PROVE  Good'
<1>1. /\ live \subseteq ibm /\ \A i \in live : BlocksOf(itab[i]) \subseteq bbm
      /\ cwd \in live /\ itab[cwd].mode = "dir"
  BY NotWriting DEF Mounted
<1>2. TreeInv' /\ LiveWritten' BY DiskSame DEF Good
<1>3. Owners' = live /\ live \subseteq Owners BY DEF Owners, Built
<1>4. Apart' BY <1>3 DEF Apart, Good
<1>5. Marked' BY <1>1, <1>3 DEF Marked
<1>6. Cwd' BY <1>1 DEF Cwd
<1>7. DiskCovers' BY DEF Good, DiskCovers, Committing, FlushPcs
<1>8. CreateHolds'
  <2>1. c'.parent \in Inodes BY InodeFacts
  <2>2. \A b \in BlocksOf(itab[c'.parent]), s \in Slots :
          data[b].ent[s].inode # NIL => data[b].ent[s].name # c'.path.name
    <3>. DEFINE d == c'.parent  n == c'.path.name
    <3>1. /\ itab \in [Inodes -> Inode] /\ data \in [DataBlocks -> Block]
          /\ d \in Inodes /\ ExtentsInData(itab[d].extents)
      BY <2>1, InodeFacts
    <3>2. dir_lookup(itab, data, d, n) = NIL OBVIOUS
    <3>. HIDE DEF d, n
    <3>3. \A b \in BlocksOf(itab[d]), s \in Slots :
            data[b].ent[s].inode # NIL => data[b].ent[s].name # n
      BY <3>1, <3>2, LookupFacts
    <3>. QED BY <3>3 DEF d, n
  <2>. QED BY <1>1, <2>2 DEF CreateHolds, Creating, Ent
<1>9. BlockHeld' BY <1>1, <1>3 DEF BlockHeld
<1>10. NewNode' /\ WriteHolds' BY DEF NewNode, Built, WriteHolds
<1>. QED BY <1>2, <1>4, <1>5, <1>6, <1>7, <1>8, <1>9, <1>10 DEF Good

(* zeros_mkdir takes an inode and a block that are nobody's. *)
LEMMA MkdirGood ==
  ASSUME Layout, Good, NEW p \in Paths, zeros_mkdir(p)
  PROVE  Good'
<1>0. p \in Path BY MountAssumption
<1>1. PICK ino \in Inodes, blk \in Blocks :
        /\ TakeInode(ino) /\ blk = LowestClear(FreeBlocks) /\ bbm' = bbm \cup {blk}
        /\ c' = [NoCall EXCEPT !.op = "mkdir", !.path = p, !.ino = ino,
                               !.parent = Parent(p), !.blk = blk]
  BY DEF zeros_mkdir
<1>2. /\ c'.op = "mkdir" /\ c'.path = p /\ c'.ino = ino /\ c'.parent = Parent(p)
      /\ c'.blk = blk
  BY <1>1 DEF NoCall
<1>3. /\ pc = "idle" /\ pc' = "mkdir_init" /\ Parent(p) # NIL /\ FreeBlocks # {}
      /\ dir_lookup(itab, data, Parent(p), p.name) = NIL
      /\ itab' = itab /\ data' = data /\ live' = live /\ dibm' = dibm /\ dbbm' = dbbm
      /\ cwd' = cwd
  BY RootInodes DEF zeros_mkdir, MkdirCall, Readable, diskVars, hist
<1>4. Parent(p) \in live BY <1>0, <1>3, ResolveLive DEF Good, Cwd, Mounted
<1>5. blk \notin bbm BY <1>1, <1>3, FreeBlockFacts
<1>6. ino \notin ibm /\ ibm' = ibm \cup {ino}
  <2>1. FreeInodes \subseteq Nat BY GeometryAssumption DEF FreeInodes, Inodes
  <2>. QED BY <1>1, <2>1, LowestClearIn DEF TakeInode, FreeInodes
<1>. QED BY <1>1, <1>2, <1>3, <1>4, <1>5, <1>6, CreateStart

(* zeros_touch, alone or in zeros_write_file, takes an inode that is       *)
(* nobody's.                                                               *)
LEMMA CreateGood ==
  ASSUME Layout, Good, NEW p \in Paths, NEW op \in {"touch", "create"}, NEW v, NEW n,
         CreateFile(p, op, v, n)
  PROVE  Good'
<1>0. p \in Path BY MountAssumption
<1>1. PICK ino \in Inodes :
        /\ TakeInode(ino)
        /\ c' = [NoCall EXCEPT !.op = op, !.path = p, !.ino = ino,
                               !.parent = Parent(p), !.val = v, !.len = n]
  BY DEF CreateFile
<1>2. c'.op = op /\ c'.path = p /\ c'.ino = ino /\ c'.parent = Parent(p)
  BY <1>1 DEF NoCall
<1>3. /\ pc = "idle" /\ pc' = "touch_init" /\ Parent(p) # NIL /\ Resolve(p) = NIL
      /\ itab' = itab /\ data' = data /\ live' = live /\ dibm' = dibm /\ dbbm' = dbbm
      /\ cwd' = cwd /\ bbm' = bbm
  BY RootInodes DEF CreateFile, Readable, diskVars, hist
<1>4. Parent(p) \in live BY <1>0, <1>3, ResolveLive DEF Good, Cwd, Mounted
<1>5. dir_lookup(itab, data, Parent(p), p.name) = NIL
  <2>. DEFINE blank == p.name = ""
  <2>1. Resolve(p) = IF blank \/ ~Readable(itab, Parent(p)) THEN Parent(p)
                     ELSE dir_lookup(itab, data, Parent(p), p.name)
    BY DEF Resolve, Parent, resolve_path
  <2>2. Readable(itab, Parent(p)) BY DEF CreateFile
  <2>. HIDE DEF blank
  <2>. QED BY <1>3, <2>1, <2>2
<1>6. ino \notin ibm /\ ibm' = ibm \cup {ino}
  <2>1. FreeInodes \subseteq Nat BY GeometryAssumption DEF FreeInodes, Inodes
  <2>. QED BY <1>1, <2>1, LowestClearIn DEF TakeInode, FreeInodes
<1>. QED BY <1>1, <1>2, <1>3, <1>4, <1>5, <1>6, CreateStart

(* The old blocks of the file are free from here on; nobody else's are. *)
LEMMA StartWriteGood ==
  ASSUME Layout, Good, NEW p \in Path, NEW v, NEW n, ~ThroughFile(p), StartWrite(p, v, n),
         pc \in {"idle", "flush_bbm"},
         itab' = itab, data' = data, live' = live, ibm' = ibm, cwd' = cwd,
         live \subseteq dibm', \A i \in live : BlocksOf(itab[i]) \subseteq dbbm'
  PROVE  Good'
<1>1. /\ live \subseteq ibm /\ \A i \in live : BlocksOf(itab[i]) \subseteq bbm
      /\ cwd \in live /\ itab[cwd].mode = "dir"
  BY NotWriting DEF Mounted
<1>2. PICK ino : ino = Resolve(p) OBVIOUS
<1>3. /\ ino # NIL /\ itab[ino].mode # "dir" /\ bbm' = bbm \ BlocksOf(itab[ino])
      /\ pc' = "write_loop"
      /\ c' = [NoCall EXCEPT !.op = "write", !.path = p, !.ino = ino,
                             !.left = n, !.len = n, !.val = v]
  BY <1>2, RootInodes DEF StartWrite, Readable, Release
<1>4. c'.op = "write" /\ c'.ino = ino /\ c'.ext = <<>> BY <1>3 DEF NoCall
<1>5. ino \in live BY <1>1, <1>2, <1>3, ResolveLive DEF Good
<1>6. TreeInv' /\ LiveWritten' BY DiskSame DEF Good
<1>7. Owners' = live /\ live \subseteq Owners BY <1>3 DEF Owners, Built
<1>8. Apart' BY <1>7 DEF Apart, Good
<1>9. Marked'
  <2>1. ASSUME NEW i \in live, i # ino PROVE BlocksOf(itab[i]) \subseteq bbm'
    <3>1. BlocksOf(itab[i]) \cap BlocksOf(itab[ino]) = {}
      BY <1>5, <1>7, <2>1 DEF Good, Apart
    <3>. QED BY <1>1, <1>3, <3>1
  <2>. QED BY <1>1, <1>3, <1>4, <1>7, <2>1 DEF Marked, Writing
<1>10. Cwd' BY <1>1 DEF Cwd
<1>11. DiskCovers' BY <1>3 DEF DiskCovers, Committing, FlushPcs
<1>12. WriteHolds'
  <2>1. NewFile'.extents = <<>> BY <1>4 DEF NewFile
  <2>2. BlocksOf(NewFile)' = {} /\ NoRepeat(NewFile)'
    <3>. HIDE DEF NewFile
    <3>1. BlocksOf(NewFile') = {} /\ NoRepeat(NewFile') BY <2>1, NoBlocks
    <3>. QED BY <3>1
  <2>. QED BY <1>3, <1>4, <1>5, <2>2 DEF WriteHolds
<1>13. CreateHolds' /\ BlockHeld' /\ NewNode'
  BY <1>3 DEF CreateHolds, Creating, BlockHeld, NewNode, Built
<1>. QED BY <1>6, <1>8, <1>9, <1>10, <1>11, <1>12, <1>13 DEF Good

(* zeros_write_file creates the file, or frees the blocks of the one there *)
(* is.                                                                     *)
LEMMA WriteFileGood ==
  ASSUME Layout, Good, Sound', NEW p \in Paths, NEW v, NEW n, zeros_write_file(p, v, n)
  PROVE  Good'
<1>1. CASE CreateFile(p, "create", v, n) BY <1>1, CreateGood
<1>2. CASE pc = "idle" /\ StartWrite(p, v, n) /\ UNCHANGED <<diskVars, ibm, cwd, live, wrote>>
  <2>1. p \in Path BY MountAssumption
  <2>2. live \subseteq dibm /\ \A i \in live : BlocksOf(itab[i]) \subseteq dbbm
    BY <1>2 DEF Good, DiskCovers, Committing, FlushPcs
  <2>3. ~ThroughFile(p) BY <1>2 DEF StartWrite, PathHarm, Sound
  <2>. QED BY <1>2, <2>1, <2>2, <2>3, StartWriteGood DEF diskVars
<1>. QED BY <1>1, <1>2 DEF zeros_write_file

(* The end of a flush: the call is over, or zeros_write_file goes on to    *)
(* write.                                                                  *)
LEMMA FlushBbmGood ==
  ASSUME Layout, Good, Sound', flush_bbm
  PROVE  Good'
<1>1. /\ itab' = itab /\ data' = data /\ live' = live /\ pc = "flush_bbm"
      /\ dibm' = dibm /\ dbbm' = bbm
  BY DEF flush_bbm
<1>2. /\ live \subseteq ibm /\ \A i \in live : BlocksOf(itab[i]) \subseteq bbm
      /\ cwd \in live /\ itab[cwd].mode = "dir"
  BY <1>1, NotWriting DEF Mounted
<1>3. live \subseteq dibm BY <1>1 DEF Good, DiskCovers
<1>4. CASE StartWrite(c.path, c.val, c.len) /\ UNCHANGED <<ibm, cwd>>
  <2>1. c.path \in Path BY InodeFacts DEF Call
  <2>2. ~ThroughFile(c.path) BY <1>4 DEF StartWrite, PathHarm, Sound
  <2>. QED BY <1>1, <1>2, <1>3, <1>4, <2>1, <2>2, StartWriteGood
<1>5. CASE pc' = "idle" /\ UNCHANGED ramVars
  BY <1>1, <1>2, <1>3, <1>5, EndOfCall DEF ramVars
<1>6. CASE pc' = "unmounted"
  BY <1>1, <1>2, <1>3, <1>6, EndOfCall
<1>. QED BY <1>4, <1>5, <1>6 DEF flush_bbm

(* The new inode and its block are written where no live inode looks. *)
LEMMA InitInodeGood ==
  ASSUME Layout, Good, mkdir_init \/ touch_init
  PROVE  Good'
<1>0. /\ itab \in [Inodes -> Inode] /\ data \in [DataBlocks -> Block] /\ live \subseteq Inodes
      /\ c.ino \in Inodes /\ c.parent \in Inodes
      /\ \A i \in Inodes : BlocksOf(itab[i]) \subseteq DataBlocks
  BY InodeFacts DEF Call
<1>1. /\ pc \in {"mkdir_init", "touch_init"} /\ pc' = "dir_add_entry"
      /\ live' = live /\ dibm' = dibm /\ dbbm' = dbbm /\ c' = c
      /\ ibm' = ibm /\ bbm' = bbm /\ cwd' = cwd
  BY DEF mkdir_init, touch_init, ramVars, hist
<1>2. /\ live \subseteq ibm /\ \A i \in live : BlocksOf(itab[i]) \subseteq bbm
      /\ cwd \in live /\ itab[cwd].mode = "dir"
  BY <1>1, NotWriting DEF Mounted
<1>3. /\ c.ino \in ibm \ live /\ c.parent \in live
      /\ pc = "mkdir_init" => c.op = "mkdir"
      /\ pc = "touch_init" => c.op \in {"touch", "create"}
      /\ itab[c.parent].mode = "dir" =>
           \A b \in BlocksOf(itab[c.parent]), s \in Slots :
             Ent(b, s).inode # NIL => Ent(b, s).name # c.path.name
  BY <1>1 DEF Good, CreateHolds, Creating
<1>4. Owners = live /\ Owners' = live \cup {c.ino} BY <1>1 DEF Owners, Built
<1>5. \A i \in live : itab'[i] = itab[i]
  BY <1>0, <1>3 DEF mkdir_init, touch_init
<1>6. \A i \in live : \A b \in BlocksOf(itab[i]) : data'[b] = data[b]
  <2>1. CASE mkdir_init
    <3>1. \A i \in live : c.blk \notin BlocksOf(itab[i])
      BY <1>4, <2>1 DEF mkdir_init, Good, BlockHeld
    <3>. QED BY <1>0, <2>1, <3>1 DEF mkdir_init
  <2>2. CASE touch_init BY <2>2 DEF touch_init
  <2>. QED BY <2>1, <2>2
<1>7. /\ NoRepeat(itab'[c.ino]) /\ BlocksOf(itab'[c.ino]) \subseteq bbm
      /\ \A i \in live : BlocksOf(itab'[c.ino]) \cap BlocksOf(itab[i]) = {}
      /\ IF c.op = "mkdir"
         THEN /\ itab'[c.ino].mode = "dir" /\ BlocksOf(itab'[c.ino]) # {}
              /\ \A b \in BlocksOf(itab'[c.ino]) : data'[b] = DirBlock(c.ino, c.parent)
         ELSE itab'[c.ino] = [mode |-> "reg", extents |-> <<>>]
  <2>1. CASE mkdir_init
    <3>1. c.blk \in DataBlocks BY <2>1 DEF mkdir_init, Layout, CallWellFormed
    <3>2. c.blk \in bbm /\ \A i \in live : c.blk \notin BlocksOf(itab[i])
      BY <1>4, <2>1 DEF mkdir_init, Good, BlockHeld
    <3>3. itab'[c.ino] = [mode |-> "dir", extents |-> <<OneBlock(c.blk)>>]
      BY <1>0, <2>1 DEF mkdir_init
    <3>4. BlocksOf(itab'[c.ino]) = {c.blk} /\ NoRepeat(itab'[c.ino])
      BY <3>1, <3>3, SingleBlock
    <3>5. data'[c.blk] = DirBlock(c.ino, c.parent) BY <1>0, <2>1, <3>1 DEF mkdir_init
    <3>6. c.op = "mkdir" BY <1>3, <2>1 DEF mkdir_init
    <3>. QED BY <3>2, <3>3, <3>4, <3>5, <3>6
  <2>2. CASE touch_init
    <3>1. itab'[c.ino] = [mode |-> "reg", extents |-> <<>>] BY <1>0, <2>2 DEF touch_init
    <3>2. BlocksOf(itab'[c.ino]) = {} /\ NoRepeat(itab'[c.ino]) BY <3>1, NoBlocks
    <3>3. c.op # "mkdir" BY <1>3, <2>2 DEF touch_init
    <3>. QED BY <3>1, <3>2, <3>3
  <2>. QED BY <2>1, <2>2
<1>8. TreeInv' BY <1>1, <1>5, <1>6, TreeSame DEF Good
<1>9. LiveWritten' BY <1>1, <1>5 DEF Good, LiveWritten
<1>10. Apart' BY <1>3, <1>4, <1>5, <1>7 DEF Good, Apart
<1>11. Marked' BY <1>1, <1>2, <1>4, <1>5, <1>7 DEF Marked
<1>12. Cwd' BY <1>1, <1>2, <1>5 DEF Cwd
<1>13. DiskCovers' BY <1>1, <1>5 DEF Good, DiskCovers, Committing, FlushPcs
<1>14. CreateHolds' BY <1>1, <1>3, <1>5, <1>6 DEF CreateHolds, Creating, Ent
<1>15. NewNode' BY <1>1, <1>7 DEF NewNode
<1>16. BlockHeld' /\ WriteHolds' BY <1>1 DEF BlockHeld, WriteHolds
<1>. QED BY <1>8, <1>9, <1>10, <1>11, <1>12, <1>13, <1>14, <1>15, <1>16 DEF Good

(* The block that will hold the entry: free before, so in no directory. *)
LEMMA AddBlockGood ==
  ASSUME Layout, Good, dir_add_entry_block
  PROVE  Good'
<1>0. /\ itab \in [Inodes -> Inode] /\ data \in [DataBlocks -> Block] /\ live \subseteq Inodes
      /\ c \in Call /\ \A i \in Inodes : BlocksOf(itab[i]) \subseteq DataBlocks
  BY InodeFacts
<1>1. PICK blk \in Blocks :
        /\ blk = LowestClear(FreeBlocks) /\ bbm' = bbm \cup {blk}
        /\ data' = [data EXCEPT ![blk] = [EmptyDirBlock EXCEPT !.ent[0] = NewDirent]]
        /\ c' = [c EXCEPT !.blk = blk]
  BY DEF dir_add_entry_block
<1>2. /\ pc = "dir_add_entry" /\ pc' = "dir_add_extent" /\ FreeBlocks # {}
      /\ itab' = itab /\ live' = live /\ dibm' = dibm /\ dbbm' = dbbm
      /\ ibm' = ibm /\ cwd' = cwd
  BY DEF dir_add_entry_block, CanGrowDir, hist
<1>3. /\ c'.blk = blk /\ c'.ino = c.ino /\ c'.parent = c.parent /\ c'.path = c.path
      /\ c'.op = c.op
  BY <1>0, <1>1 DEF Call
<1>4. blk \in DataBlocks \ bbm BY <1>1, <1>2, FreeBlockFacts
<1>5. /\ live \subseteq ibm /\ \A i \in Owners : BlocksOf(itab[i]) \subseteq bbm
      /\ cwd \in live /\ itab[cwd].mode = "dir"
  BY <1>2 DEF Good, Marked, Mounted, Writing, Cwd
<1>6. Owners' = Owners /\ Owners = live \cup {c.ino} BY <1>2, <1>3 DEF Owners, Built
<1>7. \A i \in Owners : blk \notin BlocksOf(itab[i]) BY <1>4, <1>5
<1>8. \A i \in Owners : \A b \in BlocksOf(itab[i]) : data'[b] = data[b]
  BY <1>1, <1>7, <1>0
<1>9. data'[blk] = [EmptyDirBlock EXCEPT !.ent[0] = NewDirent] BY <1>0, <1>1, <1>4
<1>10. NewDirent' = NewDirent BY <1>3 DEF NewDirent
<1>11. TreeInv' BY <1>2, <1>6, <1>8, TreeSame DEF Good
<1>12. LiveWritten' BY <1>2, <1>6 DEF Good, LiveWritten
<1>13. Apart' BY <1>2, <1>6 DEF Good, Apart
<1>14. Marked' BY <1>1, <1>2, <1>5, <1>6 DEF Marked
<1>15. Cwd' BY <1>2, <1>5 DEF Cwd
<1>16. DiskCovers' BY <1>2 DEF Good, DiskCovers, Committing, FlushPcs
<1>17. CreateHolds'
  <2>1. /\ c.op \in {"mkdir", "touch", "create"} /\ c.ino \in ibm \ live /\ c.parent \in live
        /\ itab[c.parent].mode = "dir" =>
             \A b \in BlocksOf(itab[c.parent]), s \in Slots :
               Ent(b, s).inode # NIL => Ent(b, s).name # c.path.name
    BY <1>2 DEF Good, CreateHolds, Creating
  <2>. QED BY <1>2, <1>3, <1>6, <1>8, <2>1 DEF CreateHolds, Creating, Ent
<1>18. NewNode'
  <2>1. IF c.op = "mkdir"
        THEN /\ itab[c.ino].mode = "dir" /\ BlocksOf(itab[c.ino]) # {}
             /\ \A b \in BlocksOf(itab[c.ino]) : data[b] = DirBlock(c.ino, c.parent)
        ELSE itab[c.ino] = [mode |-> "reg", extents |-> <<>>]
    BY <1>2 DEF Good, NewNode, Built
  <2>. QED BY <1>2, <1>3, <1>6, <1>8, <1>9, <1>10, <2>1 DEF NewNode
<1>19. BlockHeld' BY <1>1, <1>2, <1>3, <1>6, <1>7 DEF BlockHeld
<1>20. WriteHolds' BY <1>2 DEF WriteHolds
<1>. QED BY <1>11, <1>12, <1>13, <1>14, <1>15, <1>16, <1>17, <1>18, <1>19, <1>20 DEF Good

(* What the creations have before they write the entry. *)
LEMMA BuiltFacts ==
  ASSUME Layout, Good, Built
  PROVE  /\ c.ino \in Inodes /\ c.ino \in ibm /\ c.ino \notin live
         /\ c.parent \in live /\ c.parent \in Inodes
         /\ c.op \in {"mkdir", "touch", "create"}
         /\ Owners = live \cup {c.ino}
         /\ itab[c.parent].mode = "dir" =>
              \A b \in BlocksOf(itab[c.parent]), s \in Slots :
                Ent(b, s).inode # NIL => Ent(b, s).name # c.path.name
         /\ live \subseteq ibm /\ cwd \in live /\ itab[cwd].mode = "dir"
         /\ \A i \in live \cup {c.ino} : BlocksOf(itab[i]) \subseteq bbm
         /\ itab[c.ino].mode = "dir" =>
              /\ BlocksOf(itab[c.ino]) # {}
              /\ \A b \in BlocksOf(itab[c.ino]) : data[b] = DirBlock(c.ino, c.parent)
         /\ itab[c.ino].mode # "dir" => BlocksOf(itab[c.ino]) = {}
<1>1. c.ino \in Inodes /\ c.parent \in Inodes BY InodeFacts DEF Call
<1>2. Creating /\ Mounted /\ pc \notin {"mkdir_init", "touch_init", "write_loop"}
  BY DEF Built, Creating, Mounted
<1>3. /\ c.ino \in ibm /\ c.ino \notin live /\ c.parent \in live
      /\ c.op \in {"mkdir", "touch", "create"}
      /\ itab[c.parent].mode = "dir" =>
              \A b \in BlocksOf(itab[c.parent]), s \in Slots :
                Ent(b, s).inode # NIL => Ent(b, s).name # c.path.name
  BY <1>2 DEF Good, CreateHolds
<1>4. Owners = live \cup {c.ino} BY DEF Owners
<1>5. /\ live \subseteq ibm /\ cwd \in live /\ itab[cwd].mode = "dir"
      /\ \A i \in live \cup {c.ino} : BlocksOf(itab[i]) \subseteq bbm
  BY <1>2, <1>4 DEF Good, Marked, Cwd, Writing
<1>6. IF c.op = "mkdir"
      THEN /\ itab[c.ino].mode = "dir" /\ BlocksOf(itab[c.ino]) # {}
           /\ \A b \in BlocksOf(itab[c.ino]) : data[b] = DirBlock(c.ino, c.parent)
      ELSE itab[c.ino] = [mode |-> "reg", extents |-> <<>>]
  BY DEF Good, NewNode
<1>7. /\ itab[c.ino].mode = "dir" =>
              /\ BlocksOf(itab[c.ino]) # {}
              /\ \A b \in BlocksOf(itab[c.ino]) : data[b] = DirBlock(c.ino, c.parent)
      /\ itab[c.ino].mode # "dir" => BlocksOf(itab[c.ino]) = {}
  <2>1. CASE c.op = "mkdir" BY <1>6, <2>1
  <2>2. CASE c.op # "mkdir"
    <3>1. itab[c.ino].mode = "reg" /\ itab[c.ino].extents = <<>> BY <1>6, <2>2
    <3>2. BlocksOf(itab[c.ino]) = {} BY <3>1, NoBlocks
    <3>. QED BY <3>1, <3>2
  <2>. QED BY <2>1, <2>2
<1>. QED BY <1>1, <1>3, <1>4, <1>5, <1>7

(* The entry is written: what is left to show of the tree and the blocks. *)
LEMMA LinkStep ==
  ASSUME Layout, Good, Built, Linked, c' = c, ibm' = ibm, bbm' = bbm, cwd' = cwd,
         \A i \in live : itab'[i].mode = itab[i].mode,
         TreeInv', LiveWritten',
         \A i \in live \cup {c.ino} : NoRepeat(itab'[i]) /\ BlocksOf(itab'[i]) \subseteq bbm,
         \A i, j \in live \cup {c.ino} : i # j => BlocksOf(itab'[i]) \cap BlocksOf(itab'[j]) = {}
  PROVE  Good'
<1>1. pc' = "flush_sb" /\ live' = live \cup {c.ino} BY DEF Linked
<1>2. /\ c.ino \in ibm /\ c.op \in {"mkdir", "touch", "create"}
      /\ live \subseteq ibm /\ cwd \in live /\ itab[cwd].mode = "dir"
  BY BuiltFacts
<1>3. Owners' = live \cup {c.ino} BY <1>1 DEF Owners, Built
<1>4. Apart' BY <1>3 DEF Apart
<1>5. Marked' BY <1>1, <1>2, <1>3 DEF Marked
<1>6. Cwd' BY <1>1, <1>2 DEF Cwd
<1>7. DiskCovers' BY <1>1, <1>2 DEF DiskCovers, Committing, FlushPcs
<1>8. CreateHolds' /\ BlockHeld' /\ NewNode' /\ WriteHolds'
  BY <1>1 DEF CreateHolds, Creating, BlockHeld, NewNode, Built, WriteHolds
<1>. QED BY <1>4, <1>5, <1>6, <1>7, <1>8 DEF Good

(* dir_add_entry in a free slot: the directory gets one more entry, for    *)
(* the node that was just initialised.                                     *)
LEMMA AddSlotGood ==
  ASSUME Layout, Good, Sound', dir_add_entry_slot
  PROVE  Good' /\ Entered
<1>0. /\ itab \in [Inodes -> Inode] /\ data \in [DataBlocks -> Block] /\ live \subseteq Inodes
      /\ c \in Call
      /\ \A i \in Inodes : /\ itab[i] \in Inode /\ ExtentsInData(itab[i].extents)
                           /\ BlocksOf(itab[i]) \subseteq DataBlocks
  BY InodeFacts
<1>. DEFINE k == c.parent  j == c.ino  free == FreeCells(data, itab[k])
            p == FirstCell(free)  d == BlockAt(itab[k], p)  r == p[3]
<1>1. /\ pc = "dir_add_entry" /\ free # {} /\ Linked
      /\ data' = [data EXCEPT ![d].ent[r] = NewDirent]
      /\ itab' = itab /\ c' = c /\ ibm' = ibm /\ bbm' = bbm /\ cwd' = cwd
  BY DEF dir_add_entry_slot, ramVars
<1>2. Built BY <1>1 DEF Built
<1>3. itab[k].mode = "dir" BY <1>1 DEF Linked, LinkHarm, Sound
<1>4. /\ j \in Inodes /\ j \notin live /\ k \in live /\ k \in Inodes
      /\ \A b \in BlocksOf(itab[k]), s \in Slots :
           Ent(b, s).inode # NIL => Ent(b, s).name # c.path.name
      /\ Owners = live \cup {j}
      /\ \A i \in live \cup {j} : BlocksOf(itab[i]) \subseteq bbm
      /\ itab[j].mode = "dir" =>
           /\ BlocksOf(itab[j]) # {}
           /\ \A b \in BlocksOf(itab[j]) : data[b] = DirBlock(j, k)
      /\ itab[j].mode # "dir" => BlocksOf(itab[j]) = {}
  BY <1>2, <1>3, BuiltFacts
<1>5. p \in free
  <2>1. free \subseteq Nat \X Nat \X Nat BY <1>0, <1>4, CellFacts DEF FreeCells
  <2>. QED BY <1>1, <2>1, FirstCellIn
<1>6. d \in BlocksOf(itab[k]) /\ r \in Slots /\ data[d].ent[r].inode = NIL
  <2>1. p \in Cells(itab[k]) /\ EntryAt(data, itab[k], p).inode = NIL
    BY <1>5 DEF FreeCells
  <2>. QED BY <2>1, CellBlock DEF EntryAt
<1>. HIDE DEF k, j, p, d, r
<1>7. d \in DataBlocks BY <1>0, <1>4, <1>6
<1>8. data[d] \in Block /\ data[d].ent \in [Slots -> Dirent] BY <1>0, <1>7 DEF Block
<1>9. /\ data'[d].ent[r] = NewDirent
      /\ \A s \in Slots \ {r} : data'[d].ent[s] = data[d].ent[s]
      /\ \A b \in DataBlocks \ {d} : data'[b] = data[b]
  BY <1>0, <1>1, <1>6, <1>7, <1>8 DEF Block
<1>10. \A i \in live \cup {j} : i # k => d \notin BlocksOf(itab[i])
  BY <1>4, <1>6 DEF Good, Apart
<1>11. \A i \in live \cup {j} : i # k => \A b \in BlocksOf(itab[i]) : data'[b] = data[b]
  BY <1>0, <1>4, <1>9, <1>10
<1>12. live' = live \cup {j} BY <1>1 DEF Linked, j
<1>13. NewDirent.inode = j /\ NewDirent.name = c.path.name BY DEF NewDirent, j
<1>17. AddsEntry(k, j, d, r, c.path.name)
  <2>1. \A i \in live : itab[i].mode = "dir" =>
            \A b \in BlocksOf(itab[i]) \ {d} : data'[b].ent = data[b].ent
    BY <1>0, <1>9
  <2>2. BlocksOf(itab'[k]) = BlocksOf(itab[k]) \cup {d} BY <1>1, <1>6
  <2>3. itab'[j].mode = "dir" =>
            /\ BlocksOf(itab'[j]) # {} /\ BlocksOf(itab'[j]) \subseteq DataBlocks
            /\ \A b \in BlocksOf(itab'[j]) : data'[b] = DirBlock(j, k)
    <3>1. j # k BY <1>4
    <3>. QED BY <1>0, <1>1, <1>4, <1>11, <3>1
  <2>. QED
    BY <1>0, <1>1, <1>3, <1>4, <1>6, <1>9, <1>10, <1>12, <1>13, <2>1, <2>2, <2>3 DEF AddsEntry
<1>14. TreeInv' BY <1>0, <1>3, <1>4, <1>6, <1>7, <1>17, TreeAdd DEF Good
<1>15. LiveWritten'
  <2>1. itab[j].mode # "none" BY <1>2 DEF Good, NewNode, Built, j
  <2>. QED BY <1>1, <1>12, <2>1 DEF Good, LiveWritten
<1>16. /\ \A i \in live \cup {c.ino} : NoRepeat(itab'[i]) /\ BlocksOf(itab'[i]) \subseteq bbm
       /\ \A x, y \in live \cup {c.ino} : x # y => BlocksOf(itab'[x]) \cap BlocksOf(itab'[y]) = {}
  BY <1>1, <1>4 DEF Good, Apart, j
<1>18. Entered BY <1>3, <1>6, <1>7, <1>17 DEF Entered, k, j
<1>. QED BY <1>1, <1>2, <1>14, <1>15, <1>16, <1>18, LinkStep

(* dir_add_entry in a new block: the block is linked with the one entry in *)
(* it.                                                                     *)
LEMMA AddExtentGood ==
  ASSUME Layout, Good, Sound', dir_add_extent
  PROVE  Good' /\ Entered
<1>0. /\ itab \in [Inodes -> Inode] /\ data \in [DataBlocks -> Block] /\ live \subseteq Inodes
      /\ c \in Call
      /\ \A i \in Inodes : /\ itab[i] \in Inode /\ ExtentsInData(itab[i].extents)
                           /\ BlocksOf(itab[i]) \subseteq DataBlocks
  BY InodeFacts
<1>. DEFINE k == c.parent  j == c.ino  d == c.blk
<1>1. /\ pc = "dir_add_extent" /\ Linked /\ data' = data
      /\ itab' = [itab EXCEPT ![k].extents = Append(@, OneBlock(d))]
      /\ c' = c /\ ibm' = ibm /\ bbm' = bbm /\ cwd' = cwd
  BY DEF dir_add_extent, ramVars
<1>2. Built BY <1>1 DEF Built
<1>3. itab[k].mode = "dir" BY <1>1 DEF Linked, LinkHarm, Sound
<1>4. /\ j \in Inodes /\ j \notin live /\ k \in live /\ k \in Inodes
      /\ \A b \in BlocksOf(itab[k]), s \in Slots :
           Ent(b, s).inode # NIL => Ent(b, s).name # c.path.name
      /\ Owners = live \cup {j}
      /\ \A i \in live \cup {j} : BlocksOf(itab[i]) \subseteq bbm
      /\ itab[j].mode = "dir" =>
           /\ BlocksOf(itab[j]) # {}
           /\ \A b \in BlocksOf(itab[j]) : data[b] = DirBlock(j, k)
      /\ itab[j].mode # "dir" => BlocksOf(itab[j]) = {}
  BY <1>2, <1>3, BuiltFacts
<1>5. d \in DataBlocks BY <1>1 DEF Layout, CallWellFormed
<1>6. d \in bbm /\ \A i \in live \cup {j} : d \notin BlocksOf(itab[i])
  BY <1>1, <1>4 DEF Good, BlockHeld
<1>7. data[d] = [EmptyDirBlock EXCEPT !.ent[0] = NewDirent] BY <1>1 DEF Good, NewNode
<1>8. 0 \in Slots BY GeometryAssumption DEF Slots
<1>9. /\ NewDirent.inode = j /\ NewDirent.name = c.path.name BY DEF NewDirent
<1>10. /\ data[d].ent[0] = NewDirent
       /\ \A s \in Slots \ {0} : data[d].ent[s].inode = NIL
  <2>1. /\ EmptyDirBlock.ent \in [Slots -> {FreeDirent}]
        /\ \A s \in Slots : EmptyDirBlock.ent[s] = FreeDirent
    BY DEF EmptyDirBlock
  <2>2. data[d].ent = [EmptyDirBlock.ent EXCEPT ![0] = NewDirent]
    BY <1>7 DEF EmptyDirBlock
  <2>3. FreeDirent.inode = NIL BY DEF FreeDirent
  <2>. QED BY <1>8, <2>1, <2>2, <2>3
<1>. HIDE DEF k, j, d
<1>11. /\ itab'[k].extents = Append(itab[k].extents, OneBlock(d))
       /\ itab'[k].mode = "dir" /\ \A i \in Inodes \ {k} : itab'[i] = itab[i]
  BY <1>0, <1>1, <1>3, <1>4 DEF Inode
<1>12. GrowsBy(itab[k], itab'[k], d)
  <2>1. itab[k].extents \in Seq(Extent) /\ ExtentsInData(itab[k].extents)
    BY <1>0, <1>4 DEF Inode
  <2>. QED BY <1>5, <1>11, <2>1, AppendPos
<1>13. BlocksOf(itab'[k]) = BlocksOf(itab[k]) \cup {d} /\ NoRepeat(itab'[k])
  BY <1>4, <1>6, <1>12, OneMoreBlock DEF Good, Apart
<1>14. live' = live \cup {j} BY <1>1 DEF Linked, j
<1>15. \A i \in live : itab'[i].mode = itab[i].mode BY <1>0, <1>3, <1>11
<1>19. AddsEntry(k, j, d, 0, c.path.name)
  <2>1. itab'[j].mode = "dir" =>
            /\ BlocksOf(itab'[j]) # {} /\ BlocksOf(itab'[j]) \subseteq DataBlocks
            /\ \A b \in BlocksOf(itab'[j]) : data'[b] = DirBlock(j, k)
    <3>1. itab'[j] = itab[j] BY <1>4, <1>11
    <3>. QED BY <1>0, <1>1, <1>4, <3>1
  <2>2. \A i \in live : itab[i].mode = "dir" /\ i # k =>
            BlocksOf(itab'[i]) = BlocksOf(itab[i]) /\ d \notin BlocksOf(itab[i])
    BY <1>0, <1>6, <1>11
  <2>3. d \notin BlocksOf(itab[k]) BY <1>4, <1>6
  <2>4. \A i \in live : \A b \in BlocksOf(itab[i]) : data'[b] = data[b] BY <1>1
  <2>. QED
    BY <1>1, <1>4, <1>9, <1>10, <1>13, <1>14, <1>15, <2>1, <2>2, <2>3, <2>4 DEF AddsEntry
<1>16. TreeInv' BY <1>0, <1>3, <1>4, <1>5, <1>8, <1>19, TreeAdd DEF Good
<1>17. LiveWritten'
  <2>1. itab[j].mode # "none" BY <1>2 DEF Good, NewNode, Built, j
  <2>2. \A i \in live \cup {j} : itab[i].mode # "none" /\ itab'[i].mode = itab[i].mode
    BY <1>0, <1>3, <1>4, <1>11, <2>1 DEF Good, LiveWritten
  <2>. QED BY <1>14, <2>2 DEF LiveWritten
<1>18. /\ \A i \in live \cup {j} : NoRepeat(itab'[i]) /\ BlocksOf(itab'[i]) \subseteq bbm
       /\ \A x, y \in live \cup {j} : x # y => BlocksOf(itab'[x]) \cap BlocksOf(itab'[y]) = {}
  <2>1. /\ \A i \in live \cup {j} : NoRepeat(itab[i])
        /\ \A x, y \in live \cup {j} : x # y => BlocksOf(itab[x]) \cap BlocksOf(itab[y]) = {}
    BY <1>4 DEF Good, Apart
  <2>2. \A i \in live \cup {j} : i # k => itab'[i] = itab[i] BY <1>0, <1>4, <1>11
  <2>. QED BY <1>4, <1>6, <1>13, <2>1, <2>2
<1>20. Entered BY <1>3, <1>5, <1>8, <1>19 DEF Entered, k, j
<1>. QED BY <1>1, <1>2, <1>15, <1>16, <1>17, <1>18, <1>20, LinkStep DEF j

(* A block joins the file being written: it was free, so it is in no other *)
(* live inode; it may have been the file's own before.                     *)
LEMMA WriteLoopGood ==
  ASSUME Layout, Good, write_loop
  PROVE  Good'
<1>0. /\ itab \in [Inodes -> Inode] /\ data \in [DataBlocks -> Block] /\ live \subseteq Inodes
      /\ c \in Call /\ \A i \in Inodes : BlocksOf(itab[i]) \subseteq DataBlocks
  BY InodeFacts
<1>1. PICK blk \in Blocks :
        /\ blk = LowestClear(FreeBlocks) /\ bbm' = bbm \cup {blk}
        /\ data' = [data EXCEPT ![blk] = FileBlock(c.val)]
        /\ c' = [c EXCEPT !.left = @ - 1, !.ext = GrowExtents(@, blk)]
  BY DEF write_loop
<1>2. /\ pc = "write_loop" /\ pc' = "write_loop" /\ FreeBlocks # {} /\ Len(c.ext) < MaxExtents
      /\ itab' = itab /\ live' = live /\ dibm' = dibm /\ dbbm' = dbbm
      /\ ibm' = ibm /\ cwd' = cwd
  BY DEF write_loop, Writable, hist
<1>3. c'.op = c.op /\ c'.ino = c.ino /\ c'.ext = GrowExtents(c.ext, blk)
  BY <1>0, <1>1 DEF Call
<1>4. blk \in DataBlocks \ bbm BY <1>1, <1>2, FreeBlockFacts
<1>5. /\ c.op = "write" /\ c.ino \in live /\ itab[c.ino].mode # "dir"
      /\ BlocksOf(NewFile) \subseteq bbm /\ NoRepeat(NewFile)
      /\ \A i \in live \ {c.ino} : BlocksOf(NewFile) \cap BlocksOf(itab[i]) = {}
  BY <1>2 DEF Good, WriteHolds
<1>6. /\ live \subseteq ibm /\ cwd \in live /\ itab[cwd].mode = "dir"
      /\ \A i \in live \ {c.ino} : BlocksOf(itab[i]) \subseteq bbm
  BY <1>2 DEF Good, Marked, Mounted, Owners, Writing, Cwd
<1>7. \A i \in live \ {c.ino} : blk \notin BlocksOf(itab[i]) BY <1>4, <1>6
<1>8. /\ data'[blk] = FileBlock(c.val) /\ \A b \in DataBlocks \ {blk} : data'[b] = data[b]
  BY <1>0, <1>1, <1>4
<1>9. \A i \in live \ {c.ino} : \A b \in BlocksOf(itab[i]) : data'[b] = data[b]
  BY <1>0, <1>7, <1>8
<1>10. Owners' = live /\ Owners = live BY <1>2 DEF Owners, Built
<1>11. GrowsBy(NewFile, NewFile', blk)
  <2>1. /\ NewFile.extents = c.ext /\ NewFile'.extents = GrowExtents(NewFile.extents, blk)
        /\ NewFile.extents \in Seq(Extent)
    BY <1>0, <1>3 DEF NewFile, Call
  <2>2. ExtentsInData(NewFile.extents) BY <2>1 DEF Layout, CallWellFormed
  <2>. HIDE DEF NewFile
  <2>. QED BY <1>4, <2>1, <2>2, GrowPos
<1>12. BlocksOf(NewFile') = BlocksOf(NewFile) \cup {blk} /\ NoRepeat(NewFile')
  BY <1>4, <1>5, <1>11, OneMoreBlock
<1>13. TreeInv'
  <2>1. \A i \in live : itab[i].mode = "dir" =>
            /\ BlocksOf(itab'[i]) = BlocksOf(itab[i])
            /\ \A b \in BlocksOf(itab[i]) : data'[b].ent = data[b].ent
    BY <1>2, <1>5, <1>9
  <2>. QED BY <1>2, <2>1, TreeSame DEF Good
<1>14. LiveWritten' BY <1>2 DEF Good, LiveWritten
<1>15. Apart' BY <1>2, <1>10 DEF Good, Apart
<1>16. Marked' BY <1>1, <1>2, <1>3, <1>6, <1>10 DEF Marked, Writing
<1>17. Cwd' BY <1>2, <1>6 DEF Cwd
<1>18. DiskCovers' BY <1>2 DEF Good, DiskCovers, Committing, FlushPcs
<1>19. WriteHolds'
  <2>2. \A i \in live \ {c.ino} : BlocksOf(NewFile') \cap BlocksOf(itab[i]) = {}
    BY <1>5, <1>7, <1>12
  <2>3. BlocksOf(NewFile') \subseteq bbm' BY <1>1, <1>5, <1>12
  <2>. QED BY <1>2, <1>3, <1>5, <1>12, <2>2, <2>3 DEF WriteHolds
<1>20. CreateHolds' /\ BlockHeld' /\ NewNode'
  BY <1>2 DEF CreateHolds, Creating, BlockHeld, NewNode, Built
<1>. QED BY <1>13, <1>14, <1>15, <1>16, <1>17, <1>18, <1>19, <1>20 DEF Good

(* The inode is written with its new extents. *)
LEMMA WriteInodeGood ==
  ASSUME Layout, Good, write_inode
  PROVE  Good'
<1>0. /\ itab \in [Inodes -> Inode] /\ live \subseteq Inodes /\ c.ino \in Inodes
  BY InodeFacts DEF Call
<1>1. /\ pc = "write_loop" /\ pc' = "flush_sb" /\ itab' = [itab EXCEPT ![c.ino].extents = c.ext]
      /\ data' = data /\ live' = live /\ dibm' = dibm /\ dbbm' = dbbm /\ c' = c
      /\ ibm' = ibm /\ bbm' = bbm /\ cwd' = cwd
  BY DEF write_inode, ramVars
<1>2. /\ c.op = "write" /\ c.ino \in live /\ itab[c.ino].mode # "dir"
      /\ BlocksOf(NewFile) \subseteq bbm /\ NoRepeat(NewFile)
      /\ \A i \in live \ {c.ino} : BlocksOf(NewFile) \cap BlocksOf(itab[i]) = {}
  BY <1>1 DEF Good, WriteHolds
<1>3. /\ live \subseteq ibm /\ cwd \in live /\ itab[cwd].mode = "dir"
      /\ \A i \in live \ {c.ino} : BlocksOf(itab[i]) \subseteq bbm
  BY <1>1 DEF Good, Marked, Mounted, Owners, Writing, Cwd
<1>4. /\ itab'[c.ino].extents = c.ext /\ itab'[c.ino].mode = itab[c.ino].mode
      /\ \A i \in Inodes \ {c.ino} : itab'[i] = itab[i]
  BY <1>0, <1>1 DEF Inode
<1>5. BlocksOf(itab'[c.ino]) = BlocksOf(NewFile) /\ NoRepeat(itab'[c.ino])
  BY <1>2, <1>4, SameExtents DEF NewFile
<1>6. \A i \in live \ {c.ino} : itab'[i] = itab[i] BY <1>0, <1>4
<1>7. Owners' = live /\ Owners = live BY <1>1 DEF Owners, Built
<1>8. TreeInv'
  <2>1. \A i \in live : itab'[i].mode = itab[i].mode BY <1>4, <1>6
  <2>2. \A i \in live : itab[i].mode = "dir" =>
            /\ BlocksOf(itab'[i]) = BlocksOf(itab[i])
            /\ \A b \in BlocksOf(itab[i]) : data'[b].ent = data[b].ent
    BY <1>1, <1>2, <1>6
  <2>. QED BY <1>1, <2>1, <2>2, TreeSame DEF Good
<1>9. LiveWritten'
  <2>1. \A i \in live : itab'[i].mode = itab[i].mode BY <1>4, <1>6
  <2>. QED BY <1>1, <2>1 DEF Good, LiveWritten
<1>10. Apart'
  <2>1. /\ \A i \in live : NoRepeat(itab[i])
        /\ \A x, y \in live : x # y => BlocksOf(itab[x]) \cap BlocksOf(itab[y]) = {}
    BY <1>7 DEF Good, Apart
  <2>. QED BY <1>2, <1>5, <1>6, <1>7, <2>1 DEF Apart
<1>11. Marked' BY <1>1, <1>2, <1>3, <1>5, <1>6, <1>7 DEF Marked
<1>12. Cwd'
  <2>1. itab'[cwd].mode = "dir" BY <1>2, <1>3, <1>6
  <2>. QED BY <1>1, <1>3, <2>1 DEF Cwd
<1>13. DiskCovers' BY <1>1, <1>2 DEF DiskCovers, Committing, FlushPcs
<1>14. CreateHolds' /\ BlockHeld' /\ NewNode' /\ WriteHolds'
  BY <1>1 DEF CreateHolds, Creating, BlockHeld, NewNode, Built, WriteHolds
<1>. QED BY <1>8, <1>9, <1>10, <1>11, <1>12, <1>13, <1>14 DEF Good

(* zeros_rm through an ordinary name: the entry it erases is the one it    *)
(* found, and the only one of the inode it frees.                          *)
LEMMA RmFacts ==
  ASSUME Layout, Good, NEW p \in Path, p.name \in Names, pc = "idle", ~ThroughFile(p),
         Removable(Resolve(p))
  PROVE  \E k \in live, d \in DataBlocks, r \in Slots :
           /\ Resolve(p) \in live /\ IsLink(k, d, r) /\ Ent(d, r).inode = Resolve(p)
           /\ Erased(p) = [data EXCEPT ![d].ent[r] = FreeDirent]
           /\ k = Parent(p) /\ Ent(d, r).name = p.name
           /\ itab[Resolve(p)].mode = "dir" =>
                \A b \in BlocksOf(itab[Resolve(p)]), s \in Slots :
                   Ent(b, s).inode # NIL => Ent(b, s).name \in {".", ".."}
<1>0. /\ itab \in [Inodes -> Inode] /\ data \in [DataBlocks -> Block] /\ live \subseteq Inodes
      /\ \A i \in Inodes : /\ itab[i] \in Inode /\ ExtentsInData(itab[i].extents)
                           /\ BlocksOf(itab[i]) \subseteq DataBlocks
  BY InodeFacts
<1>. DEFINE j == Resolve(p)  k == Parent(p)  n == itab[k]
            hits == CellsNamed(data, n, p.name)  f == FirstCell(hits)
<1>1. j # NIL /\ (itab[j].mode = "dir" => dir_is_empty(itab, data, j))
  BY RootInodes DEF Removable, Readable
<1>2. k \in live \cup {NIL} /\ j \in live \cup {NIL}
  BY ResolveLive DEF Good, Cwd, Mounted
<1>. DEFINE blank == p.name = ""
<1>3. ~blank /\ p.name \notin {".", ".."} BY NamesAssumption
<1>4. k # NIL /\ itab[k].mode = "dir" /\ j = dir_lookup(itab, data, k, p.name)
  <2>1. j = IF blank \/ ~Readable(itab, k) THEN k ELSE dir_lookup(itab, data, k, p.name)
    BY DEF Resolve, Parent, resolve_path
  <2>2. Readable(itab, k) /\ ~blank => itab[k].mode = "dir" BY DEF ThroughFile
  <2>3. \A i \in live : Readable(itab, i) BY <1>0 DEF Readable, Good, LiveWritten
  <2>4. ~Readable(itab, NIL) BY RootInodes DEF Readable
  <2>. HIDE DEF blank, j, k
  <2>. QED BY <1>1, <1>2, <1>3, <2>1, <2>2, <2>3, <2>4
<1>. HIDE DEF blank
<1>5. k \in live /\ j \in live BY <1>1, <1>2, <1>4
<1>6. n \in Inode /\ ExtentsInData(n.extents) BY <1>0, <1>5
<1>7. hits # {} /\ j = EntryAt(data, n, f).inode BY <1>1, <1>4 DEF dir_lookup
<1>8. f \in hits
  <2>1. hits \subseteq Nat \X Nat \X Nat BY <1>6, CellFacts DEF CellsNamed
  <2>. QED BY <1>7, <2>1, FirstCellIn
<1>9. f \in Cells(n) /\ EntryAt(data, n, f).name = p.name BY <1>8 DEF CellsNamed
<1>10. Erased(p) = [data EXCEPT ![BlockAt(n, f)].ent[f[3]] = FreeDirent]
  BY <1>7 DEF Erased
<1>. DEFINE d == BlockAt(n, f)  r == f[3]
<1>11. d \in BlocksOf(n) /\ r \in Slots BY <1>9, CellBlock
<1>12. d \in DataBlocks BY <1>0, <1>5, <1>11
<1>13. Ent(d, r).inode = j /\ Ent(d, r).name = p.name BY <1>7, <1>9 DEF Ent, EntryAt
<1>14. itab[k].mode = "dir" BY <1>4
<1>15. IsLink(k, d, r)
  <2>. HIDE DEF d, r, j
  <2>. QED BY <1>1, <1>3, <1>5, <1>11, <1>13, <1>14 DEF IsLink, Used
<1>16. ASSUME itab[j].mode = "dir", NEW b \in BlocksOf(itab[j]), NEW s \in Slots,
              Ent(b, s).inode # NIL
       PROVE  Ent(b, s).name \in {".", ".."}
  <2>1. PICK q \in Cells(itab[j]) : BlockAt(itab[j], q) = b /\ q[3] = s
    BY <1>16, BlockCell
  <2>2. EntryAt(data, itab[j], q) = Ent(b, s) BY <2>1 DEF EntryAt, Ent
  <2>. QED BY <1>1, <1>16, <2>1, <2>2 DEF dir_is_empty
<1>. HIDE DEF d, r, j, k
<1>17. Erased(p) = [data EXCEPT ![d].ent[r] = FreeDirent] BY <1>10 DEF d, r
<1>18. \E x \in live, y \in DataBlocks, z \in Slots :
           /\ j \in live /\ IsLink(x, y, z) /\ Ent(y, z).inode = j
           /\ Erased(p) = [data EXCEPT ![y].ent[z] = FreeDirent]
           /\ x = k /\ Ent(y, z).name = p.name
           /\ itab[j].mode = "dir" =>
                \A b \in BlocksOf(itab[j]), s \in Slots :
                   Ent(b, s).inode # NIL => Ent(b, s).name \in {".", ".."}
  <2>1. \A b \in BlocksOf(itab[j]), s \in Slots :
          itab[j].mode = "dir" /\ Ent(b, s).inode # NIL => Ent(b, s).name \in {".", ".."}
    BY <1>16
  <2>. QED BY <1>5, <1>11, <1>12, <1>13, <1>15, <1>17, <2>1
<1>. QED BY <1>18 DEF j, k

(* zeros_rm of a file or an empty directory: no other entry names it, and  *)
(* no other inode has its blocks.                                          *)
LEMMA RmGood ==
  ASSUME Layout, Good, Sound', NEW p \in Paths, zeros_rm(p)
  PROVE  Good'
<1>0. /\ itab \in [Inodes -> Inode] /\ data \in [DataBlocks -> Block] /\ live \subseteq Inodes
      /\ \A i \in Inodes : BlocksOf(itab[i]) \subseteq DataBlocks
  BY InodeFacts
<1>1. p \in Path BY MountAssumption
<1>2. PICK j : j = Resolve(p) OBVIOUS
<1>3. /\ pc = "idle" /\ pc' = "flush_sb" /\ Removable(j) /\ bbm' = bbm \ BlocksOf(itab[j])
      /\ ibm' = ibm \ {j} /\ data' = Erased(p) /\ c' = [NoCall EXCEPT !.op = "rm"]
      /\ live' = live \ {j} /\ itab' = itab /\ dibm' = dibm /\ dbbm' = dbbm /\ cwd' = cwd
  BY <1>2 DEF zeros_rm, Release
<1>4. p.name \in Names /\ ~ThroughFile(p) BY DEF zeros_rm, PathHarm, Sound
<1>5. PICK k \in live, d \in DataBlocks, r \in Slots :
           /\ j \in live /\ IsLink(k, d, r) /\ Ent(d, r).inode = j
           /\ data' = [data EXCEPT ![d].ent[r] = FreeDirent]
           /\ itab[j].mode = "dir" =>
                \A b \in BlocksOf(itab[j]), s \in Slots :
                   Ent(b, s).inode # NIL => Ent(b, s).name \in {".", ".."}
  BY <1>1, <1>2, <1>3, <1>4, RmFacts
<1>6. itab[k].mode = "dir" /\ d \in BlocksOf(itab[k]) BY <1>5 DEF IsLink, Used
<1>7. data[d] \in Block /\ data[d].ent \in [Slots -> Dirent] BY <1>0 DEF Block
<1>8. /\ data'[d].ent[r] = FreeDirent
      /\ \A s \in Slots \ {r} : data'[d].ent[s] = data[d].ent[s]
      /\ \A b \in DataBlocks \ {d} : data'[b] = data[b]
  BY <1>0, <1>5, <1>7 DEF Block
<1>9. data'[d].ent[r].inode = NIL
  <2>1. FreeDirent.inode = NIL BY DEF FreeDirent
  <2>. QED BY <1>8, <2>1
<1>10. TreeInv'
  <2>1. \A i \in live : itab[i].mode = "dir" =>
            \A b \in BlocksOf(itab[i]), s \in Slots :
               ~(b = d /\ s = r) => data'[b].ent[s] = data[b].ent[s]
    BY <1>0, <1>8
  <2>. QED BY <1>3, <1>5, <1>9, <2>1, TreeRemove DEF Good
<1>11. Owners' = live' /\ live' \subseteq Owners BY <1>3 DEF Owners, Built
<1>12. \A x, y \in live : x # y => BlocksOf(itab[x]) \cap BlocksOf(itab[y]) = {}
  BY DEF Good, Apart, Owners
<1>13. LiveWritten' BY <1>3 DEF Good, LiveWritten
<1>14. Apart' BY <1>3, <1>11 DEF Good, Apart
<1>15. /\ live \subseteq ibm /\ \A i \in live : BlocksOf(itab[i]) \subseteq bbm
       /\ cwd \in live /\ itab[cwd].mode = "dir"
  BY <1>3, NotWriting DEF Mounted
<1>16. Marked' BY <1>3, <1>5, <1>11, <1>12, <1>15 DEF Marked
<1>17. Cwd' BY <1>3, <1>15 DEF Cwd, Removable
<1>18. DiskCovers' BY <1>3 DEF Good, DiskCovers, Committing, FlushPcs
<1>19. CreateHolds' /\ BlockHeld' /\ NewNode' /\ WriteHolds'
  BY <1>3 DEF CreateHolds, Creating, BlockHeld, NewNode, Built, WriteHolds
<1>. QED BY <1>10, <1>13, <1>14, <1>16, <1>17, <1>18, <1>19 DEF Good

-----------------------------------------------------------------------------
(* Damage is never undone. *)
LEMMA HarmGrows == [Next]_vars => harm \subseteq harm'
<1>. SUFFICES ASSUME [Next]_vars PROVE harm \subseteq harm' OBVIOUS
<1>1. CASE ApiCall
  BY <1>1 DEF ApiCall, zeros_mount_open, zeros_mount_close, zeros_cd, zeros_mkdir,
     zeros_mkdir_disk_full, zeros_touch, CreateFile, zeros_rm, zeros_write_file, StartWrite,
     astray, Abandon, hist
<1>2. CASE Progress
  BY <1>2 DEF Progress, mkdir_init, touch_init, dir_add_entry_slot, dir_add_entry_block,
     dir_add_extent, dir_add_entry_fails, write_loop, write_fails, write_inode,
     flush_sb, flush_ibm, flush_bbm, StartWrite, Linked, Abandon, hist
<1>3. CASE Crash BY <1>3 DEF Crash
<1>4. CASE UNCHANGED vars BY <1>4 DEF vars
<1>. QED BY <1>1, <1>2, <1>3, <1>4 DEF Next

(* A formatted disk is good. *)
LEMMA InitGood == Init => GoodInv
<1>. SUFFICES ASSUME Init PROVE Good BY InitLayout DEF GoodInv
<1>0. Layout BY InitLayout
<1>1. DataStart \in DataBlocks BY GeometryAssumption DEF DataBlocks
<1>2. /\ live = {ROOT} /\ itab[ROOT].mode = "dir" /\ itab[ROOT].extents = <<OneBlock(DataStart)>>
      /\ data[DataStart] = DirBlock(ROOT, ROOT) /\ pc = "unmounted" /\ dibm = {ROOT}
      /\ dbbm = MetaBlocks \cup {DataStart}
  BY <1>1, RootInodes DEF Init
<1>3. BlocksOf(itab[ROOT]) = {DataStart} /\ NoRepeat(itab[ROOT]) BY <1>1, <1>2, SingleBlock
<1>4. \A b \in DataBlocks, s \in Slots : Used(ROOT, b, s) =>
        /\ b = DataStart
        /\ \/ Ent(b, s).name = "." /\ Ent(b, s).inode = ROOT
           \/ Ent(b, s).name = ".." /\ Ent(b, s).inode = ROOT
  <2>. SUFFICES ASSUME NEW b \in DataBlocks, NEW s \in Slots, Used(ROOT, b, s)
                PROVE  /\ b = DataStart
                       /\ \/ Ent(b, s).name = "." /\ Ent(b, s).inode = ROOT
                          \/ Ent(b, s).name = ".." /\ Ent(b, s).inode = ROOT
    OBVIOUS
  <2>1. b = DataStart /\ Ent(b, s).inode # NIL BY <1>3 DEF Used
  <2>2. Ent(b, s) = DirBlock(ROOT, ROOT).ent[s] BY <1>2, <2>1 DEF Ent
  <2>. QED BY <2>1, <2>2, DirBlockEntries, RootInodes
<1>5. \A b \in DataBlocks, s \in Slots : ~IsLink(ROOT, b, s) BY <1>4 DEF IsLink
<1>6. \A n \in {".", ".."} : \E b \in DataBlocks, s \in Slots :
        Used(ROOT, b, s) /\ Ent(b, s).name = n
  <2>1. 0 \in Slots /\ 1 \in Slots BY GeometryAssumption DEF Slots
  <2>2. /\ Ent(DataStart, 0).inode = ROOT /\ Ent(DataStart, 0).name = "."
        /\ Ent(DataStart, 1).inode = ROOT /\ Ent(DataStart, 1).name = ".."
    BY <1>2, <2>1, DirBlockEntries, RootInodes DEF Ent
  <2>3. Used(ROOT, DataStart, 0) /\ Used(ROOT, DataStart, 1)
    BY <1>2, <1>3, <2>1, <2>2, RootInodes DEF Used
  <2>. QED BY <1>1, <2>1, <2>2, <2>3
<1>7. TreeLinks BY <1>2, <1>5 DEF TreeLinks
<1>8. TreeDots BY <1>2, <1>4, <1>6 DEF TreeDots
<1>9. LiveWritten BY <1>2 DEF LiveWritten
<1>10. Owners = {ROOT} BY <1>2 DEF Owners, Built
<1>11. Apart BY <1>3, <1>10 DEF Apart
<1>12. Marked /\ Cwd BY <1>2 DEF Marked, Cwd, Mounted
<1>13. DiskCovers BY <1>2, <1>3 DEF DiskCovers
<1>14. CreateHolds /\ BlockHeld /\ NewNode /\ WriteHolds
  BY <1>2 DEF CreateHolds, Creating, BlockHeld, NewNode, Built, WriteHolds
<1>. QED BY <1>2, <1>7, <1>8, <1>9, <1>11, <1>12, <1>13, <1>14 DEF Good, TreeInv

(* Every step keeps the disk good as long as none of the damage the        *)
(* specification names has happened.                                       *)
LEMMA NextGood ==
  ASSUME GoodInv, [Next]_vars, Sound' PROVE Good'
<1>0. Good /\ Layout BY HarmGrows DEF GoodInv, Sound
<1>1. CASE ApiCall
  <2>1. CASE zeros_mount_open BY <1>0, <2>1, OpenGood
  <2>2. CASE zeros_mount_close BY <1>0, <2>2, FlushGood
  <2>3. ASSUME NEW p \in Paths, zeros_cd(p) PROVE Good'
    <3>1. ~ThroughFile(p) BY <2>3 DEF zeros_cd, PathHarm, Sound
    <3>. QED BY <1>0, <2>3, <3>1, CdGood
  <2>9. ASSUME NEW p \in Paths PROVE ~astray(p) BY <1>0, NoStray
  <2>4. ASSUME NEW p \in Paths, zeros_mkdir(p) PROVE Good' BY <1>0, <2>4, MkdirGood
  <2>5. ASSUME NEW p \in Paths, zeros_mkdir_disk_full(p) PROVE Good'
    BY <1>0, <2>5, AbandonGood
  <2>6. ASSUME NEW p \in Paths, zeros_touch(p) PROVE Good'
    BY <1>0, <2>6, CreateGood DEF zeros_touch
  <2>7. ASSUME NEW p \in Paths, zeros_rm(p) PROVE Good' BY <1>0, <2>7, RmGood
  <2>8. ASSUME NEW p \in Paths, NEW v \in Vals, NEW n \in 0 .. MaxLen,
               zeros_write_file(p, v, n)
        PROVE  Good'
    BY <1>0, <2>8, WriteFileGood
  <2>. QED BY <1>1, <2>1, <2>2, <2>3, <2>4, <2>5, <2>6, <2>7, <2>8, <2>9 DEF ApiCall
<1>2. CASE Progress
  BY <1>0, <1>2, InitInodeGood, AddSlotGood, AddBlockGood, AddExtentGood, AbandonGood,
     WriteLoopGood, WriteInodeGood, FlushGood, FlushBbmGood DEF Progress
<1>3. CASE Crash BY <1>0, <1>3, CrashGood
<1>4. CASE UNCHANGED vars
  <2>1. /\ itab' = itab /\ data' = data /\ live' = live /\ pc' = pc /\ c' = c /\ ibm' = ibm
        /\ bbm' = bbm /\ dibm' = dibm /\ dbbm' = dbbm /\ cwd' = cwd
    BY <1>4 DEF vars
  <2>2. TreeInv' /\ LiveWritten' BY <1>0, <2>1, DiskSame DEF Good
  <2>3. Apart' /\ Marked' /\ DiskCovers' /\ Cwd'
    BY <1>0, <2>1 DEF Good, Apart, Owners, Built, Marked, Mounted, Writing, DiskCovers,
                      Committing, Cwd
  <2>4. CreateHolds' /\ BlockHeld' /\ NewNode' /\ WriteHolds'
    BY <1>0, <2>1 DEF Good, CreateHolds, Creating, BlockHeld, NewNode, Built, WriteHolds,
                      NewFile, NewDirent, Owners, Ent
  <2>. QED BY <2>2, <2>3, <2>4 DEF Good
<1>. QED BY <1>1, <1>2, <1>3, <1>4 DEF Next

(* A step that goes astray does so through the bytes of a file. *)
LEMMA NextStrays ==
  ASSUME LayoutUntilAstray, GoodInv, StraysOnlyThroughDamage, [Next]_vars
  PROVE  StraysOnlyThroughDamage'
<1>. SUFFICES ASSUME Sound' PROVE "stray" \notin harm'
  BY DEF StraysOnlyThroughDamage, Sound
<1>0. "stray" \notin harm /\ Good /\ Layout
  BY HarmGrows DEF StraysOnlyThroughDamage, GoodInv, Sound
<1>1. CASE UNCHANGED vars BY <1>0, <1>1 DEF vars
<1>2. CASE Next /\ InTable BY <1>2, StrayStep DEF LayoutUntilAstray
<1>3. CASE Next /\ ~InTable BY <1>0, <1>3, NoStray DEF InTable
<1>. QED BY <1>1, <1>2, <1>3

(* The inductive invariant behind the theorems below: whatever calls, *)
(* failures and crashes there are, as long as nothing is torn (harm) the   *)
(* tree, the owners of the blocks and the bitmaps agree.                   *)
THEOREM GoodInvariant == Spec => [](GoodInv /\ StraysOnlyThroughDamage)
<1>1. Init => GoodInv /\ StraysOnlyThroughDamage
  BY InitGood DEF Init, StraysOnlyThroughDamage
<1>2. LayoutUntilAstray /\ LayoutUntilAstray' /\ GoodInv /\ StraysOnlyThroughDamage /\ [Next]_vars
        => GoodInv' /\ StraysOnlyThroughDamage'
  <2>. SUFFICES ASSUME LayoutUntilAstray, LayoutUntilAstray', GoodInv,
                       StraysOnlyThroughDamage, [Next]_vars
                PROVE  GoodInv' /\ StraysOnlyThroughDamage'
    OBVIOUS
  <2>1. StraysOnlyThroughDamage' BY NextStrays
  <2>2. Sound' => Layout'
    BY <2>1 DEF LayoutUntilAstray, StraysOnlyThroughDamage, Sound
  <2>3. Sound' => Good' BY NextGood
  <2>. QED BY <2>1, <2>2, <2>3 DEF GoodInv
<1>. QED BY <1>1, <1>2, LayoutInvariant, PTL DEF Spec

(* Nothing goes astray on any disk until a file's bytes were taken for     *)
(* entries or something was torn: every entry that reaches the disk names  *)
(* an inode that was written before it.                                    *)
THEOREM StraysNeedDamage == Spec => []StraysOnlyThroughDamage
BY GoodInvariant, PTL

(* No sequence of calls, failures and crashes makes an extent reach into   *)
(* the metadata or past the end of the disk, overflows the extent array of *)
(* an inode, or frees a metadata block, whatever inodes of the table the   *)
(* bytes of files name when a path leads through them; up to the call that *)
(* takes bytes that were never an inode for one, and no such call is made  *)
(* on a disk that nothing has damaged.                                     *)
THEOREM MetadataAlwaysProtected == Spec => []MetadataProtected
<1>1. LayoutUntilAstray /\ StraysOnlyThroughDamage => MetadataProtected
  BY DEF LayoutUntilAstray, Layout, MetadataProtected
<1>. QED BY <1>1, LayoutInvariant, StraysNeedDamage, PTL

(* alloc_inode and alloc_block never hand out what a file or directory     *)
(* still uses, on any disk, through every call, failure and crash that the *)
(* code survives.                                                          *)
THEOREM BlocksAlwaysOwned == Spec => []BlockOwnership
<1>1. GoodInv => BlockOwnership
  <2>. SUFFICES ASSUME GoodInv, Sound, Mounted PROVE BlockOwnership BY DEF BlockOwnership
  <2>0. Good BY DEF GoodInv
  <2>1. live \subseteq Owners BY DEF Owners
  <2>2. live \subseteq ibm BY <2>0 DEF Good, Marked
  <2>3. \A i \in live : (Writing(i) \/ BlocksOf(itab[i]) \subseteq bbm) /\ NoRepeat(itab[i])
    BY <2>0, <2>1 DEF Good, Marked, Apart
  <2>4. \A i, j \in live : i # j => BlocksOf(itab[i]) \cap BlocksOf(itab[j]) = {}
    BY <2>0, <2>1 DEF Good, Apart
  <2>5. pc = "write_loop" =>
          /\ BlocksOf([extents |-> c.ext]) \subseteq bbm /\ NoRepeat([extents |-> c.ext])
          /\ \A i \in live \ {c.ino} :
               BlocksOf([extents |-> c.ext]) \cap BlocksOf(itab[i]) = {}
    BY <2>0 DEF Good, WriteHolds, NewFile
  <2>. QED BY <2>2, <2>3, <2>4, <2>5 DEF BlockOwnership
<1>. QED BY <1>1, GoodInvariant, PTL

(* Outside the commit window a crash finds on disk bitmaps that cover all  *)
(* that the entries name: the next mount cannot give any of it away.       *)
THEOREM AlwaysRecoverable == Spec => []CrashRecoverable
<1>1. GoodInv => CrashRecoverable BY DEF GoodInv, Good, DiskCovers, CrashRecoverable
<1>. QED BY <1>1, GoodInvariant, PTL

(* zeros_rm never takes the current directory away, and zeros_cd never     *)
(* enters anything but a live directory.                                   *)
THEOREM CwdAlwaysAlive == Spec => []CwdAlive
<1>1. GoodInv => CwdAlive BY DEF GoodInv, Good, Cwd, CwdAlive
<1>. QED BY <1>1, GoodInvariant, PTL

(* The links of the specification are the used slots of live directories. *)
LEMMA LinkOf ==
  ASSUME Layout, NEW h
  PROVE  /\ h \in Links <=> \E i \in live, b \in DataBlocks, s \in Slots :
                              h = <<i, b, s>> /\ IsLink(i, b, s)
         /\ \A i \in live, b \in DataBlocks, s \in Slots : h = <<i, b, s>> =>
              At(h) = Ent(b, s) /\ Target(h) = Ent(b, s).inode /\ h[1] = i
<1>0. live \subseteq Inodes /\ \A i \in live : BlocksOf(itab[i]) \subseteq DataBlocks
  BY InodeFacts
<1>1. \A i, b, s : h = <<i, b, s>> =>
        At(h) = Ent(b, s) /\ Target(h) = Ent(b, s).inode /\ h[1] = i
  BY DEF At, Target, Ent
<1>2. ASSUME h \in Links
      PROVE  \E i \in live, b \in DataBlocks, s \in Slots : h = <<i, b, s>> /\ IsLink(i, b, s)
  <2>1. PICK i \in LiveDirs : h \in Entries(i) /\ At(h).name \notin {".", ".."}
    BY <1>2 DEF Links
  <2>2. h \in {i} \X BlocksOf(itab[i]) \X Slots /\ Target(h) # NIL BY <2>1 DEF Entries
  <2>3. PICK b \in BlocksOf(itab[i]), s \in Slots : h = <<i, b, s>> BY <2>2
  <2>4. i \in live /\ itab[i].mode = "dir" BY <2>1 DEF LiveDirs
  <2>5. IsLink(i, b, s) BY <1>1, <2>1, <2>2, <2>3, <2>4 DEF IsLink, Used
  <2>. QED BY <1>0, <2>3, <2>4, <2>5
<1>3. ASSUME NEW i \in live, NEW b \in DataBlocks, NEW s \in Slots, h = <<i, b, s>>,
             IsLink(i, b, s)
      PROVE  h \in Links
  <2>1. /\ i \in LiveDirs /\ b \in BlocksOf(itab[i])
        /\ Ent(b, s).inode # NIL /\ Ent(b, s).name \notin {".", ".."}
    BY <1>3 DEF IsLink, Used, LiveDirs
  <2>2. h \in Entries(i) BY <1>1, <1>3, <2>1 DEF Entries
  <2>3. At(h).name \notin {".", ".."} BY <1>1, <1>3, <2>1
  <2>. QED BY <2>1, <2>2, <2>3 DEF Links
<1>. QED BY <1>1, <1>2, <1>3

(* What the invariant says slot by slot is what the specification says of  *)
(* links and dots.                                                         *)
LEMMA TreeInvMeans ==
  ASSUME Layout, TreeInv
  PROVE  LinksSound /\ DotsSound
<1>1. ASSUME NEW h \in Links
      PROVE  \E i \in live, b \in DataBlocks, s \in Slots :
               /\ h = <<i, b, s>> /\ IsLink(i, b, s) /\ At(h) = Ent(b, s)
               /\ Target(h) = Ent(b, s).inode /\ h[1] = i
  BY LinkOf
<1>2. {Target(h) : h \in Links} = live \ {ROOT}
  <2>1. ASSUME NEW h \in Links PROVE Target(h) \in live \ {ROOT}
    BY <1>1 DEF TreeInv, TreeLinks
  <2>2. ASSUME NEW j \in live \ {ROOT} PROVE \E h \in Links : Target(h) = j
    <3>1. PICK i \in live, b \in DataBlocks, s \in Slots :
            IsLink(i, b, s) /\ Ent(b, s).inode = j
      BY DEF TreeInv, TreeLinks
    <3>2. <<i, b, s>> \in Links /\ Target(<<i, b, s>>) = j BY <3>1, LinkOf
    <3>. QED BY <3>2
  <2>. QED BY <2>1, <2>2
<1>3. ASSUME NEW g \in Links, NEW h \in Links,
             Target(g) = Target(h) \/ (g[1] = h[1] /\ At(g).name = At(h).name)
      PROVE  g = h
  <2>1. PICK i \in live, b \in DataBlocks, s \in Slots :
          /\ g = <<i, b, s>> /\ IsLink(i, b, s) /\ At(g) = Ent(b, s)
          /\ Target(g) = Ent(b, s).inode /\ g[1] = i
    BY <1>1
  <2>2. PICK k \in live, d \in DataBlocks, r \in Slots :
          /\ h = <<k, d, r>> /\ IsLink(k, d, r) /\ At(h) = Ent(d, r)
          /\ Target(h) = Ent(d, r).inode /\ h[1] = k
    BY <1>1
  <2>3. \/ Ent(b, s).inode = Ent(d, r).inode
        \/ i = k /\ Ent(b, s).name = Ent(d, r).name
    BY <1>3, <2>1, <2>2
  <2>4. i = k /\ b = d /\ s = r BY <2>1, <2>2, <2>3 DEF TreeInv, TreeLinks
  <2>. QED BY <2>1, <2>2, <2>4
<1>4. LinksSound BY <1>2, <1>3 DEF LinksSound
<1>5. ASSUME NEW i \in LiveDirs, NEW h \in Entries(i)
      PROVE  /\ At(h).name = "." => Target(h) = i
             /\ At(h).name = ".." =>
                  IF i = ROOT THEN Target(h) = ROOT
                  ELSE \E g \in Links : g[1] = Target(h) /\ Target(g) = i
  <2>1. i \in live /\ itab[i].mode = "dir" BY DEF LiveDirs
  <2>2. h \in {i} \X BlocksOf(itab[i]) \X Slots /\ Target(h) # NIL BY DEF Entries
  <2>3. PICK b \in BlocksOf(itab[i]), s \in Slots : h = <<i, b, s>> BY <2>2
  <2>4. b \in DataBlocks BY <2>1, InodeFacts
  <2>5. At(h) = Ent(b, s) /\ Target(h) = Ent(b, s).inode BY <2>1, <2>3, <2>4, LinkOf
  <2>6. Used(i, b, s) BY <2>1, <2>2, <2>5 DEF Used
  <2>7. /\ Ent(b, s).name = "." => Ent(b, s).inode = i
        /\ Ent(b, s).name = ".." =>
             IF i = ROOT THEN Ent(b, s).inode = ROOT
             ELSE \E d \in DataBlocks, r \in Slots :
                    IsLink(Ent(b, s).inode, d, r) /\ Ent(d, r).inode = i
    BY <2>1, <2>4, <2>6 DEF TreeInv, TreeDots
  <2>8. ASSUME i # ROOT, Ent(b, s).name = ".."
        PROVE  \E g \in Links : g[1] = Ent(b, s).inode /\ Target(g) = i
    <3>1. PICK d \in DataBlocks, r \in Slots :
            IsLink(Ent(b, s).inode, d, r) /\ Ent(d, r).inode = i
      BY <2>7, <2>8
    <3>2. PICK k \in live : k = Ent(b, s).inode BY <3>1 DEF IsLink, Used
    <3>3. <<k, d, r>> \in Links /\ Target(<<k, d, r>>) = i /\ <<k, d, r>>[1] = k
      BY <3>1, <3>2, LinkOf
    <3>. QED BY <3>2, <3>3
  <2>. QED BY <2>5, <2>7, <2>8
<1>6. DotsSound BY <1>5 DEF DotsSound
<1>. QED BY <1>4, <1>6

(* The directories form a tree in which every name is unique, every inode  *)
(* has one link and every ".." is right: no call, failed call or crash     *)
(* outside the commit window breaks it, on any disk and with any paths.    *)
THEOREM TreeAlwaysSound == Spec => []TreeSound
<1>1. GoodInv => TreeSound
  BY TreeInvMeans DEF GoodInv, Good, TreeInv, TreeSound
<1>. QED BY <1>1, GoodInvariant, PTL

-----------------------------------------------------------------------------
(* Part 3.  What is counted, what the files hold, what is never lost. *)

(* Counters x agree with the bitmaps I and B. *)
Counted(x, I, B) ==
  /\ x.free_inodes = Cardinality(Inodes \ I)
  /\ x.free_blocks = Cardinality(DataBlocks \ B)

(* The counters follow the bitmaps in RAM; on disk the superblock is ahead *)
(* of the bitmaps only while a flush is under way.                         *)
Counts ==
  /\ Mounted => Counted(sb, ibm, bbm)
  /\ pc \notin {"flush_ibm", "flush_bbm"} => Counted(dsb, dibm, dbbm)
  /\ pc \in {"flush_ibm", "flush_bbm"} => dsb = sb
  /\ pc = "flush_bbm" => dibm = ibm

CountInv == harm \cap {"torn", "drift"} = {} => Counts

(* A file holds what it was last written with; while it is rewritten, its  *)
(* old blocks do as long as no block has been written.  The blocks written *)
(* so far are as many as they should be and hold the new contents.         *)
HoldsWritten(i) ==
  /\ itab[i].mode \in {"dir", "reg"}
  /\ itab[i].mode = "reg" =>
       /\ Cardinality(BlockPos(itab[i])) = wrote[i].len
       /\ \/ Writing(i) /\ c.ext # <<>>
          \/ \A b \in BlocksOf(itab[i]) : data[b].val = wrote[i].val

Reads ==
  /\ \A i \in live : HoldsWritten(i)
  /\ pc = "write_loop" =>
       /\ Cardinality(BlockPos(NewFile)) + c.left = c.len
       /\ \A b \in BlocksOf(NewFile) : data[b].val = c.val

ReadInv == harm \cap {"torn", "mixed"} = {} => Reads

(* Every mark of the bitmaps has an owner: a live inode that is not being  *)
(* rewritten, or the call in progress.                                     *)
BlocksOfAll(S) == UNION {BlocksOf(itab[i]) : i \in S}

HeldBlocks ==
  IF pc \in {"mkdir_init", "dir_add_extent"} THEN {c.blk}
  ELSE IF pc = "write_loop" THEN BlocksOf(NewFile) ELSE {}

HeldInodes == IF Creating THEN {c.ino} ELSE {}

Keepers == Owners \ (IF pc = "write_loop" THEN {c.ino} ELSE {})

Flushing == pc \in FlushPcs /\ c.op # "close"

RamTight ==
  /\ ibm = live \cup HeldInodes
  /\ bbm = MetaBlocks \cup BlocksOfAll(Keepers) \cup HeldBlocks

DiskTight == dibm = live /\ dbbm = MetaBlocks \cup BlocksOfAll(live)

Tight ==
  /\ pc \in FlushPcs => c.op \in {"mkdir", "touch", "create", "write", "rm", "close"}
  /\ Mounted => RamTight
  /\ ~Flushing => DiskTight
  /\ pc = "flush_bbm" => dibm = ibm

LeakInv == harm = {} => Tight

-----------------------------------------------------------------------------
(* Counting. *)

(* The bitmaps are finite and the counters cannot wrap. *)
LEMMA DiskSize ==
  /\ IsFiniteSet(Inodes) /\ Cardinality(Inodes) \in Nat /\ Cardinality(Inodes) < U32
  /\ IsFiniteSet(DataBlocks) /\ Cardinality(DataBlocks) \in Nat
  /\ Cardinality(DataBlocks) < U32 /\ U32 \in Nat
  /\ Cardinality(Inodes) = TotalInodes /\ Cardinality(DataBlocks) = TotalBlocks - DataStart
<1>0. /\ TotalInodes \in Nat \ {0} /\ TotalBlocks \in Nat /\ DataStart \in Nat
      /\ DataStart < TotalBlocks /\ U32 \in Nat /\ U32 > TotalBlocks /\ U32 > TotalInodes
  BY GeometryAssumption, MountAssumption
<1>1. IsFiniteSet(Inodes) /\ Cardinality(Inodes) = TotalInodes
  <2>1. 0 \in Int /\ TotalInodes - 1 \in Int BY <1>0
  <2>2. /\ IsFiniteSet(0 .. TotalInodes - 1)
        /\ Cardinality(0 .. TotalInodes - 1) =
             IF 0 > TotalInodes - 1 THEN 0 ELSE (TotalInodes - 1) - 0 + 1
    BY <2>1, FS_Interval, Zenon
  <2>. QED BY <1>0, <2>2 DEF Inodes
<1>2. IsFiniteSet(DataBlocks) /\ Cardinality(DataBlocks) = TotalBlocks - DataStart
  <2>1. DataStart \in Int /\ TotalBlocks - 1 \in Int BY <1>0
  <2>2. /\ IsFiniteSet(DataStart .. TotalBlocks - 1)
        /\ Cardinality(DataStart .. TotalBlocks - 1) =
             IF DataStart > TotalBlocks - 1 THEN 0 ELSE (TotalBlocks - 1) - DataStart + 1
    BY <2>1, FS_Interval, Zenon
  <2>. QED BY <1>0, <2>2 DEF DataBlocks
<1>. QED BY <1>0, <1>1, <1>2

(* So the uint32_t arithmetic is plain arithmetic. *)
LEMMA CounterFacts ==
  ASSUME NEW x \in Nat, NEW k \in Nat
  PROVE  /\ x > 0 /\ x < U32 => Dec(x) = x - 1
         /\ x + k < U32 => Add(x, k) = x + k
<1>0. U32 \in Nat \ {0} BY DiskSize, MountAssumption, GeometryAssumption
<1>1. ASSUME x > 0, x < U32 PROVE Dec(x) = x - 1
  <2>1. x - 1 \in Int /\ 0 <= x - 1 /\ x - 1 < U32 BY <1>0, <1>1
  <2>2. (x - 1) % U32 = x - 1 BY <1>0, <2>1, ModFacts
  <2>. QED BY <2>2 DEF Dec
<1>2. ASSUME x + k < U32 PROVE Add(x, k) = x + k
  <2>1. x + k \in Int /\ 0 <= x + k BY <1>0, <1>2
  <2>2. (x + k) % U32 = x + k BY <1>0, <1>2, <2>1, ModFacts
  <2>. QED BY <2>2 DEF Add
<1>. QED BY <1>1, <1>2

(* alloc_inode and alloc_block through the counters. *)
LEMMA CountInodeTaken ==
  ASSUME NEW I, NEW i \in Inodes \ I
  PROVE  Dec(Cardinality(Inodes \ I)) = Cardinality(Inodes \ (I \cup {i}))
<1>1. /\ Cardinality(Inodes \ (I \cup {i})) = Cardinality(Inodes \ I) - 1
      /\ Cardinality(Inodes \ I) \in Nat \ {0}
  BY DiskSize, MarkOne
<1>2. Cardinality(Inodes \ I) <= Cardinality(Inodes) BY DiskSize, FS_Subset
<1>3. Cardinality(Inodes \ I) < U32 BY <1>1, <1>2, DiskSize
<1>. QED BY <1>1, <1>3, CounterFacts

(* alloc_block, likewise. *)
LEMMA CountBlockTaken ==
  ASSUME NEW B, NEW b \in DataBlocks \ B
  PROVE  Dec(Cardinality(DataBlocks \ B)) = Cardinality(DataBlocks \ (B \cup {b}))
<1>1. /\ Cardinality(DataBlocks \ (B \cup {b})) = Cardinality(DataBlocks \ B) - 1
      /\ Cardinality(DataBlocks \ B) \in Nat \ {0}
  BY DiskSize, MarkOne
<1>2. Cardinality(DataBlocks \ B) <= Cardinality(DataBlocks) BY DiskSize, FS_Subset
<1>3. Cardinality(DataBlocks \ B) < U32 BY <1>1, <1>2, DiskSize
<1>. QED BY <1>1, <1>3, CounterFacts

(* free_block on every block of an inode whose blocks are marked. *)
LEMMA CountReleased ==
  ASSUME NEW n \in Inode, ExtentsInData(n.extents), NoRepeat(n), NEW B, BlocksOf(n) \subseteq B
  PROVE  Add(Cardinality(DataBlocks \ B), Cardinality(BlockPos(n)))
           = Cardinality(DataBlocks \ (B \ BlocksOf(n)))
<1>1. BlocksOf(n) \subseteq DataBlocks BY BlocksOfInData
<1>2. Cardinality(BlockPos(n)) = Cardinality(BlocksOf(n)) BY BlockCount
<1>3. /\ Cardinality(DataBlocks \ (B \ BlocksOf(n)))
           = Cardinality(DataBlocks \ B) + Cardinality(BlocksOf(n))
      /\ Cardinality(DataBlocks \ (B \ BlocksOf(n))) <= Cardinality(DataBlocks)
      /\ Cardinality(DataBlocks \ B) \in Nat /\ Cardinality(BlocksOf(n)) \in Nat
  BY <1>1, DiskSize, UnmarkMany
<1>4. Cardinality(DataBlocks \ B) + Cardinality(BlocksOf(n)) < U32 BY <1>3, DiskSize
<1>. QED BY <1>2, <1>3, <1>4, CounterFacts

(* free_inode on an inode that is marked. *)
LEMMA CountInodeFreed ==
  ASSUME NEW I, NEW i \in Inodes, i \in I
  PROVE  Add(Cardinality(Inodes \ I), 1) = Cardinality(Inodes \ (I \ {i}))
<1>. DEFINE B == I \ {i}
<1>1. i \in Inodes \ B /\ Inodes \ (B \cup {i}) = Inodes \ I OBVIOUS
<1>2. IsFiniteSet(Inodes) /\ Cardinality(Inodes \ B) <= Cardinality(Inodes)
  BY DiskSize, FS_Subset
<1>3. /\ Cardinality(Inodes \ (B \cup {i})) = Cardinality(Inodes \ B) - 1
      /\ Cardinality(Inodes \ B) \in Nat \ {0}
  BY <1>1, <1>2, MarkOne
<1>. HIDE DEF B
<1>4. Cardinality(Inodes \ I) \in Nat /\ Cardinality(Inodes \ I) + 1 = Cardinality(Inodes \ B)
  BY <1>1, <1>3
<1>5. Cardinality(Inodes \ I) + 1 < U32 BY <1>2, <1>3, <1>4, DiskSize
<1>6. Add(Cardinality(Inodes \ I), 1) = Cardinality(Inodes \ B)
  BY <1>4, <1>5, CounterFacts
<1>. QED BY <1>6 DEF B

-----------------------------------------------------------------------------
(* The counters, step by step. *)

(* Steps that leave bitmaps and counters alone, outside the flush. *)
LEMMA CountSame ==
  ASSUME Counts, Mounted, pc \notin {"flush_ibm", "flush_bbm"},
         pc' \notin {"unmounted", "flush_ibm", "flush_bbm"},
         sb' = sb, ibm' = ibm, bbm' = bbm, dsb' = dsb, dibm' = dibm, dbbm' = dbbm
  PROVE  Counts'
BY DEF Counts, Counted, Mounted

(* Steps that change RAM only, and keep it counted. *)
LEMMA CountRam ==
  ASSUME Counts, pc \notin {"flush_ibm", "flush_bbm"},
         pc' \notin {"unmounted", "flush_ibm", "flush_bbm"},
         Counted(sb', ibm', bbm'), dsb' = dsb, dibm' = dibm, dbbm' = dbbm
  PROVE  Counts'
BY DEF Counts, Counted, Mounted

(* zeros_mkdir, the half of it before "disco lleno", zeros_touch. *)
LEMMA TakeCounts ==
  ASSUME Layout, Counts, NEW p \in Paths,
         \/ zeros_mkdir(p) \/ zeros_mkdir_disk_full(p)
         \/ \E op \in {"touch", "create"}, v \in Vals \cup {NoVal}, n \in 0 .. MaxLen :
              CreateFile(p, op, v, n)
  PROVE  Counts'
<1>0. sb \in Counters BY DEF Layout, TypeOK
<1>1. PICK ino \in Inodes : TakeInode(ino)
  BY DEF zeros_mkdir, zeros_mkdir_disk_full, CreateFile
<1>2. ino \in Inodes \ ibm /\ ibm' = ibm \cup {ino}
  <2>1. FreeInodes \subseteq Nat BY GeometryAssumption DEF FreeInodes, Inodes
  <2>. QED BY <1>1, <2>1, LowestClearIn DEF TakeInode, FreeInodes
<1>3. /\ pc = "idle" /\ dsb' = dsb /\ dibm' = dibm /\ dbbm' = dbbm
      /\ pc' \in {"idle", "mkdir_init", "touch_init"}
  BY DEF zeros_mkdir, zeros_mkdir_disk_full, CreateFile, MkdirCall, Abandon, diskVars
<1>4. Counted(sb, ibm, bbm) BY <1>3 DEF Counts, Mounted
<1>5. Dec(sb.free_inodes) = Cardinality(Inodes \ ibm')
  BY <1>2, <1>4, CountInodeTaken DEF Counted
<1>6. CASE zeros_mkdir(p)
  <2>1. PICK blk \in Blocks : blk = LowestClear(FreeBlocks) /\ bbm' = bbm \cup {blk}
    BY <1>6 DEF zeros_mkdir
  <2>2. blk \in DataBlocks \ bbm BY <1>6, <2>1, FreeBlockFacts DEF zeros_mkdir
  <2>3. Dec(sb.free_blocks) = Cardinality(DataBlocks \ bbm')
    BY <1>4, <2>1, <2>2, CountBlockTaken DEF Counted
  <2>4. sb' = [free_inodes |-> Dec(sb.free_inodes), free_blocks |-> Dec(sb.free_blocks)]
    BY <1>6 DEF zeros_mkdir
  <2>. QED BY <1>3, <1>5, <2>3, <2>4, CountRam DEF Counted
<1>7. CASE ~zeros_mkdir(p)
  <2>1. sb' = [sb EXCEPT !.free_inodes = Dec(@)] /\ bbm' = bbm
    BY <1>7 DEF zeros_mkdir_disk_full, CreateFile
  <2>2. sb'.free_inodes = Dec(sb.free_inodes) /\ sb'.free_blocks = sb.free_blocks
    BY <1>0, <2>1 DEF Counters
  <2>. QED BY <1>3, <1>4, <1>5, <2>1, <2>2, CountRam DEF Counted
<1>. QED BY <1>6, <1>7

(* dir_add_entry and zeros_write_file take one block. *)
LEMMA GrowCounts ==
  ASSUME Layout, Counts, dir_add_entry_block \/ write_loop
  PROVE  Counts'
<1>0. sb \in Counters BY DEF Layout, TypeOK
<1>1. PICK blk \in Blocks : blk = LowestClear(FreeBlocks) /\ bbm' = bbm \cup {blk}
  BY DEF dir_add_entry_block, write_loop
<1>2. /\ pc \in {"dir_add_entry", "write_loop"} /\ pc' \in {"dir_add_extent", "write_loop"}
      /\ dsb' = dsb /\ dibm' = dibm /\ dbbm' = dbbm /\ ibm' = ibm /\ FreeBlocks # {}
      /\ sb' = [sb EXCEPT !.free_blocks = Dec(@)]
  BY DEF dir_add_entry_block, CanGrowDir, write_loop, Writable
<1>3. blk \in DataBlocks \ bbm BY <1>1, <1>2, FreeBlockFacts
<1>4. Counted(sb, ibm, bbm) BY <1>2 DEF Counts, Mounted
<1>5. Dec(sb.free_blocks) = Cardinality(DataBlocks \ bbm')
  BY <1>1, <1>3, <1>4, CountBlockTaken DEF Counted
<1>6. sb'.free_blocks = Dec(sb.free_blocks) /\ sb'.free_inodes = sb.free_inodes
  BY <1>0, <1>2 DEF Counters
<1>. QED BY <1>2, <1>4, <1>5, <1>6, CountRam DEF Counted

(* The blocks that free_block gives back were all marked: none is counted  *)
(* twice.                                                                  *)
LEMMA ReleaseCounts ==
  ASSUME Layout, Good, Mounted, pc # "write_loop", Counted(sb, ibm, bbm), NEW i \in live
  PROVE  /\ i \in Inodes /\ i \in ibm
         /\ Add(sb.free_blocks, Cardinality(BlockPos(itab[i])))
              = Cardinality(DataBlocks \ Release(itab[i]))
         /\ Add(sb.free_inodes, 1) = Cardinality(Inodes \ (ibm \ {i}))
<1>1. i \in Inodes /\ itab[i] \in Inode /\ ExtentsInData(itab[i].extents)
  BY InodeFacts
<1>2. i \in ibm /\ BlocksOf(itab[i]) \subseteq bbm BY NotWriting
<1>3. NoRepeat(itab[i]) BY DEF Good, Apart, Owners
<1>4. Add(Cardinality(DataBlocks \ bbm), Cardinality(BlockPos(itab[i])))
        = Cardinality(DataBlocks \ (bbm \ BlocksOf(itab[i])))
  BY <1>1, <1>2, <1>3, CountReleased
<1>5. Add(Cardinality(Inodes \ ibm), 1) = Cardinality(Inodes \ (ibm \ {i}))
  BY <1>1, <1>2, CountInodeFreed
<1>. QED BY <1>1, <1>2, <1>4, <1>5 DEF Counted, Release

(* zeros_write_file frees the old blocks. *)
LEMMA StartWriteCounted ==
  ASSUME Layout, Good, pc \in {"idle", "flush_bbm"}, Counted(sb, ibm, bbm),
         NEW p \in Path, NEW v, NEW n, Sound', StartWrite(p, v, n), ibm' = ibm
  PROVE  Counted(sb', ibm', bbm')
<1>0. sb \in Counters BY DEF Layout, TypeOK
<1>1. PICK i : i = Resolve(p) OBVIOUS
<1>2. /\ i # NIL /\ bbm' = Release(itab[i]) /\ ~ThroughFile(p)
      /\ sb' = [sb EXCEPT !.free_blocks = Add(@, Cardinality(BlockPos(itab[i])))]
  BY <1>1, RootInodes DEF StartWrite, Readable, PathHarm, Sound
<1>3. Mounted /\ pc # "write_loop" BY DEF Mounted
<1>4. i \in live BY <1>1, <1>2, <1>3, ResolveLive DEF Good, Cwd
<1>5. /\ sb'.free_blocks = Add(sb.free_blocks, Cardinality(BlockPos(itab[i])))
      /\ sb'.free_inodes = sb.free_inodes
  BY <1>0, <1>2 DEF Counters
<1>. QED BY <1>2, <1>3, <1>4, <1>5, ReleaseCounts DEF Counted

(* zeros_rm gives back to the counters what it clears in the bitmaps. *)
LEMMA RmCounts ==
  ASSUME Layout, Good, Counts, Sound', NEW p \in Paths, zeros_rm(p)
  PROVE  Counts'
<1>1. PICK i : i = Resolve(p) OBVIOUS
<1>2. /\ pc = "idle" /\ pc' = "flush_sb" /\ i # NIL /\ ~ThroughFile(p)
      /\ bbm' = Release(itab[i]) /\ ibm' = ibm \ {i}
      /\ sb' = [free_inodes |-> Add(sb.free_inodes, 1),
                free_blocks |-> Add(sb.free_blocks, Cardinality(BlockPos(itab[i])))]
      /\ dsb' = dsb /\ dibm' = dibm /\ dbbm' = dbbm
  BY <1>1, RootInodes DEF zeros_rm, Removable, Readable, PathHarm, Sound
<1>3. Mounted /\ Counted(sb, ibm, bbm) BY <1>2 DEF Mounted, Counts
<1>4. i \in live BY <1>1, <1>2, <1>3, ResolveLive, MountAssumption DEF Good, Cwd
<1>5. Counted(sb', ibm', bbm') BY <1>2, <1>3, <1>4, ReleaseCounts DEF Counted
<1>. QED BY <1>2, <1>5, CountRam

(* The end of the flush: the disk is as RAM is, before zeros_write_file    *)
(* goes on.                                                                *)
LEMMA FlushBbmCounts ==
  ASSUME Layout, Good, Counts, Sound', flush_bbm
  PROVE  Counts'
<1>1. pc = "flush_bbm" /\ dsb' = dsb /\ dibm' = dibm /\ dbbm' = bbm BY DEF flush_bbm
<1>2. Counted(sb, ibm, bbm) /\ dsb = sb /\ dibm = ibm BY <1>1 DEF Counts, Mounted
<1>3. Counted(dsb', dibm', dbbm') BY <1>1, <1>2
<1>4. CASE StartWrite(c.path, c.val, c.len) /\ UNCHANGED <<ibm, cwd>>
  <2>1. c.path \in Path BY InodeFacts DEF Call
  <2>2. Counted(sb', ibm', bbm') BY <1>1, <1>2, <1>4, <2>1, StartWriteCounted
  <2>3. pc' = "write_loop" BY <1>4 DEF StartWrite
  <2>. QED BY <1>3, <2>2, <2>3 DEF Counts, Counted
<1>5. CASE pc' = "idle" /\ UNCHANGED ramVars
  BY <1>2, <1>3, <1>5 DEF ramVars, Counts, Counted
<1>6. CASE pc' = "unmounted" BY <1>3, <1>6 DEF Counts, Counted, Mounted
<1>. QED BY <1>4, <1>5, <1>6 DEF flush_bbm

(* The counters stay right through every step. *)
LEMMA NextCounts ==
  ASSUME GoodInv, CountInv, [Next]_vars
  PROVE  CountInv'
<1>. SUFFICES ASSUME harm' \cap {"torn", "drift"} = {} PROVE Counts' BY DEF CountInv
<1>0. Layout /\ Good /\ Counts /\ Sound'
  <2>1. harm \subseteq harm' BY HarmGrows
  <2>. QED BY <2>1 DEF GoodInv, CountInv, Sound
<1>1. CASE ApiCall
  <2>1. CASE zeros_mount_open
    BY <1>0, <2>1 DEF zeros_mount_open, Counts, Counted, Mounted, diskVars
  <2>2. CASE zeros_mount_close
    BY <1>0, <2>2, CountSame DEF zeros_mount_close, diskVars, ramVars, Mounted
  <2>3. ASSUME NEW p \in Paths, zeros_cd(p) PROVE Counts'
    BY <1>0, <2>3, CountSame DEF zeros_cd, diskVars, Mounted
  <2>4. ASSUME NEW p \in Paths,
               zeros_mkdir(p) \/ zeros_mkdir_disk_full(p) \/ zeros_touch(p)
        PROVE  Counts'
    <3>1. 0 \in 0 .. MaxLen BY MountAssumption
    <3>. QED BY <1>0, <2>4, <3>1, TakeCounts DEF zeros_touch
  <2>5. ASSUME NEW p \in Paths, zeros_rm(p) PROVE Counts' BY <1>0, <2>5, RmCounts
  <2>6. ASSUME NEW p \in Paths, NEW v \in Vals, NEW n \in 0 .. MaxLen,
               zeros_write_file(p, v, n)
        PROVE  Counts'
    <3>1. CASE CreateFile(p, "create", v, n) BY <1>0, <3>1, TakeCounts
    <3>2. CASE pc = "idle" /\ StartWrite(p, v, n) /\ UNCHANGED <<diskVars, ibm, cwd, live, wrote>>
      <4>1. p \in Path BY MountAssumption
      <4>2. Counted(sb, ibm, bbm) BY <1>0, <3>2 DEF Counts, Mounted
      <4>3. Counted(sb', ibm', bbm') BY <1>0, <3>2, <4>1, <4>2, StartWriteCounted
      <4>4. pc' = "write_loop" BY <3>2 DEF StartWrite
      <4>. QED BY <1>0, <3>2, <4>3, <4>4, CountRam DEF diskVars
    <3>. QED BY <2>6, <3>1, <3>2 DEF zeros_write_file
  <2>7. ASSUME NEW p \in Paths PROVE ~astray(p) BY <1>0, NoStray
  <2>. QED BY <1>1, <2>1, <2>2, <2>3, <2>4, <2>5, <2>6, <2>7 DEF ApiCall
<1>2. CASE Progress
  <2>1. CASE mkdir_init \/ touch_init \/ dir_add_entry_slot \/ dir_add_extent
    BY <1>0, <2>1, CountSame DEF mkdir_init, touch_init, dir_add_entry_slot, dir_add_extent,
       Linked, ramVars, Mounted
  <2>2. CASE dir_add_entry_fails \/ write_fails \/ write_inode
    BY <1>0, <2>2, CountSame DEF dir_add_entry_fails, write_fails, write_inode, Abandon,
       diskVars, ramVars, Mounted
  <2>3. CASE dir_add_entry_block \/ write_loop BY <1>0, <2>3, GrowCounts
  <2>4. CASE flush_sb \/ flush_ibm
    BY <1>0, <2>4 DEF flush_sb, flush_ibm, ramVars, Counts, Counted, Mounted
  <2>5. CASE flush_bbm BY <1>0, <2>5, FlushBbmCounts
  <2>. QED BY <1>2, <2>1, <2>2, <2>3, <2>4, <2>5 DEF Progress
<1>3. CASE Crash
  <2>1. pc \notin {"flush_ibm", "flush_bbm"} BY <1>3 DEF Crash, CrashHarm
  <2>. QED BY <1>0, <1>3, <2>1 DEF Crash, diskVars, Counts, Counted, Mounted
<1>4. CASE UNCHANGED vars
  BY <1>0, <1>4 DEF vars, Counts, Counted, Mounted
<1>. QED BY <1>1, <1>2, <1>3, <1>4 DEF Next

(* A freshly formatted disk is counted. *)
LEMMA InitCounts == Init => CountInv
<1>. SUFFICES ASSUME Init PROVE Counts BY DEF CountInv
<1>0. DataStart \in DataBlocks /\ DataStart \notin MetaBlocks /\ ROOT \in Inodes
  BY GeometryAssumption, RootInodes DEF DataBlocks, MetaBlocks
<1>1. /\ pc = "unmounted" /\ dibm = {} \cup {ROOT} /\ dbbm = MetaBlocks \cup {DataStart}
      /\ dsb.free_inodes = TotalInodes - 1 /\ dsb.free_blocks = TotalBlocks - DataStart - 1
  BY DEF Init
<1>2. ROOT \in Inodes \ {} /\ DataStart \in DataBlocks \ MetaBlocks BY <1>0
<1>3. Cardinality(Inodes \ ({} \cup {ROOT})) = Cardinality(Inodes \ {}) - 1
  BY <1>2, DiskSize, MarkOne
<1>4. Cardinality(DataBlocks \ (MetaBlocks \cup {DataStart})) = Cardinality(DataBlocks \ MetaBlocks) - 1
  BY <1>2, DiskSize, MarkOne
<1>5. Inodes \ {} = Inodes /\ DataBlocks \ MetaBlocks = DataBlocks
  BY GeometryAssumption DEF DataBlocks, MetaBlocks
<1>6. Counted(dsb, dibm, dbbm) BY <1>1, <1>3, <1>4, <1>5, DiskSize DEF Counted
<1>. QED BY <1>1, <1>6 DEF Counts, Mounted

-----------------------------------------------------------------------------
(* What files hold, step by step. *)

(* A file whose inode and blocks a step leaves alone. *)
LEMMA HoldKept ==
  ASSUME NEW i, HoldsWritten(i), itab'[i] = itab[i], wrote'[i] = wrote[i],
         Writing(i) /\ c.ext # <<>> => BlocksOf(itab[i]) = {} \/ (Writing(i)' /\ c'.ext # <<>>),
         \A b \in BlocksOf(itab[i]) :
            data'[b].val = data[b].val \/ (Writing(i)' /\ c'.ext # <<>>)
  PROVE  HoldsWritten(i)'
<1>1. BlockPos(itab[i])' = BlockPos(itab[i]) /\ BlocksOf(itab[i])' = BlocksOf(itab[i])
  OBVIOUS
<1>. QED BY <1>1 DEF HoldsWritten

(* A directory holds its entries, which is not what this is about. *)
LEMMA HoldDir == ASSUME NEW i, itab'[i].mode = "dir" PROVE HoldsWritten(i)'
BY DEF HoldsWritten

(* Steps that touch neither inodes nor blocks nor the history. *)
LEMMA ReadSame ==
  ASSUME Reads, pc # "write_loop", pc' # "write_loop",
         itab' = itab, data' = data, live' = live, wrote' = wrote
  PROVE  Reads'
BY HoldKept DEF Reads, Writing

(* zeros_write_file has freed the old blocks and written none. *)
LEMMA ReadStart ==
  ASSUME Layout, Good, Reads, pc # "write_loop", NEW p, NEW v, NEW n \in Nat, StartWrite(p, v, n),
         itab' = itab, data' = data, live' = live, wrote' = wrote
  PROVE  Reads'
<1>1. \A i \in live : HoldsWritten(i)' BY HoldKept DEF Reads, Writing
<1>2. c'.ext = <<>> /\ c'.left = n /\ c'.len = n BY DEF StartWrite, NoCall
<1>3. PICK new : new = NewFile' OBVIOUS
<1>4. new.extents = <<>> BY <1>2, <1>3 DEF NewFile
<1>5. BlockPos(new) = {} /\ BlocksOf(new) = {} BY <1>4, NoBlocks
<1>6. Cardinality(BlockPos(new)) = 0 BY <1>5, FS_EmptySet
<1>. QED BY <1>1, <1>2, <1>3, <1>5, <1>6 DEF Reads

(* The failed write, and the crash, that no harm was recorded for. *)
LEMMA ReadEnd ==
  ASSUME Reads, pc' # "write_loop",
         itab' = itab, data' = data, live' = live, wrote' = wrote,
         pc = "write_loop" /\ c.ext # <<>> => BlocksOf(itab[c.ino]) = {}
  PROVE  Reads'
BY HoldKept DEF Reads, Writing

(* The new inode and its block are nobody else's. *)
LEMMA ReadInit ==
  ASSUME Layout, Good, Reads, mkdir_init \/ touch_init
  PROVE  Reads'
<1>0. /\ itab \in [Inodes -> Inode] /\ data \in [DataBlocks -> Block] /\ live \subseteq Inodes
      /\ \A i \in Inodes : BlocksOf(itab[i]) \subseteq DataBlocks
  BY InodeFacts
<1>1. /\ pc \in {"mkdir_init", "touch_init"} /\ pc' = "dir_add_entry"
      /\ live' = live /\ wrote' = wrote
  BY DEF mkdir_init, touch_init, hist
<1>2. c.ino \notin live BY <1>1 DEF Good, CreateHolds, Creating
<1>3. \A i \in live : itab'[i] = itab[i] BY <1>0, <1>2 DEF mkdir_init, touch_init
<1>4. \A i \in live : \A b \in BlocksOf(itab[i]) : data'[b] = data[b]
  <2>1. CASE mkdir_init
    <3>1. \A i \in live : c.blk \notin BlocksOf(itab[i])
      BY <2>1 DEF mkdir_init, Good, BlockHeld, Owners
    <3>. QED BY <1>0, <2>1, <3>1 DEF mkdir_init
  <2>2. CASE touch_init BY <2>2 DEF touch_init
  <2>. QED BY <2>1, <2>2
<1>. QED BY <1>1, <1>3, <1>4, HoldKept DEF Reads, Writing

(* dir_add_entry's block was free. *)
LEMMA ReadAddBlock ==
  ASSUME Layout, Good, Reads, dir_add_entry_block
  PROVE  Reads'
<1>0. /\ itab \in [Inodes -> Inode] /\ data \in [DataBlocks -> Block] /\ live \subseteq Inodes
      /\ \A i \in Inodes : BlocksOf(itab[i]) \subseteq DataBlocks
  BY InodeFacts
<1>1. PICK blk \in Blocks :
        blk = LowestClear(FreeBlocks) /\ \E blank : data' = [data EXCEPT ![blk] = blank]
  BY DEF dir_add_entry_block
<1>2. /\ pc = "dir_add_entry" /\ pc' = "dir_add_extent" /\ FreeBlocks # {}
      /\ itab' = itab /\ live' = live /\ wrote' = wrote
  BY DEF dir_add_entry_block, CanGrowDir, hist
<1>3. blk \notin bbm BY <1>1, <1>2, FreeBlockFacts
<1>4. \A i \in live : BlocksOf(itab[i]) \subseteq bbm BY <1>2, NotWriting DEF Mounted
<1>5. \A i \in live : \A b \in BlocksOf(itab[i]) : data'[b] = data[b]
  BY <1>0, <1>1, <1>3, <1>4
<1>. QED BY <1>2, <1>5, HoldKept DEF Reads, Writing

(* A new file is empty; an entry is no file's contents. *)
LEMMA ReadLink ==
  ASSUME Layout, Good, Sound', Reads, dir_add_entry_slot \/ dir_add_extent
  PROVE  Reads'
<1>0. /\ itab \in [Inodes -> Inode] /\ data \in [DataBlocks -> Block] /\ live \subseteq Inodes
      /\ c \in Call /\ c.ino \in Inodes /\ c.parent \in Inodes
      /\ wrote \in [Inodes -> [val : Vals \cup {NoVal}, len : 0 .. MaxLen]]
  BY InodeFacts DEF Call, Layout, TypeOK
<1>11. PICK j \in Inodes : j = c.ino BY <1>0
<1>1. pc' = "flush_sb" /\ Built /\ Linked BY DEF dir_add_entry_slot, dir_add_extent, Linked, Built
<1>2. itab[c.parent].mode = "dir" BY <1>1 DEF Linked, LinkHarm, Sound
<1>3. live' = live \cup {c.ino} /\ c.ino \notin live /\ c.parent \in live
      /\ wrote'[c.ino].len = 0 /\ \A i \in live : wrote'[i] = wrote[i]
  BY <1>0, <1>1, BuiltFacts DEF Linked
<1>4. \A i \in Inodes : i # c.parent => itab'[i] = itab[i]
  BY <1>0 DEF dir_add_entry_slot, dir_add_extent
<1>5. itab'[c.parent].mode = "dir"
  BY <1>0, <1>2 DEF dir_add_entry_slot, dir_add_extent, Inode
<1>6. \A b \in DataBlocks : data'[b].val = data[b].val
  <2>1. CASE dir_add_entry_slot
    <3>1. PICK d, r, e : data' = [data EXCEPT ![d].ent[r] = e]
      BY <2>1 DEF dir_add_entry_slot
    <3>. QED BY <1>0, <3>1 DEF Block
  <2>2. CASE dir_add_extent BY <2>2 DEF dir_add_extent
  <2>. QED BY <2>1, <2>2
<1>7. ASSUME NEW i \in live PROVE HoldsWritten(i)'
  <2>1. CASE i = c.parent BY <1>5, <2>1, HoldDir
  <2>2. CASE i # c.parent
    <3>1. BlocksOf(itab[i]) \subseteq DataBlocks BY InodeFacts
    <3>2. HoldsWritten(i) /\ ~Writing(i) BY <1>1 DEF Reads, Writing, Built
    <3>. QED BY <1>0, <1>3, <1>4, <1>6, <2>2, <3>1, <3>2, HoldKept
  <2>. QED BY <2>1, <2>2
<1>8. HoldsWritten(j)'
  <2>1. itab'[j] = itab[j] BY <1>0, <1>3, <1>4, <1>11
  <2>2. CASE itab[j].mode = "dir" BY <2>1, <2>2, HoldDir
  <2>3. CASE itab[j].mode # "dir"
    <3>1. itab[j] = [mode |-> "reg", extents |-> <<>>]
      BY <1>1, <1>11, <2>3 DEF Good, NewNode
    <3>2. itab[j].mode = "reg" /\ itab[j].extents = <<>> BY <3>1
    <3>3. BlockPos(itab[j]) = {} /\ BlocksOf(itab[j]) = {} BY <3>2, NoBlocks
    <3>4. Cardinality(BlockPos(itab[j])) = 0 BY <3>3, FS_EmptySet
    <3>. QED BY <1>3, <1>11, <2>1, <3>2, <3>3, <3>4 DEF HoldsWritten
  <2>. QED BY <2>2, <2>3
<1>10. ASSUME NEW i \in live' PROVE HoldsWritten(i)'
  BY <1>3, <1>7, <1>8, <1>10, <1>11
<1>. QED BY <1>1, <1>10 DEF Reads

(* One more block of the new contents. *)
LEMMA ReadLoop ==
  ASSUME Layout, Good, Reads, write_loop
  PROVE  Reads'
<1>0. /\ itab \in [Inodes -> Inode] /\ data \in [DataBlocks -> Block] /\ live \subseteq Inodes
      /\ c \in Call /\ \A i \in Inodes : BlocksOf(itab[i]) \subseteq DataBlocks
  BY InodeFacts
<1>1. PICK blk \in Blocks :
        /\ blk = LowestClear(FreeBlocks) /\ bbm' = bbm \cup {blk}
        /\ data' = [data EXCEPT ![blk] = FileBlock(c.val)]
        /\ c' = [c EXCEPT !.left = @ - 1, !.ext = GrowExtents(@, blk)]
  BY DEF write_loop
<1>2. /\ pc = "write_loop" /\ pc' = "write_loop" /\ FreeBlocks # {} /\ c.left > 0
      /\ itab' = itab /\ live' = live /\ wrote' = wrote
  BY DEF write_loop, Writable, hist
<1>3. /\ c'.ino = c.ino /\ c'.ext = GrowExtents(c.ext, blk) /\ c'.val = c.val
      /\ c'.left = c.left - 1 /\ c'.len = c.len /\ c.left \in Nat /\ c.len \in Nat
      /\ c.ext \in Seq(Extent)
  BY <1>0, <1>1, MountAssumption DEF Call
<1>4. blk \in DataBlocks \ bbm BY <1>1, <1>2, FreeBlockFacts
<1>5. \A i \in live : i # c.ino => BlocksOf(itab[i]) \subseteq bbm
  BY <1>2 DEF Good, Marked, Mounted, Owners, Writing
<1>6. /\ data'[blk].val = c.val /\ \A b \in DataBlocks \ {blk} : data'[b] = data[b]
  BY <1>0, <1>1, <1>4 DEF FileBlock
<1>7. c'.ext # <<>>
  <2>1. CASE Len(c.ext) > 0
    <3>1. Len(c'.ext) > 0 BY <1>3, <2>1, OneBlockFacts, <1>4 DEF GrowExtents
    <3>. QED BY <3>1
  <2>2. CASE ~(Len(c.ext) > 0)
    BY <1>3, <1>4, <2>2, OneBlockFacts DEF GrowExtents
  <2>. QED BY <2>1, <2>2
<1>8. ASSUME NEW i \in live PROVE HoldsWritten(i)'
  <2>1. HoldsWritten(i) /\ BlocksOf(itab[i]) \subseteq DataBlocks
    BY <1>0 DEF Reads
  <2>2. CASE i = c.ino
    <3>1. Writing(i)' BY <1>2, <1>3, <2>2 DEF Writing
    <3>. QED BY <1>2, <1>7, <2>1, <3>1, HoldKept
  <2>3. CASE i # c.ino
    <3>1. \A b \in BlocksOf(itab[i]) : data'[b] = data[b] BY <1>4, <1>5, <1>6, <2>1, <2>3
    <3>2. ~Writing(i) BY <2>3 DEF Writing
    <3>. QED BY <1>2, <2>1, <3>1, <3>2, HoldKept
  <2>. QED BY <2>2, <2>3
<1>9. PICK m, n : m = NewFile /\ n = NewFile' OBVIOUS
<1>10. /\ m.extents = c.ext /\ n.extents = GrowExtents(m.extents, blk)
       /\ m.extents \in Seq(Extent) /\ ExtentsInData(m.extents)
  BY <1>3, <1>9 DEF NewFile, Layout, CallWellFormed
<1>11. GrowsBy(m, n, blk) BY <1>4, <1>10, GrowPos
<1>12. PICK new : new \notin BlockPos(m) /\ BlockPos(n) = BlockPos(m) \cup {new}
  BY <1>11 DEF GrowsBy
<1>13. IsFiniteSet(BlockPos(m)) /\ Cardinality(BlockPos(m)) \in Nat
       /\ BlocksOf(m) \subseteq DataBlocks
  <2>. DEFINE inode == [mode |-> "reg", extents |-> c.ext]
  <2>1. inode \in Inode /\ inode.extents = m.extents BY <1>3, <1>10 DEF Inode, Types
  <2>. HIDE DEF inode
  <2>2. IsFiniteSet(BlockPos(inode)) /\ Cardinality(BlockPos(inode)) \in Nat
    BY <2>1, BlockPosFinite
  <2>3. BlocksOf(inode) \subseteq DataBlocks BY <1>10, <2>1, BlocksOfInData
  <2>. QED BY <2>1, <2>2, <2>3, SameExtents
<1>14. Cardinality(BlockPos(n)) = Cardinality(BlockPos(m)) + 1
  BY <1>12, <1>13, FS_AddElement
<1>15. BlocksOf(n) = BlocksOf(m) \cup {blk} BY <1>11, OneMoreBlock
<1>16. /\ Cardinality(BlockPos(m)) + c.left = c.len
       /\ \A b \in BlocksOf(m) : data[b].val = c.val
  BY <1>2, <1>9 DEF Reads
<1>17. Cardinality(BlockPos(n)) + c'.left = c'.len BY <1>3, <1>13, <1>14, <1>16
<1>18. \A b \in BlocksOf(n) : data'[b].val = c'.val
  BY <1>3, <1>6, <1>13, <1>15, <1>16
<1>. QED BY <1>2, <1>8, <1>9, <1>17, <1>18 DEF Reads

(* The inode is written: the blocks of the loop are the file. *)
LEMMA ReadInode ==
  ASSUME Layout, Good, Reads, write_inode
  PROVE  Reads'
<1>0. /\ itab \in [Inodes -> Inode] /\ live \subseteq Inodes /\ c \in Call
      /\ wrote \in [Inodes -> [val : Vals \cup {NoVal}, len : 0 .. MaxLen]]
  BY InodeFacts DEF Layout, TypeOK
<1>1. PICK j \in Inodes : j = c.ino BY <1>0 DEF Call
<1>2. /\ pc = "write_loop" /\ pc' = "flush_sb" /\ c.left = 0 /\ data' = data /\ live' = live
      /\ itab'[j].extents = c.ext /\ itab'[j].mode = itab[j].mode
      /\ wrote'[j].val = c.val /\ wrote'[j].len = c.len
      /\ \A i \in Inodes : i # j => itab'[i] = itab[i] /\ wrote'[i] = wrote[i]
  BY <1>0, <1>1 DEF write_inode, Inode
<1>3. j \in live BY <1>1, <1>2 DEF Good, WriteHolds
<1>4. /\ Cardinality(BlockPos(NewFile)) = c.len
      /\ \A b \in BlocksOf(NewFile) : data[b].val = c.val
  <2>1. Cardinality(BlockPos(NewFile)) + c.left = c.len BY <1>2 DEF Reads
  <2>2. Cardinality(BlockPos(NewFile)) \in Nat
    <3>. DEFINE inode == [mode |-> "reg", extents |-> c.ext]
    <3>1. inode \in Inode /\ inode.extents = NewFile.extents
      BY <1>0 DEF Inode, Types, Call, NewFile
    <3>. HIDE DEF inode
    <3>2. Cardinality(BlockPos(inode)) \in Nat BY <3>1, BlockPosFinite
    <3>. QED BY <3>1, <3>2, SameExtents
  <2>. QED BY <1>2, <2>1, <2>2 DEF Reads
<1>5. HoldsWritten(j)'
  <2>1. BlockPos(itab'[j]) = BlockPos(NewFile) /\ BlocksOf(itab'[j]) = BlocksOf(NewFile)
    BY <1>2, SameExtents DEF NewFile
  <2>2. itab[j].mode \in {"dir", "reg"} BY <1>3 DEF Reads, HoldsWritten
  <2>. QED BY <1>2, <1>4, <2>1, <2>2 DEF HoldsWritten
<1>6. ASSUME NEW i \in live, i # j PROVE HoldsWritten(i)'
  <2>1. HoldsWritten(i) /\ ~Writing(i) BY <1>1, <1>6 DEF Reads, Writing
  <2>. QED BY <1>0, <1>2, <1>6, <2>1, HoldKept
<1>. QED BY <1>2, <1>5, <1>6 DEF Reads

(* Erasing an entry changes no file's contents. *)
LEMMA ReadRm ==
  ASSUME Layout, Good, Reads, NEW p \in Paths, zeros_rm(p)
  PROVE  Reads'
<1>0. /\ data \in [DataBlocks -> Block] /\ live \subseteq Inodes
      /\ \A i \in Inodes : BlocksOf(itab[i]) \subseteq DataBlocks
      /\ wrote \in [Inodes -> [val : Vals \cup {NoVal}, len : 0 .. MaxLen]]
  BY InodeFacts DEF Layout, TypeOK
<1>1. PICK j : j = Resolve(p) OBVIOUS
<1>2. /\ pc = "idle" /\ pc' = "flush_sb" /\ itab' = itab /\ live' = live \ {j}
      /\ data' = Erased(p) /\ wrote' = [wrote EXCEPT ![j] = [val |-> NoVal, len |-> 0]]
  BY <1>1 DEF zeros_rm
<1>3. \A b \in DataBlocks : data'[b].val = data[b].val
  <2>1. PICK d, r : data' \in {data, [data EXCEPT ![d].ent[r] = FreeDirent]}
    BY <1>2 DEF Erased
  <2>. QED BY <1>0, <2>1 DEF Block
<1>4. \A i \in live' : i \in live /\ wrote'[i] = wrote[i] BY <1>0, <1>2
<1>5. ASSUME NEW i \in live' PROVE HoldsWritten(i)'
  <2>1. HoldsWritten(i) /\ ~Writing(i) /\ BlocksOf(itab[i]) \subseteq DataBlocks
    BY <1>0, <1>2, <1>4 DEF Reads, Writing
  <2>. QED BY <1>2, <1>3, <1>4, <2>1, HoldKept
<1>. QED BY <1>2, <1>5 DEF Reads

(* Files read back through every step. *)
LEMMA NextReads ==
  ASSUME GoodInv, ReadInv, [Next]_vars
  PROVE  ReadInv'
<1>. SUFFICES ASSUME harm' \cap {"torn", "mixed"} = {} PROVE Reads' BY DEF ReadInv
<1>0. Layout /\ Good /\ Reads /\ Sound'
  <2>1. harm \subseteq harm' BY HarmGrows
  <2>. QED BY <2>1 DEF GoodInv, ReadInv, Sound
<1>1. CASE ApiCall
  <2>1. CASE zeros_mount_open \/ zeros_mount_close
    BY <1>0, <2>1, ReadSame DEF zeros_mount_open, zeros_mount_close, diskVars, hist
  <2>2. ASSUME NEW p \in Paths,
               zeros_cd(p) \/ zeros_mkdir(p) \/ zeros_mkdir_disk_full(p) \/ zeros_touch(p)
        PROVE  Reads'
    BY <1>0, <2>2, ReadSame DEF zeros_cd, zeros_mkdir, zeros_mkdir_disk_full, MkdirCall,
       zeros_touch, CreateFile, Abandon, diskVars, hist
  <2>3. ASSUME NEW p \in Paths, zeros_rm(p) PROVE Reads' BY <1>0, <2>3, ReadRm
  <2>4. ASSUME NEW p \in Paths, NEW v \in Vals, NEW n \in 0 .. MaxLen,
               zeros_write_file(p, v, n)
        PROVE  Reads'
    <3>1. CASE CreateFile(p, "create", v, n)
      BY <1>0, <3>1, ReadSame DEF CreateFile, diskVars, hist
    <3>2. CASE pc = "idle" /\ StartWrite(p, v, n) /\ UNCHANGED <<diskVars, ibm, cwd, live, wrote>>
      <4>1. n \in Nat BY MountAssumption
      <4>. QED BY <1>0, <3>2, <4>1, ReadStart DEF diskVars
    <3>. QED BY <2>4, <3>1, <3>2 DEF zeros_write_file
  <2>5. ASSUME NEW p \in Paths PROVE ~astray(p) BY <1>0, NoStray
  <2>. QED BY <1>1, <2>1, <2>2, <2>3, <2>4, <2>5 DEF ApiCall
<1>2. CASE Progress
  <2>1. CASE mkdir_init \/ touch_init BY <1>0, <2>1, ReadInit
  <2>2. CASE dir_add_entry_slot \/ dir_add_extent BY <1>0, <2>2, ReadLink
  <2>3. CASE dir_add_entry_block BY <1>0, <2>3, ReadAddBlock
  <2>4. CASE dir_add_entry_fails
    BY <1>0, <2>4, ReadSame DEF dir_add_entry_fails, Abandon, diskVars
  <2>5. CASE write_loop BY <1>0, <2>5, ReadLoop
  <2>6. CASE write_fails
    BY <1>0, <2>6, ReadEnd DEF write_fails, Abandon, diskVars
  <2>7. CASE write_inode BY <1>0, <2>7, ReadInode
  <2>8. CASE flush_sb \/ flush_ibm
    BY <1>0, <2>8, ReadSame DEF flush_sb, flush_ibm, hist
  <2>9. CASE flush_bbm
    <3>1. /\ pc = "flush_bbm" /\ itab' = itab /\ data' = data /\ live' = live /\ wrote' = wrote
      BY <2>9 DEF flush_bbm
    <3>2. CASE StartWrite(c.path, c.val, c.len)
      <4>1. c.len \in Nat BY <1>0, InodeFacts, MountAssumption DEF Call
      <4>. QED BY <1>0, <3>1, <3>2, <4>1, ReadStart
    <3>3. CASE pc' \in {"idle", "unmounted"} BY <1>0, <3>1, <3>3, ReadSame
    <3>. QED BY <2>9, <3>2, <3>3 DEF flush_bbm
  <2>. QED BY <1>2, <2>1, <2>2, <2>3, <2>4, <2>5, <2>6, <2>7, <2>8, <2>9 DEF Progress
<1>3. CASE Crash
  BY <1>0, <1>3, ReadEnd DEF Crash, CrashHarm, diskVars
<1>4. CASE UNCHANGED vars
  <2>1. \A i \in live : HoldsWritten(i)'
    BY <1>0, <1>4, HoldKept DEF vars, Reads, Writing
  <2>. QED BY <1>0, <1>4, <2>1 DEF vars, Reads, NewFile
<1>. QED BY <1>1, <1>2, <1>3, <1>4 DEF Next

(* An empty disk holds no file. *)
LEMMA InitReads == Init => ReadInv
<1>. SUFFICES ASSUME Init PROVE Reads BY DEF ReadInv
<1>1. live = {ROOT} /\ itab[ROOT].mode = "dir" /\ pc = "unmounted"
  BY RootInodes DEF Init
<1>. QED BY <1>1 DEF Reads, HoldsWritten

-----------------------------------------------------------------------------
(* What is marked, step by step. *)

(* Between calls and while a flush runs nothing is held. *)
LEMMA NothingHeld ==
  ASSUME pc \in {"idle"} \cup FlushPcs
  PROVE  RamTight <=> ibm = live /\ bbm = MetaBlocks \cup BlocksOfAll(live)
<1>1. HeldInodes = {} /\ HeldBlocks = {} /\ Keepers = live
  BY DEF HeldInodes, HeldBlocks, Keepers, Owners, Creating, Built, FlushPcs
<1>. QED BY <1>1 DEF RamTight

(* The disk, through the steps that leave inodes and bitmaps on it alone. *)
LEMMA DiskTightSame ==
  ASSUME Tight, ~Flushing, itab' = itab, live' = live, dibm' = dibm, dbbm' = dbbm
  PROVE  DiskTight'
BY DEF Tight, DiskTight, BlocksOfAll

(* zeros_mount_open reads the bitmaps; zeros_cd, zeros_mount_close and the *)
(* first two writes of a flush leave those in RAM alone.                   *)
LEMMA TightQuiet ==
  ASSUME Tight, zeros_mount_open \/ zeros_mount_close \/ flush_sb \/ flush_ibm
                  \/ \E p \in Paths : zeros_cd(p)
  PROVE  Tight'
<1>1. itab' = itab /\ live' = live
  BY DEF zeros_mount_open, zeros_mount_close, flush_sb, flush_ibm, zeros_cd, diskVars, hist
<1>2. BlocksOfAll(live)' = BlocksOfAll(live) BY <1>1 DEF BlocksOfAll
<1>3. CASE zeros_mount_open
  <2>1. /\ pc = "unmounted" /\ pc' = "idle" /\ ibm' = dibm /\ bbm' = dbbm
        /\ dibm' = dibm /\ dbbm' = dbbm
    BY <1>3 DEF zeros_mount_open, diskVars
  <2>2. ~Flushing /\ ~Flushing' BY <2>1 DEF Flushing, FlushPcs
  <2>3. DiskTight BY <2>2 DEF Tight
  <2>5. HeldInodes' = {} /\ HeldBlocks' = {} /\ Keepers' = live
    BY <1>1, <2>1 DEF HeldInodes, HeldBlocks, Keepers, Owners, Creating, Built
  <2>6. RamTight' BY <1>1, <1>2, <2>1, <2>3, <2>5 DEF RamTight, DiskTight
  <2>7. DiskTight' BY <1>1, <2>1, <2>2, DiskTightSame
  <2>. QED BY <2>1, <2>6, <2>7 DEF Tight, FlushPcs
<1>4. CASE ~zeros_mount_open
  <2>1. /\ pc \in {"idle"} \cup FlushPcs /\ pc' \in {"idle"} \cup FlushPcs
        /\ ibm' = ibm /\ bbm' = bbm /\ dbbm' = dbbm
    BY <1>4 DEF zeros_mount_close, flush_sb, flush_ibm, zeros_cd, diskVars, ramVars, FlushPcs
  <2>2. HeldInodes' = {} /\ HeldBlocks' = {} /\ Keepers' = live
    BY <1>1, <2>1 DEF HeldInodes, HeldBlocks, Keepers, Owners, Creating, Built, FlushPcs
  <2>3. RamTight BY <2>1 DEF Tight, Mounted, FlushPcs
  <2>4. ibm = live /\ bbm = MetaBlocks \cup BlocksOfAll(live) BY <2>1, <2>3, NothingHeld
  <2>5. RamTight' BY <1>1, <1>2, <2>1, <2>2, <2>4 DEF RamTight
  <2>6. ~Flushing' => DiskTight'
    <3>1. CASE flush_ibm
      BY <1>1, <1>2, <2>1, <2>4, <3>1 DEF flush_ibm, Flushing, FlushPcs, Tight, DiskTight
    <3>2. CASE ~flush_ibm
      <4>1. dibm' = dibm /\ (~Flushing' => ~Flushing)
        BY <1>4, <3>2 DEF zeros_mount_close, flush_sb, zeros_cd, Flushing, FlushPcs, diskVars
      <4>. QED BY <1>1, <2>1, <4>1, DiskTightSame
    <3>. QED BY <3>1, <3>2
  <2>7. pc' \in FlushPcs => c'.op \in {"mkdir", "touch", "create", "write", "rm", "close"}
    BY <1>4 DEF Tight, zeros_mount_close, flush_sb, flush_ibm, zeros_cd, FlushPcs, NoCall
  <2>8. pc' = "flush_bbm" => dibm' = ibm'
    BY <1>4 DEF zeros_mount_close, flush_sb, flush_ibm, zeros_cd, ramVars
  <2>. QED BY <2>5, <2>6, <2>7, <2>8 DEF Tight
<1>. QED BY <1>3, <1>4

(* The beginning of mkdir, touch and create: the call holds what it took. *)
LEMMA TightStart ==
  ASSUME Layout, Tight, NEW p \in Paths,
         \/ zeros_mkdir(p)
         \/ \E v, n : CreateFile(p, "touch", v, n) \/ CreateFile(p, "create", v, n)
  PROVE  Tight'
<1>1. PICK ino \in Inodes : ibm' = ibm \cup {ino} /\ c'.ino = ino
                              /\ (zeros_mkdir(p) => bbm' = bbm \cup {c'.blk})
  BY DEF zeros_mkdir, CreateFile, TakeInode, NoCall
<1>2. /\ pc = "idle" /\ itab' = itab /\ live' = live /\ dibm' = dibm /\ dbbm' = dbbm
      /\ \/ zeros_mkdir(p) /\ pc' = "mkdir_init"
         \/ bbm' = bbm /\ pc' = "touch_init"
  BY DEF zeros_mkdir, MkdirCall, CreateFile, diskVars, hist
<1>3. ibm = live /\ bbm = MetaBlocks \cup BlocksOfAll(live)
  BY <1>2, NothingHeld DEF Tight, Mounted
<1>4. /\ HeldInodes' = {c'.ino} /\ Keepers' = live
      /\ HeldBlocks' = IF pc' = "mkdir_init" THEN {c'.blk} ELSE {}
  BY <1>2 DEF HeldInodes, HeldBlocks, Keepers, Owners, Creating, Built
<1>5. BlocksOfAll(live)' = BlocksOfAll(live) BY <1>2 DEF BlocksOfAll
<1>6. RamTight' BY <1>1, <1>2, <1>3, <1>4, <1>5 DEF RamTight, BlocksOfAll
<1>7. DiskTight' BY <1>2, DiskTightSame DEF Flushing, FlushPcs
<1>. QED BY <1>2, <1>6, <1>7 DEF Tight, FlushPcs

(* The new inode gets the block the call holds. *)
LEMMA TightInit ==
  ASSUME Layout, Good, Tight, mkdir_init \/ touch_init
  PROVE  Tight'
<1>0. itab \in [Inodes -> Inode] /\ live \subseteq Inodes /\ c.ino \in Inodes
  BY InodeFacts DEF Call
<1>1. /\ pc \in {"mkdir_init", "touch_init"} /\ pc' = "dir_add_entry"
      /\ live' = live /\ dibm' = dibm /\ dbbm' = dbbm /\ ibm' = ibm /\ bbm' = bbm /\ c' = c
  BY DEF mkdir_init, touch_init, ramVars, hist
<1>2. c.ino \notin live BY <1>1 DEF Good, CreateHolds, Creating
<1>3. \A i \in live : itab'[i] = itab[i] BY <1>0, <1>2 DEF mkdir_init, touch_init
<1>4. BlocksOf(itab'[c.ino]) = HeldBlocks
  <2>1. CASE mkdir_init
    <3>1. c.blk \in DataBlocks BY <2>1 DEF mkdir_init, Layout, CallWellFormed
    <3>2. itab'[c.ino].extents = <<OneBlock(c.blk)>> BY <1>0, <2>1 DEF mkdir_init
    <3>3. BlocksOf(itab'[c.ino]) = {c.blk} BY <3>1, <3>2, SingleBlock
    <3>. QED BY <2>1, <3>3 DEF mkdir_init, HeldBlocks
  <2>2. CASE touch_init
    <3>1. itab'[c.ino].extents = <<>> BY <1>0, <2>2 DEF touch_init
    <3>2. BlocksOf(itab'[c.ino]) = {} BY <3>1, NoBlocks
    <3>. QED BY <2>2, <3>2 DEF touch_init, HeldBlocks
  <2>. QED BY <2>1, <2>2
<1>5. /\ HeldInodes = {c.ino} /\ HeldInodes' = {c.ino} /\ HeldBlocks' = {}
      /\ Keepers = live /\ Keepers' = live \cup {c.ino}
  BY <1>1 DEF HeldInodes, HeldBlocks, Keepers, Owners, Creating, Built
<1>6. /\ BlocksOfAll(Keepers)' = BlocksOfAll(live) \cup HeldBlocks
      /\ BlocksOfAll(live)' = BlocksOfAll(live)
  BY <1>1, <1>3, <1>4, <1>5 DEF BlocksOfAll
<1>7. RamTight BY <1>1 DEF Tight, Mounted
<1>8. RamTight' BY <1>1, <1>5, <1>6, <1>7 DEF RamTight
<1>9. DiskTight' BY <1>1, <1>6 DEF Tight, DiskTight, Flushing, FlushPcs
<1>. QED BY <1>1, <1>8, <1>9 DEF Tight, FlushPcs

(* dir_add_entry takes a block and holds it. *)
LEMMA TightAddBlock ==
  ASSUME Layout, Good, Tight, dir_add_entry_block
  PROVE  Tight'
<1>0. c \in Call BY InodeFacts
<1>1. PICK blk \in Blocks : bbm' = bbm \cup {blk} /\ c' = [c EXCEPT !.blk = blk]
  BY DEF dir_add_entry_block
<1>2. /\ pc = "dir_add_entry" /\ pc' = "dir_add_extent" /\ itab' = itab /\ live' = live
      /\ dibm' = dibm /\ dbbm' = dbbm /\ ibm' = ibm /\ c'.blk = blk /\ c'.ino = c.ino
  BY <1>0, <1>1 DEF dir_add_entry_block, hist, Call
<1>3. /\ HeldInodes = {c.ino} /\ HeldInodes' = {c.ino} /\ HeldBlocks = {}
      /\ HeldBlocks' = {blk} /\ Keepers' = Keepers
  BY <1>2 DEF HeldInodes, HeldBlocks, Keepers, Owners, Creating, Built
<1>4. BlocksOfAll(Keepers)' = BlocksOfAll(Keepers) BY <1>2, <1>3 DEF BlocksOfAll
<1>5. RamTight BY <1>2 DEF Tight, Mounted
<1>6. RamTight' BY <1>1, <1>2, <1>3, <1>4, <1>5 DEF RamTight
<1>7. DiskTight' BY <1>2, DiskTightSame DEF Flushing, FlushPcs
<1>. QED BY <1>2, <1>6, <1>7 DEF Tight, FlushPcs

(* The entry makes the inode the call holds, and its block, a live one's. *)
LEMMA TightLink ==
  ASSUME Layout, Good, Tight, dir_add_entry_slot \/ dir_add_extent
  PROVE  Tight'
<1>0. /\ itab \in [Inodes -> Inode] /\ live \subseteq Inodes /\ c \in Call
      /\ c.ino \in Inodes /\ c.parent \in Inodes
      /\ \A i \in Inodes : itab[i] \in Inode /\ ExtentsInData(itab[i].extents)
  BY InodeFacts DEF Call
<1>1. /\ pc \in {"dir_add_entry", "dir_add_extent"} /\ pc' = "flush_sb"
      /\ live' = live \cup {c.ino} /\ ibm' = ibm /\ bbm' = bbm /\ c' = c
  BY DEF dir_add_entry_slot, dir_add_extent, Linked, ramVars
<1>2. Built BY <1>1 DEF Built
<1>3. c.ino \notin live /\ c.parent \in live /\ c.op \in {"mkdir", "touch", "create"}
  BY <1>2, BuiltFacts
<1>4. /\ HeldInodes = {c.ino} /\ HeldInodes' = {} /\ HeldBlocks' = {}
      /\ Keepers = live \cup {c.ino} /\ Keepers' = live \cup {c.ino}
  BY <1>1 DEF HeldInodes, HeldBlocks, Keepers, Owners, Creating, Built
<1>5. BlocksOfAll(Keepers)' = BlocksOfAll(Keepers) \cup HeldBlocks
  <2>1. CASE dir_add_entry_slot
    <3>1. itab' = itab /\ HeldBlocks = {} BY <2>1 DEF dir_add_entry_slot, HeldBlocks
    <3>. QED BY <1>4, <3>1 DEF BlocksOfAll
  <2>2. CASE dir_add_extent
    <3>1. /\ itab'[c.parent].extents = Append(itab[c.parent].extents, OneBlock(c.blk))
          /\ \A i \in Inodes : i # c.parent => itab'[i] = itab[i]
          /\ HeldBlocks = {c.blk}
      BY <1>0, <2>2 DEF dir_add_extent, HeldBlocks, Inode
    <3>2. c.blk \in DataBlocks BY <2>2 DEF dir_add_extent, Layout, CallWellFormed
    <3>3. itab[c.parent].extents \in Seq(Extent) BY <1>0 DEF Inode
    <3>4. GrowsBy(itab[c.parent], itab'[c.parent], c.blk)
      BY <1>0, <3>1, <3>2, <3>3, AppendPos
    <3>5. BlocksOf(itab'[c.parent]) = BlocksOf(itab[c.parent]) \cup {c.blk}
      BY <3>4, OneMoreBlock
    <3>6. \A i \in live \cup {c.ino} : i # c.parent => itab'[i] = itab[i] BY <1>0, <3>1
    <3>. QED BY <1>3, <1>4, <3>1, <3>5, <3>6 DEF BlocksOfAll
  <2>. QED BY <2>1, <2>2
<1>6. RamTight BY <1>1 DEF Tight, Mounted
<1>7. RamTight' BY <1>1, <1>4, <1>5, <1>6 DEF RamTight
<1>8. Flushing' BY <1>1, <1>3 DEF Flushing, FlushPcs
<1>. QED BY <1>1, <1>3, <1>7, <1>8 DEF Tight, FlushPcs

(* Taking the blocks of one inode away takes nothing else. *)
LEMMA ReleaseAll ==
  ASSUME Layout, Good, pc \in {"idle", "flush_bbm"}, NEW j \in live,
         bbm = MetaBlocks \cup BlocksOfAll(live)
  PROVE  Release(itab[j]) = MetaBlocks \cup BlocksOfAll(live \ {j})
<1>1. BlocksOf(itab[j]) \subseteq DataBlocks BY InodeFacts
<1>2. MetaBlocks \cap DataBlocks = {}
  BY GeometryAssumption DEF MetaBlocks, DataBlocks
<1>3. \A i \in live \ {j} : BlocksOf(itab[i]) \cap BlocksOf(itab[j]) = {}
  BY DEF Good, Apart, Owners
<1>. QED BY <1>1, <1>2, <1>3 DEF Release, BlocksOfAll

(* zeros_write_file gives the old blocks back. *)
LEMMA TightStartWrite ==
  ASSUME Layout, Good, pc \in {"idle", "flush_bbm"}, ibm = live,
         bbm = MetaBlocks \cup BlocksOfAll(live), NEW p \in Path, NEW v, NEW n,
         Sound', StartWrite(p, v, n), itab' = itab, live' = live, ibm' = ibm
  PROVE  RamTight'
<1>1. PICK j : j = Resolve(p) OBVIOUS
<1>2. /\ j # NIL /\ bbm' = Release(itab[j]) /\ pc' = "write_loop" /\ ~ThroughFile(p)
      /\ c'.ino = j /\ c'.ext = <<>>
  BY <1>1, RootInodes DEF StartWrite, NoCall, Readable, PathHarm, Sound
<1>3. j \in live BY <1>1, <1>2, ResolveLive DEF Good, Cwd, Mounted
<1>4. HeldBlocks' = {}
  <2>1. NewFile'.extents = <<>> BY <1>2 DEF NewFile
  <2>2. BlocksOf(NewFile') = {} BY <2>1, NoBlocks
  <2>. QED BY <1>2, <2>2 DEF HeldBlocks
<1>5. HeldInodes' = {} /\ Keepers' = live \ {j}
  BY <1>2 DEF HeldInodes, Keepers, Owners, Creating, Built
<1>6. bbm' = MetaBlocks \cup BlocksOfAll(live \ {j}) BY <1>2, <1>3, ReleaseAll
<1>. QED BY <1>4, <1>5, <1>6 DEF RamTight, BlocksOfAll

(* A block joins the new file, which holds it. *)
LEMMA TightLoop ==
  ASSUME Layout, Good, Tight, write_loop
  PROVE  Tight'
<1>0. c \in Call BY InodeFacts
<1>1. PICK blk \in Blocks :
        /\ blk = LowestClear(FreeBlocks) /\ bbm' = bbm \cup {blk}
        /\ c' = [c EXCEPT !.left = @ - 1, !.ext = GrowExtents(@, blk)]
  BY DEF write_loop
<1>2. /\ pc = "write_loop" /\ pc' = "write_loop" /\ itab' = itab /\ live' = live
      /\ dibm' = dibm /\ dbbm' = dbbm /\ ibm' = ibm /\ FreeBlocks # {}
      /\ c'.ino = c.ino /\ c'.ext = GrowExtents(c.ext, blk) /\ c.ext \in Seq(Extent)
  BY <1>0, <1>1 DEF write_loop, Writable, hist, Call
<1>3. blk \in DataBlocks BY <1>1, <1>2, FreeBlockFacts
<1>4. PICK m, n : m = NewFile /\ n = NewFile' OBVIOUS
<1>5. BlocksOf(n) = BlocksOf(m) \cup {blk}
  <2>1. /\ m.extents \in Seq(Extent) /\ ExtentsInData(m.extents)
        /\ n.extents = GrowExtents(m.extents, blk)
    BY <1>2, <1>4 DEF NewFile, Layout, CallWellFormed
  <2>. QED BY <1>3, <2>1, GrowPos, OneMoreBlock
<1>6. HeldBlocks = BlocksOf(m) /\ HeldBlocks' = BlocksOf(n)
  BY <1>2, <1>4 DEF HeldBlocks
<1>7. HeldInodes = {} /\ HeldInodes' = {} /\ Keepers' = Keepers
  BY <1>2 DEF HeldInodes, Keepers, Owners, Creating, Built
<1>8. BlocksOfAll(Keepers)' = BlocksOfAll(Keepers) BY <1>2, <1>7 DEF BlocksOfAll
<1>9. RamTight BY <1>2 DEF Tight, Mounted
<1>10. RamTight' BY <1>1, <1>2, <1>5, <1>6, <1>7, <1>8, <1>9 DEF RamTight
<1>11. DiskTight' BY <1>2, DiskTightSame DEF Flushing, FlushPcs
<1>. QED BY <1>2, <1>10, <1>11 DEF Tight, FlushPcs

(* The inode takes the blocks the call holds. *)
LEMMA TightInode ==
  ASSUME Layout, Good, Tight, write_inode
  PROVE  Tight'
<1>0. itab \in [Inodes -> Inode] /\ live \subseteq Inodes /\ c \in Call /\ c.ino \in Inodes
  BY InodeFacts DEF Call
<1>1. /\ pc = "write_loop" /\ pc' = "flush_sb" /\ live' = live /\ ibm' = ibm /\ bbm' = bbm
      /\ c' = c /\ itab'[c.ino].extents = c.ext
      /\ \A i \in Inodes : i # c.ino => itab'[i] = itab[i]
  BY <1>0 DEF write_inode, ramVars, Inode
<1>2. c.ino \in live /\ c.op = "write" BY <1>1 DEF Good, WriteHolds
<1>3. BlocksOf(itab'[c.ino]) = HeldBlocks
  BY <1>1, SameExtents DEF HeldBlocks, NewFile
<1>4. HeldInodes = {} /\ HeldInodes' = {} /\ HeldBlocks' = {} /\ Keepers = live \ {c.ino}
      /\ Keepers' = live
  BY <1>1 DEF HeldInodes, HeldBlocks, Keepers, Owners, Creating, Built
<1>5. BlocksOfAll(Keepers)' = BlocksOfAll(Keepers) \cup HeldBlocks
  BY <1>0, <1>1, <1>2, <1>3, <1>4 DEF BlocksOfAll
<1>6. RamTight BY <1>1 DEF Tight, Mounted
<1>7. RamTight' BY <1>1, <1>4, <1>5, <1>6 DEF RamTight
<1>8. Flushing' BY <1>1, <1>2 DEF Flushing, FlushPcs
<1>. QED BY <1>1, <1>2, <1>7, <1>8 DEF Tight, FlushPcs

(* A write that fails with nothing written, of a file that had nothing. *)
LEMMA TightWriteFails ==
  ASSUME Layout, Good, Tight, write_fails, harm' = {}
  PROVE  Tight'
<1>1. /\ pc = "write_loop" /\ pc' = "idle" /\ live' = live /\ itab' = itab /\ ibm' = ibm
      /\ bbm' = bbm /\ dibm' = dibm /\ dbbm' = dbbm
      /\ BlocksOf(itab[c.ino]) = {} /\ c.ext = <<>>
  BY DEF write_fails, Abandon, diskVars, ramVars
<1>2. BlocksOf(NewFile) = {}
  <2>1. NewFile.extents = <<>> BY <1>1 DEF NewFile
  <2>. QED BY <2>1, NoBlocks
<1>3. /\ HeldInodes = {} /\ HeldInodes' = {} /\ HeldBlocks = {} /\ HeldBlocks' = {}
      /\ Keepers = live \ {c.ino} /\ Keepers' = live
  BY <1>1, <1>2 DEF HeldInodes, HeldBlocks, Keepers, Owners, Creating, Built
<1>4. BlocksOfAll(Keepers)' = BlocksOfAll(Keepers) BY <1>1, <1>3 DEF BlocksOfAll
<1>5. RamTight BY <1>1 DEF Tight, Mounted
<1>6. RamTight' BY <1>1, <1>3, <1>4, <1>5 DEF RamTight
<1>7. DiskTight' BY <1>1, DiskTightSame DEF Flushing, FlushPcs
<1>. QED BY <1>1, <1>6, <1>7 DEF Tight, FlushPcs

(* zeros_rm frees the inode and the blocks of exactly what it removes. *)
LEMMA TightRm ==
  ASSUME Layout, Good, Tight, Sound', NEW p \in Paths, zeros_rm(p)
  PROVE  Tight'
<1>1. PICK j : j = Resolve(p) OBVIOUS
<1>2. /\ pc = "idle" /\ pc' = "flush_sb" /\ c'.op = "rm" /\ j # NIL /\ itab' = itab
      /\ bbm' = Release(itab[j]) /\ ibm' = ibm \ {j} /\ live' = live \ {j}
      /\ ~ThroughFile(p)
  BY <1>1, RootInodes DEF zeros_rm, Removable, NoCall, Readable, PathHarm, Sound
<1>3. j \in live BY <1>1, <1>2, ResolveLive, MountAssumption DEF Good, Cwd, Mounted
<1>4. ibm = live /\ bbm = MetaBlocks \cup BlocksOfAll(live)
  BY <1>2, NothingHeld DEF Tight, Mounted
<1>5. bbm' = MetaBlocks \cup BlocksOfAll(live \ {j}) BY <1>2, <1>3, <1>4, ReleaseAll
<1>6. HeldInodes' = {} /\ HeldBlocks' = {} /\ Keepers' = live'
  BY <1>2 DEF HeldInodes, HeldBlocks, Keepers, Owners, Creating, Built
<1>7. RamTight' BY <1>2, <1>4, <1>5, <1>6 DEF RamTight, BlocksOfAll
<1>8. Flushing' BY <1>2 DEF Flushing, FlushPcs
<1>. QED BY <1>2, <1>7, <1>8 DEF Tight, FlushPcs

(* The end of the flush: disk and RAM agree, before zeros_write_file goes  *)
(* on.                                                                     *)
LEMMA TightFlushBbm ==
  ASSUME Layout, Good, Tight, Sound', flush_bbm
  PROVE  Tight'
<1>1. /\ pc = "flush_bbm" /\ itab' = itab /\ live' = live /\ dibm' = dibm /\ dbbm' = bbm
  BY DEF flush_bbm
<1>2. ibm = live /\ bbm = MetaBlocks \cup BlocksOfAll(live) /\ dibm = ibm
  BY <1>1, NothingHeld DEF Tight, Mounted, FlushPcs
<1>3. BlocksOfAll(live)' = BlocksOfAll(live) BY <1>1 DEF BlocksOfAll
<1>4. DiskTight' BY <1>1, <1>2, <1>3 DEF DiskTight
<1>5. CASE StartWrite(c.path, c.val, c.len) /\ UNCHANGED <<ibm, cwd>>
  <2>1. c.path \in Path BY InodeFacts DEF Call
  <2>2. RamTight' BY <1>1, <1>2, <1>5, <2>1, TightStartWrite
  <2>3. pc' = "write_loop" BY <1>5 DEF StartWrite
  <2>. QED BY <1>4, <2>2, <2>3 DEF Tight, FlushPcs
<1>6. CASE pc' = "idle" /\ UNCHANGED ramVars
  <2>1. HeldInodes' = {} /\ HeldBlocks' = {} /\ Keepers' = live
    BY <1>1, <1>6 DEF HeldInodes, HeldBlocks, Keepers, Owners, Creating, Built
  <2>2. RamTight' BY <1>1, <1>2, <1>3, <1>6, <2>1 DEF RamTight, ramVars
  <2>. QED BY <1>4, <1>6, <2>2 DEF Tight, FlushPcs
<1>7. CASE pc' = "unmounted" BY <1>4, <1>7 DEF Tight, Mounted, FlushPcs
<1>. QED BY <1>5, <1>6, <1>7 DEF flush_bbm

(* Nothing is lost by a step that does no damage. *)
LEMMA NextTight ==
  ASSUME GoodInv, LeakInv, [Next]_vars
  PROVE  LeakInv'
<1>. SUFFICES ASSUME harm' = {} PROVE Tight' BY DEF LeakInv
<1>0. harm = {} /\ Layout /\ Good /\ Tight /\ Sound'
  <2>1. harm \subseteq harm' BY HarmGrows
  <2>. QED BY <2>1 DEF GoodInv, LeakInv, Sound
<1>1. CASE ApiCall
  <2>1. CASE zeros_mount_open \/ zeros_mount_close BY <1>0, <2>1, TightQuiet
  <2>2. ASSUME NEW p \in Paths, zeros_cd(p) PROVE Tight' BY <1>0, <2>2, TightQuiet
  <2>3. ASSUME NEW p \in Paths, zeros_mkdir(p) \/ zeros_touch(p) PROVE Tight'
    BY <1>0, <2>3, TightStart DEF zeros_touch
  <2>4. ASSUME NEW p \in Paths, zeros_mkdir_disk_full(p) PROVE Tight'
    BY <2>4 DEF zeros_mkdir_disk_full, Abandon
  <2>5. ASSUME NEW p \in Paths, zeros_rm(p) PROVE Tight' BY <1>0, <2>5, TightRm
  <2>6. ASSUME NEW p \in Paths, NEW v \in Vals, NEW n \in 0 .. MaxLen,
               zeros_write_file(p, v, n)
        PROVE  Tight'
    <3>1. CASE CreateFile(p, "create", v, n) BY <1>0, <3>1, TightStart
    <3>2. CASE pc = "idle" /\ StartWrite(p, v, n) /\ UNCHANGED <<diskVars, ibm, cwd, live, wrote>>
      <4>1. p \in Path BY MountAssumption
      <4>2. ibm = live /\ bbm = MetaBlocks \cup BlocksOfAll(live)
        BY <1>0, <3>2, NothingHeld DEF Tight, Mounted
      <4>3. RamTight' BY <1>0, <3>2, <4>1, <4>2, TightStartWrite DEF diskVars
      <4>4. pc' = "write_loop" BY <3>2 DEF StartWrite
      <4>5. DiskTight' BY <1>0, <3>2, DiskTightSame DEF Flushing, FlushPcs, diskVars
      <4>. QED BY <4>3, <4>4, <4>5 DEF Tight, FlushPcs
    <3>. QED BY <2>6, <3>1, <3>2 DEF zeros_write_file
  <2>7. ASSUME NEW p \in Paths PROVE ~astray(p) BY <1>0, NoStray
  <2>. QED BY <1>1, <2>1, <2>2, <2>3, <2>4, <2>5, <2>6, <2>7 DEF ApiCall
<1>2. CASE Progress
  <2>1. ~dir_add_entry_fails BY <1>0 DEF dir_add_entry_fails, Abandon
  <2>. QED BY <1>0, <1>2, <2>1, TightInit, TightLink, TightAddBlock, TightLoop,
       TightWriteFails, TightInode, TightQuiet, TightFlushBbm DEF Progress
<1>3. CASE Crash
  <2>1. /\ pc' = "unmounted" /\ itab' = itab /\ live' = live /\ dibm' = dibm /\ dbbm' = dbbm
        /\ ~Committing /\ ~(pc \in FlushPcs /\ c.op = "rm")
    BY <1>3 DEF Crash, CrashHarm, diskVars
  <2>2. ~Flushing BY <1>0, <2>1 DEF Flushing, Committing, Tight
  <2>3. DiskTight' BY <1>0, <2>1, <2>2, DiskTightSame
  <2>. QED BY <2>1, <2>3 DEF Tight, Mounted, FlushPcs
<1>4. CASE UNCHANGED vars
  BY <1>0, <1>4 DEF vars, Tight, RamTight, DiskTight, BlocksOfAll, HeldInodes, HeldBlocks,
     Keepers, Owners, Creating, Built, NewFile, Flushing, Mounted
<1>. QED BY <1>1, <1>2, <1>3, <1>4 DEF Next

(* zeros_format marks the root directory and its block. *)
LEMMA InitTight == Init => LeakInv
<1>. SUFFICES ASSUME Init PROVE Tight BY DEF LeakInv
<1>0. DataStart \in DataBlocks /\ ROOT \in Inodes
  BY GeometryAssumption, RootInodes DEF DataBlocks
<1>1. /\ pc = "unmounted" /\ live = {ROOT} /\ dibm = {ROOT} /\ dbbm = MetaBlocks \cup {DataStart}
      /\ itab[ROOT].extents = <<OneBlock(DataStart)>>
  BY <1>0 DEF Init
<1>2. BlocksOf(itab[ROOT]) = {DataStart} BY <1>0, <1>1, SingleBlock
<1>3. BlocksOfAll(live) = {DataStart} BY <1>1, <1>2 DEF BlocksOfAll
<1>. QED BY <1>1, <1>3 DEF Tight, DiskTight, Mounted, FlushPcs

-----------------------------------------------------------------------------
(* The three together hold in every reachable state. *)
THEOREM DataInvariant == Spec => [](CountInv /\ ReadInv /\ LeakInv)
<1>1. Init => CountInv /\ ReadInv /\ LeakInv BY InitCounts, InitReads, InitTight
<1>2. GoodInv /\ (CountInv /\ ReadInv /\ LeakInv) /\ [Next]_vars
        => (CountInv /\ ReadInv /\ LeakInv)'
  BY NextCounts, NextReads, NextTight
<1>. QED BY <1>1, <1>2, GoodInvariant, PTL DEF Spec

(* free_inodes and free_blocks of the mounted superblock count the clear   *)
(* bits of its bitmaps, on a disk of any size, through every call that     *)
(* fails half way and every crash but one inside the flush.                *)
THEOREM CountersAlwaysMatch == Spec => []CountersMatch
<1>1. CountInv => CountersMatch
  BY DEF CountInv, Counts, Counted, CountersMatch, FreeInodes, FreeBlocks
<1>. QED BY <1>1, DataInvariant, PTL

(* A file reads back as it was last written, whatever happened to other    *)
(* files since.                                                            *)
THEOREM AlwaysReadsBack == Spec => []ReadBack
<1>1. ReadInv => ReadBack
  BY DEF ReadInv, Reads, HoldsWritten, ReadBack
<1>. QED BY <1>1, DataInvariant, PTL

(* Between calls the marked inodes and blocks are exactly those of the     *)
(* tree, in RAM and on disk, as long as no call failed half way.           *)
THEOREM NothingEverLost == Spec => []NothingLost
<1>1. GoodInv /\ CountInv /\ LeakInv => NothingLost
  <2>. SUFFICES ASSUME Layout, CountInv, LeakInv, harm = {}, pc = "idle"
                PROVE  /\ ibm = live /\ dibm = live
                       /\ bbm = MetaBlocks \cup UNION {BlocksOf(itab[i]) : i \in live}
                       /\ dbbm = bbm /\ dsb = sb
    BY DEF NothingLost, GoodInv, Sound
  <2>1. Tight BY DEF LeakInv
  <2>2. ibm = live /\ bbm = MetaBlocks \cup BlocksOfAll(live)
    BY <2>1, NothingHeld DEF Tight, Mounted
  <2>3. dibm = live /\ dbbm = MetaBlocks \cup BlocksOfAll(live)
    BY <2>1 DEF Tight, Flushing, FlushPcs, DiskTight
  <2>4. Counted(sb, ibm, bbm) /\ Counted(dsb, dibm, dbbm)
    BY DEF CountInv, Counts, Mounted
  <2>5. sb \in Counters /\ dsb \in Counters BY DEF Layout, TypeOK
  <2>6. dsb = sb BY <2>2, <2>3, <2>4, <2>5 DEF Counted, Counters
  <2>. QED BY <2>2, <2>3, <2>6 DEF BlocksOfAll
<1>. QED BY <1>1, GoodInvariant, DataInvariant, PTL

-----------------------------------------------------------------------------
(* Part 4.  The refinement of ZerosTree. *)

(* What the mapping computes while nothing is damaged: a node for every    *)
(* live inode, from the one link that names it, and the contents the file  *)
(* was last written with.                                                  *)
NodeAt(i, b, s) ==
  [kind |-> itab[Ent(b, s).inode].mode, parent |-> i, name |-> Ent(b, s).name]

Mapped ==
  /\ NodeMap = [j \in live |-> NodeMap[j]] /\ NodeMap[ROOT] = RootNode
  /\ \A i \in live, b \in DataBlocks, s \in Slots :
       IsLink(i, b, s) => NodeMap[Ent(b, s).inode] = NodeAt(i, b, s)
  /\ ContentMap = [j \in live |-> wrote[j]]

(* zeros_read_file finds what wrote says. *)
LEMMA ContentIs ==
  ASSUME Layout, Good, Reads, NEW j \in live
  PROVE  ContentOf(j) = wrote[j]
<1>0. /\ itab[j] \in Inode /\ ExtentsInData(itab[j].extents)
      /\ wrote[j] \in [val : Vals \cup {NoVal}, len : 0 .. MaxLen]
  BY InodeFacts DEF Layout, TypeOK
<1>1. CASE itab[j].mode = "dir" \/ Writing(j) BY <1>1 DEF ContentOf
<1>2. CASE ~(itab[j].mode = "dir" \/ Writing(j))
  <2>. DEFINE n == itab[j]
  <2>1. /\ Cardinality(BlockPos(n)) = wrote[j].len
        /\ \A b \in BlocksOf(n) : data[b].val = wrote[j].val
    BY <1>2 DEF Reads, HoldsWritten
  <2>2. ASSUME BlockPos(n) # {} PROVE data[BlockAt(n, <<1, 0>>)].val = wrote[j].val
    <3>1. PICK p \in BlockPos(n) : TRUE BY <2>2
    <3>2. Len(n.extents) \in Nat /\ 1 \in 1 .. Len(n.extents)
      BY <1>0, <3>1 DEF BlockPos, Inode
    <3>3. n.extents[1].length > 0 BY <1>0, <3>2 DEF ExtentsInData
    <3>4. <<1, 0>> \in BlockPos(n) BY <3>2, <3>3, GeometryAssumption DEF BlockPos
    <3>. QED BY <2>1, <3>4 DEF BlocksOf
  <2>3. ContentOf(j) = [len |-> wrote[j].len, val |-> wrote[j].val]
    BY <1>2, <2>1, <2>2 DEF ContentOf
  <2>. QED BY <1>0, <2>3
<1>. QED BY <1>1, <1>2

(* The mapping, state by state. *)
LEMMA MapFacts == Layout /\ Good /\ Reads /\ ~Damaged => Mapped
<1>. SUFFICES ASSUME Layout, Good, Reads, ~Damaged PROVE Mapped OBVIOUS
<1>0. LinksSound BY TreeInvMeans DEF Good
<1>1. {Target(h) : h \in Links} = live \ {ROOT} BY <1>0 DEF LinksSound
<1>2. ROOT \in live BY DEF Good, TreeInv
<1>3. Named(Links) = live BY <1>1, <1>2 DEF Named
<1>4. NodeMap = [j \in live |->
                   IF j = ROOT THEN RootNode
                   ELSE NodeOf(CHOOSE h \in Links : Target(h) = j)]
  BY <1>3 DEF NodeMap
<1>5. ContentMap = [j \in live |-> wrote[j]]
  BY <1>3, ContentIs DEF ContentMap
<1>6. ASSUME NEW i \in live, NEW b \in DataBlocks, NEW s \in Slots, IsLink(i, b, s)
      PROVE  NodeMap[Ent(b, s).inode] = NodeAt(i, b, s)
  <2>1. PICK g : g = <<i, b, s>> OBVIOUS
  <2>2. /\ g \in Links /\ Target(g) = Ent(b, s).inode /\ At(g) = Ent(b, s) /\ g[1] = i
    BY <1>6, <2>1, LinkOf
  <2>3. Target(g) \in live \ {ROOT} BY <1>1, <2>2
  <2>4. \A h \in Links : Target(h) = Target(g) => h = g BY <1>0, <2>2 DEF LinksSound
  <2>5. (CHOOSE h \in Links : Target(h) = Target(g)) = g BY <2>2, <2>4
  <2>6. NodeMap[Target(g)] = NodeOf(g) BY <1>4, <2>3, <2>5
  <2>. QED BY <2>2, <2>6 DEF NodeOf, NodeAt
<1>. QED BY <1>2, <1>4, <1>5, <1>6 DEF Mapped

(* Every live inode but root has its node from a link. *)
LEMMA NodeLinked ==
  ASSUME Good, NEW j \in live, j # ROOT
  PROVE  \E i \in live, b \in DataBlocks, s \in Slots : IsLink(i, b, s) /\ Ent(b, s).inode = j
BY DEF Good, TreeInv, TreeLinks

(* A step that keeps a link keeps the node. *)
LEMMA NodeKept ==
  ASSUME Good, Mapped, Mapped', live \subseteq Inodes, NEW j \in live, j \in live',
         j # ROOT => itab'[j].mode = itab[j].mode,
         \A i \in live, b \in DataBlocks, s \in Slots :
            IsLink(i, b, s) /\ Ent(b, s).inode = j =>
              i \in live' /\ IsLink(i, b, s)' /\ Ent(b, s)' = Ent(b, s)
  PROVE  NodeMap'[j] = NodeMap[j]
<1>1. CASE j = ROOT BY <1>1 DEF Mapped, RootNode
<1>2. CASE j # ROOT
  <2>1. PICK i \in live, b \in DataBlocks, s \in Slots : IsLink(i, b, s) /\ Ent(b, s).inode = j
    BY <1>2, NodeLinked
  <2>2. i \in live' /\ IsLink(i, b, s)' /\ Ent(b, s)' = Ent(b, s) BY <2>1
  <2>3. NodeMap[j] = NodeAt(i, b, s) BY <2>1 DEF Mapped
  <2>4. NodeMap'[j] = NodeAt(i, b, s)' BY <2>1, <2>2 DEF Mapped
  <2>. QED BY <1>2, <2>1, <2>2, <2>3, <2>4 DEF NodeAt
<1>. QED BY <1>1, <1>2

-----------------------------------------------------------------------------
(* Steps that leave the directories alone. *)

DirsKept ==
  /\ live' = live
  /\ \A i \in live :
       /\ itab'[i].mode = itab[i].mode
       /\ itab[i].mode = "dir" =>
            /\ BlocksOf(itab'[i]) = BlocksOf(itab[i])
            /\ \A b \in BlocksOf(itab[i]) : data'[b].ent = data[b].ent

(* They change no node of the tree. *)
LEMMA NodesSame ==
  ASSUME Layout, Good, Mapped, Mapped', DirsKept
  PROVE  NodeMap' = NodeMap
<1>1. live \subseteq Inodes BY InodeFacts
<1>2. \A i \in live, b \in DataBlocks, s \in Slots :
        IsLink(i, b, s) => IsLink(i, b, s)' /\ Ent(b, s)' = Ent(b, s)
  BY DEF DirsKept, IsLink, Used, Ent
<1>3. \A j \in live : NodeMap'[j] = NodeMap[j]
  BY <1>1, <1>2, NodeKept DEF DirsKept
<1>. QED BY <1>3 DEF Mapped, DirsKept

(* Most steps write no directory at all. *)
LEMMA QuietKeepsDirs ==
  ASSUME itab' = itab, data' = data, live' = live
  PROVE  DirsKept
BY DEF DirsKept

(* The inode and the blocks a call prepares belong to no live directory.   *)
LEMMA PrepareKeepsDirs ==
  ASSUME Layout, Good,
         mkdir_init \/ touch_init \/ dir_add_entry_block \/ write_loop \/ write_inode
  PROVE  DirsKept /\ (~write_inode => wrote' = wrote)
<1>0. /\ itab \in [Inodes -> Inode] /\ data \in [DataBlocks -> Block] /\ live \subseteq Inodes
      /\ c.ino \in Inodes /\ \A i \in Inodes : BlocksOf(itab[i]) \subseteq DataBlocks
  BY InodeFacts DEF Call
<1>1. live' = live /\ (~write_inode => wrote' = wrote)
  BY DEF mkdir_init, touch_init, dir_add_entry_block, write_loop, write_inode, hist
<1>2. CASE mkdir_init \/ touch_init
  <2>1. pc \in {"mkdir_init", "touch_init"} BY <1>2 DEF mkdir_init, touch_init
  <2>2. c.ino \notin live BY <2>1 DEF Good, CreateHolds, Creating
  <2>3. \A i \in live : itab'[i] = itab[i] BY <1>0, <1>2, <2>2 DEF mkdir_init, touch_init
  <2>4. mkdir_init => \A i \in live : c.blk \notin BlocksOf(itab[i])
    BY DEF mkdir_init, Good, BlockHeld, Owners
  <2>5. \A i \in live : \A b \in BlocksOf(itab[i]) : data'[b] = data[b]
    BY <1>0, <1>2, <2>4 DEF mkdir_init, touch_init
  <2>. QED BY <1>1, <2>3, <2>5 DEF DirsKept
<1>3. CASE dir_add_entry_block \/ write_loop
  <2>1. PICK blk \in Blocks :
          blk = LowestClear(FreeBlocks) /\ \E x : data' = [data EXCEPT ![blk] = x]
    BY <1>3 DEF dir_add_entry_block, write_loop
  <2>2. /\ FreeBlocks # {} /\ itab' = itab /\ pc \in {"dir_add_entry", "write_loop"}
    BY <1>3 DEF dir_add_entry_block, CanGrowDir, write_loop, Writable
  <2>3. blk \notin bbm BY <2>1, <2>2, FreeBlockFacts
  <2>4. \A i \in live : itab[i].mode = "dir" => BlocksOf(itab[i]) \subseteq bbm
    BY <2>2 DEF Good, Marked, Mounted, Owners, Writing, WriteHolds
  <2>5. \A i \in live : itab[i].mode = "dir" =>
          \A b \in BlocksOf(itab[i]) : data'[b] = data[b]
    BY <1>0, <2>1, <2>3, <2>4
  <2>. QED BY <1>1, <2>2, <2>5 DEF DirsKept
<1>4. CASE write_inode
  <2>1. /\ itab'[c.ino].mode = itab[c.ino].mode /\ data' = data
        /\ \A i \in Inodes : i # c.ino => itab'[i] = itab[i]
    BY <1>0, <1>4 DEF write_inode, Inode
  <2>2. itab[c.ino].mode # "dir" BY <1>4 DEF write_inode, Good, WriteHolds
  <2>. QED BY <1>0, <1>1, <1>4, <2>1, <2>2 DEF DirsKept
<1>. QED BY <1>1, <1>2, <1>3, <1>4

-----------------------------------------------------------------------------
(* The steps of the tree. *)

(* Everything a step of an undamaged handle may rely on. *)
Stable == Layout /\ Good /\ Reads /\ ~Damaged /\ Mapped

(* A step that changes no entry and no contents is no step of the tree. *)
LEMMA StutterStep ==
  ASSUME Stable, Stable', DirsKept, wrote' = wrote
  PROVE  UNCHANGED Tree!treeVars
<1>1. NodeMap' = NodeMap BY NodesSame DEF Stable
<1>2. ContentMap' = ContentMap BY DEF Stable, Mapped, DirsKept
<1>3. Damaged' = Damaged BY DEF Stable, Damaged
<1>. QED BY <1>1, <1>2, <1>3 DEF Tree!treeVars

(* The inode is written with the blocks of the new contents: Write. *)
LEMMA WriteStep ==
  ASSUME Stable, Stable', write_inode
  PROVE  Tree!TreeNext
<1>0. /\ c.ino \in Inodes /\ live \subseteq Inodes
      /\ wrote \in [Inodes -> [val : Vals \cup {NoVal}, len : 0 .. MaxLen]]
      /\ wrote' \in [Inodes -> [val : Vals \cup {NoVal}, len : 0 .. MaxLen]]
  BY InodeFacts DEF Call, Layout, TypeOK, Stable
<1>1. PICK j \in Inodes : j = c.ino BY <1>0
<1>2. /\ pc = "write_loop" /\ live' = live
      /\ wrote' = [wrote EXCEPT ![j] = [val |-> c.val, len |-> c.len]]
  BY <1>1 DEF write_inode
<1>3. j \in live /\ itab[j].mode # "dir" BY <1>1, <1>2 DEF Stable, Good, WriteHolds
<1>4. itab[j].mode = "reg" /\ j # ROOT
  BY <1>3 DEF Stable, Reads, HoldsWritten, Good, TreeInv
<1>5. NodeMap' = NodeMap
  <2>1. DirsKept BY PrepareKeepsDirs DEF Stable
  <2>. QED BY <2>1, NodesSame DEF Stable
<1>6. NodeMap[j].kind = "reg"
  <2>1. PICK i \in live, b \in DataBlocks, s \in Slots : IsLink(i, b, s) /\ Ent(b, s).inode = j
    BY <1>3, <1>4, NodeLinked DEF Stable
  <2>2. NodeMap[j] = NodeAt(i, b, s) BY <2>1 DEF Stable, Mapped
  <2>. QED BY <1>4, <2>1, <2>2 DEF NodeAt
<1>7. ContentMap' = [ContentMap EXCEPT ![j] = wrote'[j]]
  BY <1>0, <1>2, <1>3 DEF Stable, Mapped
<1>8. DOMAIN NodeMap = live BY DEF Stable, Mapped
<1>9. Damaged' = Damaged BY DEF Stable, Damaged
<1>10. Tree!Write(j, wrote'[j]) BY <1>5, <1>6, <1>7, <1>9 DEF Tree!Write
<1>11. Tree!Step BY <1>0, <1>3, <1>8, <1>10 DEF Tree!Step, Tree!Known
<1>. QED BY <1>11 DEF Tree!TreeNext, Stable

(* The names the tree knows, "" among them: it is the name of the root. *)
LinkName == Components \cup {""}

(* The entry is on disk: Create. *)
LEMMA CreateStep ==
  ASSUME Stable, Stable', dir_add_entry_slot \/ dir_add_extent
  PROVE  Tree!TreeNext
<1>0. /\ c.ino \in Inodes /\ c.path.name \in LinkName /\ live \subseteq Inodes
      /\ live' \subseteq Inodes
      /\ wrote \in [Inodes -> [val : Vals \cup {NoVal}, len : 0 .. MaxLen]]
  <2>1. /\ c \in Call /\ live \subseteq Inodes /\ live' \subseteq Inodes
        /\ wrote \in [Inodes -> [val : Vals \cup {NoVal}, len : 0 .. MaxLen]]
    BY InodeFacts DEF Stable, Layout, TypeOK
  <2>2. c.ino \in Inodes /\ c.path \in Path BY <2>1 DEF Call
  <2>3. c.path.name \in LinkName BY <2>2, Zenon DEF Path, LinkName
  <2>. QED BY <2>1, <2>2, <2>3
<1>1. Built /\ Linked BY DEF dir_add_entry_slot, dir_add_extent, Built
<1>2. Sound' BY DEF Stable, Damaged, Sound
<1>3. Entered BY <1>2, AddSlotGood, AddExtentGood DEF Stable
<1>4. PICK d \in DataBlocks, r \in Slots :
        itab[c.parent].mode = "dir" /\ AddsEntry(c.parent, c.ino, d, r, c.path.name)
  BY <1>3 DEF Entered
<1>5. PICK k \in live, j \in Inodes : k = c.parent /\ j = c.ino BY <1>0, <1>1, BuiltFacts DEF Stable
<1>5a. PICK name \in LinkName : name = c.path.name BY <1>0
<1>6. /\ k \in live /\ j \in Inodes /\ j \notin live /\ itab[k].mode = "dir"
      /\ AddsEntry(k, j, d, r, name) /\ name \in LinkName
      /\ \A b \in BlocksOf(itab[k]), s \in Slots :
           Ent(b, s).inode # NIL => Ent(b, s).name # name
  BY <1>0, <1>1, <1>4, <1>5, <1>5a, BuiltFacts DEF Stable
<1>7. live' = live \cup {j} /\ j # ROOT /\ j # NIL
  BY <1>6, RootInodes DEF AddsEntry, Stable, Good, TreeInv
<1>8. \A i \in live, b \in DataBlocks, s \in Slots : IsLink(i, b, s) =>
        i \in live' /\ IsLink(i, b, s)' /\ Ent(b, s)' = Ent(b, s)
  <2>. TAKE i \in live, b \in DataBlocks, s \in Slots
  <2>1. CASE i # k BY <1>6, <2>1 DEF AddsEntry, IsLink, Used, Ent
  <2>2. CASE i = k /\ b # d BY <1>6, <2>2 DEF AddsEntry, IsLink, Used, Ent
  <2>3. CASE i = k /\ b = d BY <1>6, <2>3 DEF AddsEntry, IsLink, Used, Ent
  <2>. QED BY <2>1, <2>2, <2>3
<1>9. \A i \in live : itab'[i].mode = itab[i].mode BY <1>6 DEF AddsEntry
<1>10. \A i \in live : NodeMap'[i] = NodeMap[i]
  BY <1>0, <1>7, <1>8, <1>9, NodeKept DEF Stable
<1>11. name \notin {".", ".."}
  <2>1. \A n \in {".", ".."} : \E b \in DataBlocks, s \in Slots :
           Used(k, b, s) /\ Ent(b, s).name = n
    BY <1>6 DEF Stable, Good, TreeInv, TreeDots
  <2>. QED BY <1>6, <2>1 DEF Used
<1>12. /\ k \in live' /\ IsLink(k, d, r)' /\ Ent(d, r)'.inode = j /\ Ent(d, r)'.name = name
  BY <1>6, <1>7, <1>9, <1>11 DEF AddsEntry, IsLink, Used, Ent
<1>13. NodeMap'[j] = [kind |-> itab'[j].mode, parent |-> k, name |-> name]
  <2>1. NodeMap'[Ent(d, r)'.inode] = NodeAt(k, d, r)' BY <1>12 DEF Stable, Mapped
  <2>. QED BY <1>12, <2>1 DEF NodeAt
<1>14. itab'[j].mode \in {"dir", "reg"} BY <1>7 DEF Stable, Reads, HoldsWritten
<1>15. DOMAIN NodeMap = live /\ NodeMap' = [x \in live' |-> NodeMap'[x]]
  BY DEF Stable, Mapped
<1>16. NodeMap[k].kind = "dir"
  <2>1. CASE k = ROOT
    <3>1. PICK z : RootNode = [kind |-> "dir", parent |-> ROOT, name |-> z]
      BY Zenon DEF RootNode
    <3>. QED BY <2>1, <3>1 DEF Stable, Mapped
  <2>2. CASE k # ROOT
    <3>1. PICK i \in live, b \in DataBlocks, s \in Slots : IsLink(i, b, s) /\ Ent(b, s).inode = k
      BY <1>6, <2>2, NodeLinked DEF Stable
    <3>2. NodeMap[k] = NodeAt(i, b, s) BY <3>1 DEF Stable, Mapped
    <3>. QED BY <1>6, <3>1, <3>2 DEF NodeAt
  <2>. QED BY <2>1, <2>2
<1>17. ASSUME NEW x \in live \ {ROOT}, NodeMap[x].parent = k
       PROVE  NodeMap[x].name # name
  <2>1. PICK i \in live, b \in DataBlocks, s \in Slots : IsLink(i, b, s) /\ Ent(b, s).inode = x
    BY NodeLinked DEF Stable
  <2>2. NodeMap[x] = NodeAt(i, b, s) BY <2>1 DEF Stable, Mapped
  <2>3. i = k BY <1>17, <2>2 DEF NodeAt
  <2>4. b \in BlocksOf(itab[k]) /\ Ent(b, s).inode # NIL BY <2>1, <2>3 DEF IsLink, Used
  <2>. QED BY <1>6, <2>2, <2>4 DEF NodeAt
<1>18. ContentMap' = [x \in live \cup {j} |->
                        IF x = j THEN [val |-> NoVal, len |-> 0] ELSE ContentMap[x]]
  <2>1. wrote' = [wrote EXCEPT ![j] = [val |-> NoVal, len |-> 0]]
    BY <1>1, <1>5 DEF Linked
  <2>. QED BY <1>0, <1>6, <1>7, <2>1 DEF Stable, Mapped
<1>19. Damaged' = Damaged BY DEF Stable, Damaged
<1>20. NodeMap' = [x \in live \cup {j} |->
                     IF x = j THEN [kind |-> itab'[j].mode, parent |-> k, name |-> name]
                     ELSE NodeMap[x]]
  BY <1>7, <1>10, <1>13, <1>15
<1>21. \A x \in Tree!Children(k) : NodeMap[x].name # name
  BY <1>15, <1>17 DEF Tree!Children, Tree!Known
<1>22. Tree!Create(j, itab'[j].mode, k, name)
  BY <1>15, <1>16, <1>18, <1>19, <1>20, <1>21 DEF Tree!Create, Tree!Known
<1>23. Tree!Step
  <2>1. name \in Components \cup {""} BY Zenon DEF LinkName
  <2>2. j \in Inodes \ DOMAIN NodeMap /\ k \in DOMAIN NodeMap BY <1>6, <1>15
  <2>. QED BY <1>14, <1>22, <2>1, <2>2, Zenon DEF Tree!Step, Tree!Known
<1>. QED BY <1>23 DEF Tree!TreeNext, Stable

(* The entry is erased: Remove. *)
LEMMA RemoveStep ==
  ASSUME Stable, Stable', NEW p \in Paths, zeros_rm(p)
  PROVE  Tree!TreeNext
<1>0. /\ live \subseteq Inodes /\ data \in [DataBlocks -> Block]
      /\ \A i \in Inodes : BlocksOf(itab[i]) \subseteq DataBlocks
      /\ wrote \in [Inodes -> [val : Vals \cup {NoVal}, len : 0 .. MaxLen]]
  BY InodeFacts DEF Stable, Layout, TypeOK
<1>1. PICK j : j = Resolve(p) OBVIOUS
<1>2. /\ pc = "idle" /\ Removable(j) /\ data' = Erased(p) /\ itab' = itab
      /\ live' = live \ {j} /\ wrote' = [wrote EXCEPT ![j] = [val |-> NoVal, len |-> 0]]
      /\ p.name \in Names /\ ~ThroughFile(p)
  BY <1>1 DEF zeros_rm, PathHarm, Stable, Damaged
<1>3. PICK k \in live, d \in DataBlocks, r \in Slots :
        /\ j \in live /\ IsLink(k, d, r) /\ Ent(d, r).inode = j
        /\ data' = [data EXCEPT ![d].ent[r] = FreeDirent]
        /\ itab[j].mode = "dir" =>
             \A b \in BlocksOf(itab[j]), s \in Slots :
                Ent(b, s).inode # NIL => Ent(b, s).name \in {".", ".."}
  <2>1. p \in Path BY MountAssumption
  <2>. QED BY <1>1, <1>2, <2>1, RmFacts DEF Stable
<1>4. j # ROOT BY <1>2 DEF Removable
<1>5. \A b \in DataBlocks, s \in Slots : ~(b = d /\ s = r) => Ent(b, s)' = Ent(b, s)
  BY <1>0, <1>3 DEF Ent, Block
<1>6. \A b, s : ~IsLink(j, b, s) BY <1>3 DEF IsLink, Used
<1>7. \A i \in live, b \in DataBlocks, s \in Slots :
        IsLink(i, b, s) /\ Ent(b, s).inode # j =>
          i \in live' /\ IsLink(i, b, s)' /\ Ent(b, s)' = Ent(b, s)
  BY <1>2, <1>3, <1>5, <1>6 DEF IsLink, Used
<1>8. \A x \in live' : NodeMap'[x] = NodeMap[x]
  <2>. TAKE x \in live'
  <2>1. x \in live /\ x # j BY <1>2
  <2>. QED BY <1>0, <1>2, <1>7, <2>1, NodeKept DEF Stable
<1>9. DOMAIN NodeMap = live /\ NodeMap' = [x \in live' |-> NodeMap'[x]]
  BY DEF Stable, Mapped
<1>10. Tree!Children(j) = {}
  <2>1. ASSUME NEW x \in live \ {ROOT}, NodeMap[x].parent = j PROVE FALSE
    <3>1. PICK i \in live, b \in DataBlocks, s \in Slots : IsLink(i, b, s) /\ Ent(b, s).inode = x
      BY NodeLinked DEF Stable
    <3>2. NodeMap[x] = NodeAt(i, b, s) BY <3>1 DEF Stable, Mapped
    <3>. QED BY <1>6, <2>1, <3>1, <3>2 DEF NodeAt
  <2>. QED BY <1>9, <2>1 DEF Tree!Children, Tree!Known
<1>11. ContentMap' = [x \in live \ {j} |-> ContentMap[x]]
  BY <1>0, <1>2 DEF Stable, Mapped
<1>12. Damaged' = Damaged BY DEF Stable, Damaged
<1>13. NodeMap' = [x \in live \ {j} |-> NodeMap[x]] BY <1>2, <1>8, <1>9
<1>14. Tree!Remove(j)
  BY <1>4, <1>9, <1>10, <1>11, <1>12, <1>13 DEF Tree!Remove, Tree!Known
<1>15. Tree!Step BY <1>3, <1>9, <1>14 DEF Tree!Step, Tree!Known
<1>. QED BY <1>15 DEF Tree!TreeNext, Stable

-----------------------------------------------------------------------------
(* Every step of the handle is a step of the tree or none. *)

Quiet == itab' = itab /\ data' = data /\ live' = live /\ wrote' = wrote

(* The steps that write nothing the tree is read from. *)
LEMMA QuietStep ==
  ASSUME Stable, Stable', Quiet
  PROVE  UNCHANGED Tree!treeVars
BY QuietKeepsDirs, StutterStep DEF Quiet

(* The steps of a call, each under the action it is. *)
LEMMA StableStep ==
  ASSUME Stable, Stable', [Next]_vars
  PROVE  Tree!TreeNext \/ UNCHANGED Tree!treeVars
<1>1. CASE ApiCall
  <2>1. CASE zeros_mount_open \/ zeros_mount_close
    BY <2>1, QuietStep DEF zeros_mount_open, zeros_mount_close, diskVars, hist, Quiet
  <2>2. ASSUME NEW p \in Paths,
               zeros_cd(p) \/ zeros_mkdir(p) \/ zeros_mkdir_disk_full(p) \/ zeros_touch(p)
        PROVE  UNCHANGED Tree!treeVars
    <3>1. Quiet
      BY <2>2 DEF zeros_cd, zeros_mkdir, zeros_mkdir_disk_full, zeros_touch, CreateFile,
         diskVars, hist, Quiet
    <3>. QED BY <3>1, QuietStep
  <2>3. ASSUME NEW p \in Paths, zeros_rm(p) PROVE Tree!TreeNext BY <2>3, RemoveStep
  <2>4. ASSUME NEW p \in Paths, NEW v \in Vals, NEW n \in 0 .. MaxLen,
               zeros_write_file(p, v, n)
        PROVE  UNCHANGED Tree!treeVars
    <3>1. Quiet BY <2>4 DEF zeros_write_file, CreateFile, diskVars, hist, Quiet
    <3>. QED BY <3>1, QuietStep
  <2>5. ASSUME NEW p \in Paths, astray(p) PROVE UNCHANGED Tree!treeVars
    <3>1. Quiet BY <2>5 DEF astray, diskVars, Quiet
    <3>. QED BY <3>1, QuietStep
  <2>. QED BY <1>1, <2>1, <2>2, <2>3, <2>4, <2>5 DEF ApiCall
<1>2. CASE Progress
  <2>1. CASE mkdir_init \/ touch_init \/ dir_add_entry_block \/ write_loop
    <3>1. /\ mkdir_init \/ touch_init \/ dir_add_entry_block \/ write_loop \/ write_inode
          /\ ~write_inode
      BY <2>1 DEF mkdir_init, touch_init, dir_add_entry_block, write_loop, write_inode
    <3>2. DirsKept /\ wrote' = wrote BY <3>1, PrepareKeepsDirs DEF Stable
    <3>. QED BY <3>2, StutterStep
  <2>2. CASE write_inode BY <2>2, WriteStep
  <2>3. CASE dir_add_entry_slot \/ dir_add_extent BY <2>3, CreateStep
  <2>4. CASE dir_add_entry_fails \/ write_fails \/ flush_sb \/ flush_ibm \/ flush_bbm
    <3>1. Quiet
      BY <2>4 DEF dir_add_entry_fails, write_fails, flush_sb, flush_ibm, flush_bbm,
         diskVars, hist, Quiet
    <3>. QED BY <3>1, QuietStep
  <2>. QED BY <1>2, <2>1, <2>2, <2>3, <2>4 DEF Progress
<1>3. CASE Crash \/ UNCHANGED vars
  <2>1. Quiet BY <1>3 DEF Crash, diskVars, vars, Quiet
  <2>. QED BY <2>1, QuietStep
<1>. QED BY <1>1, <1>2, <1>3 DEF Next

(* The first disk is the first tree. *)
LEMMA InitTree == Init => Tree!TreeInit
<1>. SUFFICES ASSUME Init PROVE Tree!TreeInit OBVIOUS
<1>1. ~Damaged /\ live = {ROOT} BY DEF Init, Damaged
<1>2. Layout /\ Good /\ Reads
  BY <1>1, InitGood, InitReads DEF GoodInv, ReadInv, Sound, Damaged
<1>3. Mapped BY <1>1, <1>2, MapFacts
<1>4. ROOT \in Inodes /\ wrote = [i \in Inodes |-> [val |-> NoVal, len |-> 0]]
  BY RootInodes DEF Init
<1>5. NodeMap = [i \in {ROOT} |-> RootNode] BY <1>1, <1>3, Zenon DEF Mapped
<1>6. ContentMap = [i \in {ROOT} |-> [val |-> NoVal, len |-> 0]]
  BY <1>1, <1>3, <1>4 DEF Mapped
<1>7. Tree!RootNode = RootNode BY Zenon DEF Tree!RootNode, RootNode
<1>8. Damaged = FALSE BY <1>1
<1>. QED BY <1>5, <1>6, <1>7, <1>8, Zenon DEF Tree!TreeInit

MapInv == GoodInv /\ ReadInv

(* Damage that appears is the step Break; without it StableStep applies. *)
LEMMA NextTree ==
  ASSUME MapInv, MapInv', [Next]_vars, Layout /\ Good /\ Reads /\ ~Damaged => Mapped,
         (Layout /\ Good /\ Reads /\ ~Damaged => Mapped)'
  PROVE  [Tree!TreeNext]_(Tree!treeVars)
<1>1. CASE Damaged' BY <1>1 DEF Tree!TreeNext, Tree!Break
<1>2. CASE ~Damaged'
  <2>1. harm \subseteq harm' BY HarmGrows
  <2>2. ~Damaged BY <1>2, <2>1 DEF Damaged
  <2>3. Stable BY <2>2 DEF Stable, MapInv, GoodInv, ReadInv, Sound, Damaged
  <2>4. Stable' BY <1>2 DEF Stable, MapInv, GoodInv, ReadInv, Sound, Damaged
  <2>. QED BY <2>3, <2>4, StableStep
<1>. QED BY <1>1, <1>2

(* Every behaviour of the handle - calls, block writes, crashes, failures  *)
(* half way - is a behaviour of the tree of ZerosTree (ImplementsTree).    *)
THEOREM MountImplementsTree == Spec => ImplementsTree
<1>1. Spec => []MapInv BY GoodInvariant, DataInvariant, PTL DEF MapInv
<1>2. Layout /\ Good /\ Reads /\ ~Damaged => Mapped BY MapFacts
<1>3. ASSUME MapInv, MapInv', [Next]_vars, Layout /\ Good /\ Reads /\ ~Damaged => Mapped,
             (Layout /\ Good /\ Reads /\ ~Damaged => Mapped)'
      PROVE  [Tree!TreeNext]_(Tree!treeVars)
  BY <1>3, NextTree
<1>. QED BY <1>1, <1>2, <1>3, InitTree, PTL DEF Spec, ImplementsTree, Tree!TreeSpec
=============================================================================
