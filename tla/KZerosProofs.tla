---------------------------- MODULE KZerosProofs ----------------------------
(***************************************************************************)
(* The kernel's filesystem, proved for every geometry, every set of paths  *)
(* and any number of failing transfers and power losses, in three parts:   *)
(*   1. KTyped: types, and what a command is about to write;               *)
(*   2. KGood: who owns which block and inode, and the tree, while nothing *)
(*      is torn; OneName: the tree while no name was created twice;        *)
(*   3. what the counters count, what files hold, what cwd_path means.     *)
(***************************************************************************)
EXTENDS KZeros, ZerosFSProofs

KOps == {"none", "mkdir", "touch", "create", "write", "rm", "close"}

KCall == [op : KOps, path : Path, ino : Inodes, parent : Inodes, blk : Blocks,
          todo : SUBSET DataBlocks, ext : Seq(Extent), left : 0 .. MaxLen,
          len : 0 .. MaxLen, val : Vals \cup {NoVal}]

(* Commands that create, and those whose new inode is on disk. *)
Built    == pc \in {"dir_add_entry", "dir_add_block", "dir_add_extent"}
Creating == Built \/ pc \in {"mkdir_block", "mkdir_init", "touch_init"}

(* Commands that take something away. *)
Freeing == pc \in {"free_blocks", "free_inode", "dir_remove_entry"}
Writing == pc \in {"write_loop", "write_data"}

(* A block has been allocated and nothing leads to it. *)
BlockInHand == pc \in {"mkdir_init", "dir_add_block", "dir_add_extent", "write_data"}

(* What the command in progress is about to write lies in the data area,   *)
(* in any state.                                                           *)
CallTyped ==
  /\ c \in KCall /\ ExtentsInData(c.ext)
  /\ wrote \in [Inodes -> [val : Vals \cup {NoVal}, len : 0 .. MaxLen]]
  /\ BlockInHand => c.blk \in DataBlocks
  /\ pc \in {"dir_add_block", "dir_add_extent"} => Len(itab[c.parent].extents) < MaxExtents
  /\ pc = "write_data" => Len(c.ext) < MaxExtents /\ c.left > 0
  /\ pc = "off" => dsb = sb

(* A command that has gone on with an inode nothing has written may do     *)
(* anything to the disk: until then                                        *)
KTyped == pc # "astray" /\ TypeOK /\ CallTyped

KPcs == {"off", "idle", "mkdir_block", "mkdir_init", "touch_init", "dir_add_entry",
         "dir_add_block", "dir_add_extent", "free_blocks", "write_loop", "write_data",
         "free_inode", "dir_remove_entry", "flush_metadata"}

KHarms == {"torn", "lost", "drift", "twin", "text"}

(* Slot s of block b is an entry, or a link, of the live directory i. *)
Ent(b, s) == data[b].ent[s]

Used(i, b, s) ==
  /\ i \in live /\ itab[i].mode = "dir"
  /\ b \in BlocksOf(itab[i]) /\ s \in Slots
  /\ Ent(b, s).inode # NIL

IsLink(i, b, s) == Used(i, b, s) /\ Ent(b, s).name \notin {".", ".."}

LinkTo(k, j) == \E b \in DataBlocks, s \in Slots : IsLink(k, b, s) /\ Ent(b, s).inode = j

Named(j) == j = ROOT \/ \E k \in live : LinkTo(k, j)

FirstBlock(i) == itab[i].extents[1].start

(* Links lead to live inodes of the type they say, one link to each, and   *)
(* out of directories that a path leads to.                                *)
KLinks ==
  /\ \A i \in live, b \in DataBlocks, s \in Slots : IsLink(i, b, s) =>
       /\ Ent(b, s).inode \in live \ {ROOT}
       /\ Ent(b, s).type = itab[Ent(b, s).inode].mode
       /\ Named(i)
  /\ \A i, k \in live, b, d \in DataBlocks, s, r \in Slots :
       IsLink(i, b, s) /\ IsLink(k, d, r) /\ Ent(b, s).inode = Ent(d, r).inode
       => i = k /\ b = d /\ s = r

(* A directory begins with "." and "..", which lead where they should.     *)
KDots ==
  \A i \in live : itab[i].mode = "dir" =>
    /\ itab[i].extents # <<>>
    /\ Ent(FirstBlock(i), 0).inode = i /\ Ent(FirstBlock(i), 0).name = "."
    /\ Ent(FirstBlock(i), 1).inode # NIL /\ Ent(FirstBlock(i), 1).name = ".."
    /\ Named(i) => IF i = ROOT THEN Ent(FirstBlock(i), 1).inode = ROOT
                   ELSE LinkTo(Ent(FirstBlock(i), 1).inode, i)

KTree ==
  /\ ROOT \in live /\ itab[ROOT].mode = "dir"
  /\ \A i \in live : itab[i].mode \in {"dir", "reg"}
  /\ KLinks /\ KDots

Owners == live \cup (IF Built THEN {c.ino} ELSE {})

Apart ==
  /\ \A i \in Owners : NoRepeat(itab[i])
  /\ \A i, j \in Owners : i # j => BlocksOf(itab[i]) \cap BlocksOf(itab[j]) = {}

Marked ==
  /\ \A i \in live : i \in ibm \/ (pc = "dir_remove_entry" /\ i = c.ino)
  /\ \A i \in Owners : BlocksOf(itab[i]) \subseteq bbm \/ ((Freeing \/ Writing) /\ i = c.ino)

CreateHolds ==
  Creating =>
    /\ c.op \in {"mkdir", "touch", "create"}
    /\ pc \in {"mkdir_block", "mkdir_init"} => c.op = "mkdir"
    /\ pc = "touch_init" => c.op # "mkdir"
    /\ c.ino \in ibm \ live /\ c.parent \in live /\ Named(c.parent)

NewFile == [extents |-> c.ext]

BlockHeld ==
  BlockInHand =>
    /\ c.blk \in bbm /\ c.blk \notin BlocksOf(NewFile)
    /\ \A i \in Owners : c.blk \notin BlocksOf(itab[i]) \/ (Writing /\ i = c.ino)

NewNode ==
  /\ Built => IF c.op = "mkdir"
              THEN \E b \in DataBlocks :
                     /\ itab[c.ino] = [mode |-> "dir", extents |-> <<OneBlock(b)>>]
                     /\ data[b] = DirBlock(c.ino, c.parent)
              ELSE itab[c.ino] = [mode |-> "reg", extents |-> <<>>]
  /\ pc = "dir_add_extent" => data[c.blk] = [EmptyDirBlock EXCEPT !.ent[0] = NewDirent]

(* What a removal or a rewrite still has of the inode. *)
FreeHolds ==
  Freeing \/ Writing =>
    /\ c.ino \in live /\ Named(c.ino)
    /\ c.op \in {"write", "rm"}
    /\ pc \in {"free_inode", "dir_remove_entry"} => c.op = "rm"
    /\ Writing => c.op = "write"
    /\ c.todo \subseteq bbm \cap BlocksOf(itab[c.ino])
    /\ pc # "free_blocks" => c.todo = {}
    /\ c.op = "write" => itab[c.ino].mode # "dir"
    /\ c.op = "rm" =>
         Resolve(c.path) = c.ino /\ Removable(c.ino) /\ ~ThroughFile(c.path)

WriteHolds ==
  /\ BlocksOf(NewFile) \subseteq bbm
  /\ \A i \in live \ {c.ino} : BlocksOf(NewFile) \cap BlocksOf(itab[i]) = {}
  /\ Writing => NoRepeat(NewFile)
  /\ ~Writing /\ pc # "flush_metadata" => c.ext = <<>>

Cwd == cwd \in live /\ Named(cwd) /\ itab[cwd].mode = "dir"

KGood ==
  /\ KTree /\ Cwd /\ Apart /\ Marked
  /\ CreateHolds /\ BlockHeld /\ NewNode /\ FreeHolds /\ WriteHolds

Sound == "torn" \notin harm

KGoodInv == Sound => KTyped /\ KGood

(* While no name has been created twice. *)
OneName ==
  /\ \A j \in live : Named(j)
  /\ \A i \in live, b, d \in DataBlocks, s, r \in Slots :
       IsLink(i, b, s) /\ IsLink(i, d, r) /\ Ent(b, s).name = Ent(d, r).name
       => b = d /\ s = r
  /\ \A i \in live, b \in DataBlocks, s \in Slots : Used(i, b, s) =>
       /\ Ent(b, s).name = "." => b = FirstBlock(i) /\ s = 0
       /\ Ent(b, s).name = ".." => b = FirstBlock(i) /\ s = 1

OneNameInv == harm \cap {"torn", "twin"} = {} => OneName

KHolds(i) ==
  itab[i].mode = "reg" =>
    /\ Cardinality(BlockPos(itab[i])) = wrote[i].len
    /\ \A b \in BlocksOf(itab[i]) : data[b].val = wrote[i].val

KReads ==
  /\ \A i \in live : KHolds(i) \/ (Writing /\ i = c.ino /\ BlocksOf(itab[i]) # {})
  /\ Writing => /\ Cardinality(BlockPos(NewFile)) + c.left = c.len
                /\ \A b \in BlocksOf(NewFile) : data[b].val = c.val
  /\ pc = "free_blocks" => c.left = c.len

KReadInv == "torn" \notin harm => KReads

-----------------------------------------------------------------------------
(* Part 1.  Types. *)

(* What the constants are. *)
LEMMA KernelFacts ==
  /\ Paths \subseteq Path /\ MaxLen \in Nat /\ MaxDepth \in Nat /\ MaxFaults \in Nat
  /\ U32 \in Nat /\ U32 > TotalBlocks /\ U32 > TotalInodes
  /\ \A n \in Components \cup {""} : Cut[n] \in Components \cup {""} /\ Cut[Cut[n]] = Cut[n]
BY KernelAssumption, Zenon DEF KernelAssumption

(* The operators of the handle that the kernel's commands use. *)
LEMMA SharedOps ==
  /\ M!Counters = [free_inodes : 0 .. U32 - 1, free_blocks : 0 .. U32 - 1]
  /\ M!AnyPath \in Path
  /\ \A x : M!Dec(x) = (x - 1) % U32
  /\ \A x, k : M!Add(x, k) = (x + k) % U32
<1>1. M!AnyPath \in Path BY DEF M!AnyPath, Path
<1>. QED BY <1>1 DEF M!Counters, M!Dec, M!Add

(* The entry a removal erases. *)
ErasedFrom(i, name) ==
  LET hits == CellsNamed(data, itab[i], name)
      cell == FirstCell(hits)
  IN  IF hits = {} THEN data
      ELSE [data EXCEPT ![BlockAt(itab[i], cell)].ent[cell[3]] = FreeDirent]

(* It is in the directory the path ends in. *)
LEMMA ErasedIs ==
  ASSUME NEW p PROVE M!Erased(p) = ErasedFrom(Parent(p), p.name)
<1>1. \A n : M!Cells(n) = Cells(n) BY DEF M!Cells, M!Slots, Cells, Slots
<1>2. \A n, q : M!BlockAt(n, q) = BlockAt(n, q) BY DEF M!BlockAt, BlockAt
<1>3. \A d, n, q : M!EntryAt(d, n, q) = EntryAt(d, n, q) BY <1>2 DEF M!EntryAt, EntryAt
<1>4. \A d, n, m : M!CellsNamed(d, n, m) = CellsNamed(d, n, m)
  BY <1>1, <1>3 DEF M!CellsNamed, CellsNamed, M!NIL, NIL
<1>5. \A P : M!FirstCell(P) = FirstCell(P)
  BY DEF M!FirstCell, FirstCell, M!ScannedBefore, ScannedBefore
<1>6. \A t, d, i, m : M!dir_lookup(t, d, i, m) = dir_lookup(t, d, i, m)
  BY <1>3, <1>4, <1>5 DEF M!dir_lookup, dir_lookup, M!NIL, NIL
<1>7. M!Parent(p) = Parent(p)
  BY <1>6 DEF M!Parent, M!resolve_parent, Parent, resolve_parent, M!ROOT, ROOT
<1>8. M!FreeDirent = FreeDirent BY DEF M!FreeDirent, FreeDirent, M!NIL, NIL
<1>. QED BY <1>2, <1>4, <1>5, <1>7, <1>8 DEF M!Erased, ErasedFrom

(* The typing facts every step uses. *)
LEMMA KFacts ==
  ASSUME KTyped
  PROVE  /\ itab \in [Inodes -> Inode] /\ data \in [DataBlocks -> Block]
         /\ live \subseteq Inodes /\ cwd \in Inodes /\ c \in KCall
         /\ c.ino \in Inodes /\ c.parent \in Inodes /\ c.path \in Path /\ c.ext \in Seq(Extent)
         /\ ibm \subseteq Inodes /\ bbm \subseteq Blocks /\ MetaBlocks \subseteq bbm
         /\ harm \subseteq KHarms /\ pc \in KPcs
         /\ \A i \in Inodes : /\ itab[i] \in Inode /\ ExtentsInData(itab[i].extents)
                              /\ BlocksOf(itab[i]) \subseteq DataBlocks
<1>1. /\ itab \in [Inodes -> Inode] /\ data \in [DataBlocks -> Block]
      /\ live \subseteq Inodes /\ cwd \in Inodes /\ c \in KCall
      /\ ibm \subseteq Inodes /\ bbm \subseteq Blocks /\ MetaBlocks \subseteq bbm
      /\ harm \subseteq KHarms /\ pc \in KPcs
      /\ \A i \in Inodes : ExtentsInData(itab[i].extents)
  BY DEF KTyped, TypeOK, CallTyped, Harms, KHarms, Pcs, KPcs
<1>2. \A i \in Inodes : itab[i] \in Inode BY <1>1
<1>3. \A i \in Inodes : BlocksOf(itab[i]) \subseteq DataBlocks
  BY <1>1, <1>2, BlocksOfInData
<1>4. c.ino \in Inodes /\ c.parent \in Inodes /\ c.path \in Path /\ c.ext \in Seq(Extent)
  BY <1>1 DEF KCall
<1>. QED BY <1>1, <1>2, <1>3, <1>4

(* resolve_parent and resolve_path return an inode number, UINT32_MAX, or  *)
(* what an entry that is none holds.                                       *)
LEMMA KResolveType ==
  ASSUME KTyped, NEW p \in Path
  PROVE  /\ Parent(p) \in Inodes \cup {NIL, OUT}
         /\ Resolve(p) \in Inodes \cup {NIL, OUT}
<1>0. /\ itab \in [Inodes -> Inode] /\ data \in [DataBlocks -> Block] /\ cwd \in Inodes
      /\ \A i \in Inodes : ExtentsInData(itab[i].extents)
  BY KFacts
<1>. DEFINE numbers == Inodes \cup {NIL, OUT}
            start   == IF p.abs THEN ROOT ELSE cwd
<1>1. Parent(p) \in numbers
  <2>1. start \in Inodes /\ start \in numbers BY <1>0, RootInodes
  <2>2. dir_lookup(itab, data, start, p.dir) \in numbers BY <1>0, <2>1, LookupType
  <2>3. Parent(p) = IF p.dir = "" THEN start ELSE dir_lookup(itab, data, start, p.dir)
    BY DEF Parent, resolve_parent
  <2>. HIDE DEF numbers, start
  <2>. QED BY <2>1, <2>2, <2>3
<1>2. Resolve(p) \in numbers
  <2>1. CASE Readable(itab, Parent(p))
    <3>1. dir_lookup(itab, data, Parent(p), p.name) \in numbers
      BY <1>0, <2>1, LookupType DEF Readable
    <3>2. Resolve(p) = IF p.name = "" THEN Parent(p)
                       ELSE dir_lookup(itab, data, Parent(p), p.name)
      BY <2>1 DEF Resolve, resolve_path, Parent
    <3>. HIDE DEF numbers
    <3>. QED BY <1>1, <3>1, <3>2
  <2>2. CASE ~Readable(itab, Parent(p))
    <3>1. Resolve(p) = Parent(p) BY <2>2 DEF Resolve, resolve_path, Parent
    <3>. QED BY <1>1, <3>1
  <2>. QED BY <2>1, <2>2
<1>. QED BY <1>1, <1>2

(* The uint32_t counters stay uint32_t: they wrap. *)
LEMMA CountersTyped ==
  ASSUME NEW x \in 0 .. U32 - 1, NEW k \in Nat
  PROVE  M!Dec(x) \in 0 .. U32 - 1 /\ M!Add(x, k) \in 0 .. U32 - 1
<1>1. U32 \in Nat \ {0}
  <2>1. U32 \in Nat /\ U32 > TotalInodes BY KernelFacts, Zenon
  <2>. QED BY <2>1, GeometryAssumption
<1>2. (x - 1) % U32 \in 0 .. U32 - 1 /\ (x + k) % U32 \in 0 .. U32 - 1 BY <1>1
<1>. QED BY <1>2, SharedOps

(* The locals of no command are well formed. *)
LEMMA NoCallTyped ==
  /\ NoCall \in KCall /\ ExtentsInData(NoCall.ext)
  /\ NoCall.ext = <<>> /\ NoCall.todo = {}
<1>1. M!AnyPath \in Path BY SharedOps
<1>2. <<>> \in Seq(Extent) OBVIOUS
<1>3. 0 \in 0 .. MaxLen /\ 0 \in Blocks
  <2>1. MaxLen \in Nat BY KernelFacts, Zenon
  <2>. QED BY <2>1, GeometryAssumption DEF Blocks
<1>4. NoCall \in KCall
  BY <1>1, <1>2, <1>3, RootInodes DEF NoCall, KCall, KOps
<1>5. ExtentsInData(NoCall.ext)
  BY GeometryAssumption DEF NoCall, ExtentsInData
<1>. QED BY <1>4, <1>5 DEF NoCall

(* alloc_inode and alloc_block take a bit that is clear. *)
LEMMA KFreeFacts ==
  ASSUME KTyped
  PROVE  /\ FreeInodes # {} => LowestClear(FreeInodes) \in Inodes \ ibm
         /\ FreeBlocks # {} => LowestClear(FreeBlocks) \in DataBlocks \ bbm
<1>1. FreeInodes \subseteq Nat /\ FreeBlocks \subseteq Nat
  BY GeometryAssumption DEF FreeInodes, FreeBlocks, Inodes, DataBlocks
<1>. QED BY <1>1, LowestClearIn DEF FreeInodes, FreeBlocks

(* What a step has to show: the disk, what is in memory, the command.      *)
DiskTyped ==
  /\ itab \in [Inodes -> Inode] /\ data \in [DataBlocks -> Block]
  /\ \A i \in Inodes : ExtentsInData(itab[i].extents)
  /\ ibm \subseteq Inodes /\ bbm \subseteq Blocks /\ MetaBlocks \subseteq bbm
  /\ dsb \in M!Counters

RamTyped ==
  /\ sb \in M!Counters /\ cwd \in Inodes /\ cwd_path \in Seq(Components)
  /\ live \subseteq Inodes /\ faults \in 0 .. MaxFaults /\ harm \subseteq KHarms
  /\ wrote \in [Inodes -> [val : Vals \cup {NoVal}, len : 0 .. MaxLen]]

AtTyped ==
  /\ pc \in KPcs /\ c \in KCall /\ ExtentsInData(c.ext)
  /\ BlockInHand => c.blk \in DataBlocks
  /\ pc \in {"dir_add_block", "dir_add_extent"} => Len(itab[c.parent].extents) < MaxExtents
  /\ pc = "write_data" => Len(c.ext) < MaxExtents /\ c.left > 0
  /\ pc = "off" => dsb = sb

(* Together they are the types. *)
LEMMA KTypedParts == KTyped <=> DiskTyped /\ RamTyped /\ AtTyped
<1>1. ASSUME c \in KCall
      PROVE  /\ c.ino \in Inodes /\ c.parent \in Inodes /\ c.blk \in Blocks
             /\ c.todo \subseteq DataBlocks
  BY <1>1 DEF KCall
<1>. QED BY <1>1 DEF KTyped, TypeOK, CallTyped, DiskTyped, RamTyped, AtTyped,
                     Harms, KHarms, Pcs, KPcs

(* And after a step. *)
LEMMA KTypedNext == DiskTyped' /\ RamTyped' /\ AtTyped' => KTyped'
<1>1. ASSUME c' \in KCall
      PROVE  /\ c'.ino \in Inodes /\ c'.parent \in Inodes /\ c'.blk \in Blocks
             /\ c'.todo \subseteq DataBlocks
  BY <1>1 DEF KCall
<1>. QED BY <1>1 DEF KTyped, TypeOK, CallTyped, DiskTyped, RamTyped, AtTyped,
                     Harms, KHarms, Pcs, KPcs

(* A command that ends. *)
LEMMA ReturnTyped ==
  ASSUME KTyped, NEW h, h \subseteq KHarms, Return(h)
  PROVE  AtTyped' /\ harm' \subseteq KHarms
<1>1. pc' = "idle" /\ c' = NoCall /\ harm' = harm \cup h BY DEF Return
<1>. QED BY <1>1, KFacts, NoCallTyped DEF AtTyped, KPcs, BlockInHand

(* A path through a regular file counts as damage. *)
LEMMA PathHarmTyped == \A p : PathHarm(p) \subseteq KHarms
BY DEF PathHarm, KHarms

(* What stopping half way leaves behind is damage of the known kinds. *)
LEMMA GaveUpTyped == GaveUp \subseteq KHarms
BY DEF GaveUp, KHarms

(* One more fault is still within the bound. *)
LEMMA FaultTyped ==
  ASSUME KTyped, Fault \/ NoFault PROVE faults' \in 0 .. MaxFaults
<1>1. faults \in 0 .. MaxFaults BY DEF KTyped, TypeOK
<1>2. MaxFaults \in Nat BY KernelFacts, Zenon
<1>. QED BY <1>1, <1>2 DEF Fault, NoFault

(* Steps that leave the disk alone but for the bitmaps. *)
LEMMA DiskKept ==
  ASSUME KTyped, UNCHANGED <<itab, data, ibm, bbm>>, dsb' \in M!Counters
  PROVE  DiskTyped'
<1>1. DiskTyped BY KTypedParts
<1>. QED BY <1>1 DEF DiskTyped

(* Steps that leave the memory of the mount alone. *)
LEMMA RamKept ==
  ASSUME KTyped, UNCHANGED <<cwd, cwd_path, live, wrote>>, sb' \in M!Counters,
         Fault \/ NoFault \/ UNCHANGED faults, harm' \subseteq KHarms
  PROVE  RamTyped'
<1>1. RamTyped BY KTypedParts
<1>2. faults' \in 0 .. MaxFaults BY FaultTyped, <1>1 DEF RamTyped
<1>. QED BY <1>1, <1>2 DEF RamTyped

(* kzeros_open, kzeros_close. *)
LEMMA OpenCloseTyped ==
  ASSUME KTyped, kzeros_open \/ kzeros_close PROVE KTyped'
<1>0. DiskTyped /\ RamTyped /\ AtTyped BY KTypedParts
<1>1. CASE kzeros_open
  <2>1. DiskTyped' BY <1>0, <1>1 DEF kzeros_open, DiskTyped, diskVars
  <2>2. <<>> \in Seq(Components) OBVIOUS
  <2>3. RamTyped'
    BY <1>0, <1>1, <2>2, RootInodes DEF kzeros_open, DiskTyped, RamTyped, diskVars
  <2>4. AtTyped' BY <1>0, <1>1 DEF kzeros_open, AtTyped, KPcs, BlockInHand, diskVars
  <2>. QED BY <2>1, <2>3, <2>4, KTypedNext
<1>2. CASE kzeros_close
  <2>1. DiskTyped' BY <1>0, <1>2 DEF kzeros_close, DiskTyped, diskVars
  <2>2. RamTyped' BY <1>0, <1>2 DEF kzeros_close, RamTyped
  <2>3. c' \in KCall /\ c'.ext = NoCall.ext
    BY <1>2, NoCallTyped DEF kzeros_close, KCall, KOps
  <2>4. AtTyped' BY <1>2, <2>3, NoCallTyped DEF kzeros_close, AtTyped, KPcs, BlockInHand
  <2>. QED BY <2>1, <2>2, <2>4, KTypedNext
<1>. QED BY <1>1, <1>2

(* kzeros_cd: cwd_path stays a path. *)
LEMMA CdTyped ==
  ASSUME KTyped, NEW p \in Path, kzeros_cd(p) PROVE KTyped'
<1>0. DiskTyped /\ RamTyped /\ AtTyped BY KTypedParts
<1>1. DiskTyped' BY <1>0 DEF kzeros_cd, DiskTyped, diskVars
<1>2. cwd' \in Inodes BY DEF kzeros_cd, Readable
<1>3. p.dir \in Components \cup {""} /\ p.name \in Components \cup {""} BY DEF Path
<1>4. Part(p.dir) \in Seq(Components) /\ Part(p.name) \in Seq(Components)
  <2>1. <<>> \in Seq(Components) OBVIOUS
  <2>2. \A n \in Components : <<n>> \in Seq(Components) OBVIOUS
  <2>3. \A n \in Components \cup {""} : Part(n) \in Seq(Components)
    BY <2>1, <2>2, Zenon DEF Part
  <2>. QED BY <1>3, <2>3, Zenon
<1>5. cwd_path \in Seq(Components) BY <1>0 DEF RamTyped
<1>6. NewPath(p) \in Seq(Components)
  <2>. DEFINE parts == Part(p.dir) \o Part(p.name)
  <2>1. parts \in Seq(Components) /\ cwd_path \o parts \in Seq(Components)
    BY <1>4, <1>5
  <2>2. <<>> \in Seq(Components) OBVIOUS
  <2>3. ASSUME cwd_path # <<>> PROVE SubSeq(cwd_path, 1, Len(cwd_path) - 1) \in Seq(Components)
    BY <1>5, <2>3
  <2>. HIDE DEF parts
  <2>4. \/ NewPath(p) \in {parts, cwd_path, <<>>, cwd_path \o parts}
        \/ cwd_path # <<>> /\ NewPath(p) = SubSeq(cwd_path, 1, Len(cwd_path) - 1)
    BY DEF NewPath, parts
  <2>. QED BY <1>5, <2>1, <2>2, <2>3, <2>4
<1>7. RamTyped'
  <2>1. harm' \subseteq KHarms BY <1>0, PathHarmTyped DEF kzeros_cd, RamTyped, KHarms
  <2>. QED BY <1>0, <1>2, <1>6, <2>1 DEF kzeros_cd, RamTyped
<1>8. AtTyped' BY <1>0 DEF kzeros_cd, AtTyped, BlockInHand, diskVars
<1>. QED BY <1>1, <1>7, <1>8, KTypedNext

(* alloc_inode at the start of a creation. *)
LEMMA AllocInodeTyped ==
  ASSUME KTyped, NEW next \in {"mkdir_block", "touch_init"}, NEW call \in KCall,
         call.ext = <<>>, alloc_inode(next, call),
         UNCHANGED <<itab, data, bbm, dsb, cwd, cwd_path, live, wrote>>
  PROVE  KTyped'
<1>0. DiskTyped /\ RamTyped /\ AtTyped BY KTypedParts
<1>. DEFINE ino == LowestClear(FreeInodes)
<1>1. FreeInodes # {} /\ ino \in Inodes BY KFreeFacts DEF alloc_inode
<1>2. ibm' = ibm \cup {ino} BY DEF alloc_inode
<1>3. DiskTyped' BY <1>0, <1>1, <1>2 DEF DiskTyped
<1>4. CASE /\ sb' = [sb EXCEPT !.free_inodes = M!Dec(@)]
           /\ pc' = next /\ c' = [call EXCEPT !.ino = ino] /\ NoFault /\ UNCHANGED harm
  <2>1. sb' \in M!Counters
    BY <1>0, <1>4, CountersTyped, SharedOps DEF RamTyped
  <2>2. RamTyped' BY <1>0, <1>4, <2>1, RamKept DEF RamTyped
  <2>3. c' \in KCall /\ c'.ext = <<>> BY <1>1, <1>4 DEF KCall
  <2>4. ExtentsInData(c'.ext) BY <2>3, GeometryAssumption DEF ExtentsInData
  <2>5. AtTyped' BY <1>4, <2>3, <2>4 DEF AtTyped, KPcs, BlockInHand
  <2>. QED BY <1>3, <2>2, <2>5, KTypedNext
<1>5. CASE Fault /\ Return({"lost", "drift"}) /\ UNCHANGED sb
  <2>1. AtTyped' /\ harm' \subseteq KHarms BY <1>5, ReturnTyped DEF KHarms
  <2>2. RamTyped' BY <1>0, <1>5, <2>1, RamKept DEF RamTyped
  <2>. QED BY <1>3, <2>1, <2>2, KTypedNext
<1>. QED BY <1>4, <1>5 DEF alloc_inode


(* kzeros_mkdir, kzeros_touch and the touch inside kzeros_write_file. *)
LEMMA MkdirTyped ==
  ASSUME KTyped, NEW p \in Path, kzeros_mkdir(p) PROVE KTyped'
<1>. DEFINE call == [NoCall EXCEPT !.op = "mkdir", !.path = p, !.parent = Parent(p)]
<1>1. Parent(p) \in Inodes BY DEF kzeros_mkdir, Readable
<1>2. call \in KCall /\ call.ext = <<>> BY <1>1, NoCallTyped DEF KCall, KOps
<1>3. /\ alloc_inode("mkdir_block", call)
      /\ UNCHANGED <<itab, data, bbm, dsb, cwd, cwd_path, live, wrote>>
  BY DEF kzeros_mkdir
<1>. HIDE DEF call
<1>. QED BY <1>2, <1>3, AllocInodeTyped

(* Files too. *)
LEMMA CreateTyped ==
  ASSUME KTyped, NEW p \in Path, NEW op \in {"touch", "create"},
         NEW v \in Vals \cup {NoVal}, NEW n \in 0 .. MaxLen, Create(p, op, v, n)
  PROVE  KTyped'
<1>. DEFINE call == [NoCall EXCEPT !.op = op, !.path = p, !.parent = Parent(p),
                                   !.val = v, !.len = n]
<1>1. Parent(p) \in Inodes BY DEF Create, Readable
<1>2. call \in KCall /\ call.ext = <<>> BY <1>1, NoCallTyped DEF KCall, KOps
<1>3. /\ alloc_inode("touch_init", call)
      /\ UNCHANGED <<itab, data, bbm, dsb, cwd, cwd_path, live, wrote>>
  BY DEF Create
<1>. HIDE DEF call
<1>. QED BY <1>2, <1>3, AllocInodeTyped

(* A creation whose lookup failed allocates like any other. *)
LEMMA BlindTyped ==
  ASSUME KTyped, NEW p \in Path, NEW op \in {"mkdir", "touch"}, blind_create(p, op)
  PROVE  KTyped'
<1>0. DiskTyped /\ RamTyped /\ AtTyped BY KTypedParts
<1>. DEFINE ino == LowestClear(FreeInodes)
<1>1. FreeInodes # {} /\ ino \in Inodes BY KFreeFacts DEF blind_create
<1>2. Parent(p) \in Inodes BY DEF blind_create, Readable
<1>3. /\ ibm' = ibm \cup {ino} /\ sb' = [sb EXCEPT !.free_inodes = M!Dec(@)]
      /\ pc' = IF op = "mkdir" THEN "mkdir_block" ELSE "touch_init"
      /\ c' = [NoCall EXCEPT !.op = op, !.path = p, !.parent = Parent(p), !.ino = ino]
      /\ Fault /\ UNCHANGED <<itab, data, bbm, dsb, cwd, cwd_path, live, wrote, harm>>
  BY DEF blind_create
<1>. HIDE DEF ino
<1>4. DiskTyped' BY <1>0, <1>1, <1>3 DEF DiskTyped
<1>5. sb' \in M!Counters BY <1>0, <1>3, CountersTyped, SharedOps DEF RamTyped
<1>6. RamTyped' BY <1>0, <1>3, <1>5, RamKept DEF RamTyped
<1>7. c' \in KCall /\ c'.ext = <<>> BY <1>1, <1>2, <1>3, NoCallTyped DEF KCall, KOps
<1>8. ExtentsInData(c'.ext) BY <1>7, GeometryAssumption DEF ExtentsInData
<1>9. AtTyped' BY <1>3, <1>7, <1>8 DEF AtTyped, KPcs, BlockInHand
<1>. QED BY <1>4, <1>6, <1>9, KTypedNext

(* alloc_block for whoever needs it: a block in hand. *)
LEMMA AllocBlockTyped ==
  ASSUME KTyped, NEW next \in {"mkdir_init", "dir_add_block", "write_data"},
         alloc_block(next),
         next = "dir_add_block" => Len(itab[c.parent].extents) < MaxExtents,
         next = "write_data" => Len(c.ext) < MaxExtents /\ c.left > 0
  PROVE  KTyped'
<1>0. DiskTyped /\ RamTyped /\ AtTyped BY KTypedParts
<1>. DEFINE blk == LowestClear(FreeBlocks)
<1>1. FreeBlocks # {} /\ blk \in DataBlocks BY KFreeFacts DEF alloc_block
<1>2. bbm' = bbm \cup {blk} /\ UNCHANGED <<itab, data, ibm, dsb, cwd, cwd_path, live, wrote>>
  BY DEF alloc_block
<1>3. blk \in Blocks BY <1>1, GeometryAssumption DEF Blocks, DataBlocks
<1>4. DiskTyped' BY <1>0, <1>2, <1>3 DEF DiskTyped
<1>5. CASE /\ sb' = [sb EXCEPT !.free_blocks = M!Dec(@)]
           /\ pc' = next /\ c' = [c EXCEPT !.blk = blk] /\ NoFault /\ UNCHANGED harm
  <2>1. sb' \in M!Counters
    BY <1>0, <1>5, CountersTyped, SharedOps DEF RamTyped
  <2>2. RamTyped' BY <1>0, <1>2, <1>5, <2>1, RamKept DEF RamTyped
  <2>3. /\ c' \in KCall /\ c'.ext = c.ext /\ c'.blk = blk
        /\ c'.parent = c.parent /\ c'.left = c.left
    BY <1>0, <1>3, <1>5 DEF AtTyped, KCall
  <2>. HIDE DEF blk
  <2>4. AtTyped' BY <1>0, <1>1, <1>2, <1>5, <2>3 DEF AtTyped, KPcs, BlockInHand
  <2>. QED BY <1>4, <2>2, <2>4, KTypedNext
<1>6. CASE Fault /\ Return({"lost", "drift"} \cup GaveUp) /\ UNCHANGED sb
  <2>1. AtTyped' /\ harm' \subseteq KHarms
    <3>1. {"lost", "drift"} \cup GaveUp \subseteq KHarms BY GaveUpTyped DEF KHarms
    <3>. QED BY <1>6, <3>1, ReturnTyped
  <2>2. RamTyped' BY <1>0, <1>2, <1>6, <2>1, RamKept DEF RamTyped
  <2>. QED BY <1>4, <2>1, <2>2, KTypedNext
<1>. QED BY <1>5, <1>6 DEF alloc_block

(* A command that stops because of an error, or because the disk is full. *)
LEMMA GiveUpTyped ==
  ASSUME KTyped, io_error \/ disk_full PROVE KTyped'
<1>0. DiskTyped /\ RamTyped /\ AtTyped BY KTypedParts
<1>1. /\ Return(GaveUp) /\ (Fault \/ NoFault)
      /\ UNCHANGED <<diskVars, sb, cwd, cwd_path, live, wrote>>
  BY DEF io_error, disk_full
<1>2. AtTyped' /\ harm' \subseteq KHarms BY <1>1, GaveUpTyped, ReturnTyped
<1>3. DiskTyped' BY <1>0, <1>1 DEF DiskTyped, diskVars
<1>4. RamTyped' BY <1>0, <1>1, <1>2, RamKept DEF RamTyped
<1>. QED BY <1>2, <1>3, <1>4, KTypedNext

(* The write of a new inode, and of a new directory's block. *)
LEMMA InitTypedStep ==
  ASSUME KTyped, mkdir_init \/ touch_init PROVE KTyped'
<1>0. DiskTyped /\ RamTyped /\ AtTyped BY KTypedParts
<1>1. PICK n \in Inode :
        /\ ExtentsInData(n.extents) /\ itab' = [itab EXCEPT ![c.ino] = n]
        /\ data' \in [DataBlocks -> Block]
  <2>1. CASE mkdir_init
    <3>. DEFINE n == [mode |-> "dir", extents |-> <<OneBlock(c.blk)>>]
    <3>1. c.blk \in DataBlocks BY <1>0, <2>1 DEF mkdir_init, AtTyped, BlockInHand
    <3>2. DirBlock(c.ino, c.parent) \in Block BY KFacts, DirBlockTyped
    <3>3. data' \in [DataBlocks -> Block] BY <2>1, <3>1, <3>2, KFacts DEF mkdir_init
    <3>4. <<OneBlock(c.blk)>> \in Seq(Extent) /\ ExtentsInData(<<OneBlock(c.blk)>>)
      BY <3>1, OneBlockFacts, GeometryAssumption DEF ExtentsInData
    <3>5. n \in Inode BY <3>4 DEF Inode, Types
    <3>. QED BY <2>1, <3>3, <3>4, <3>5 DEF mkdir_init
  <2>2. CASE touch_init
    <3>. DEFINE n == [mode |-> "reg", extents |-> <<>>]
    <3>1. <<>> \in Seq(Extent) OBVIOUS
    <3>2. n \in Inode BY <3>1 DEF Inode, Types
    <3>3. ExtentsInData(<<>>) BY GeometryAssumption DEF ExtentsInData
    <3>. QED BY <2>2, <3>2, <3>3, KFacts DEF touch_init
  <2>. QED BY <2>1, <2>2
<1>2. /\ pc' = "dir_add_entry"
      /\ UNCHANGED <<ibm, bbm, dsb, sb, cwd, cwd_path, c, live, wrote, faults, harm>>
  BY DEF mkdir_init, touch_init
<1>3. itab' \in [Inodes -> Inode] /\ \A i \in Inodes : ExtentsInData(itab'[i].extents)
  BY <1>1, KFacts
<1>4. DiskTyped' BY <1>0, <1>1, <1>2, <1>3 DEF DiskTyped
<1>5. RamTyped' BY <1>0, <1>2 DEF RamTyped
<1>6. AtTyped' BY <1>0, <1>2 DEF AtTyped, KPcs, BlockInHand
<1>. QED BY <1>4, <1>5, <1>6, KTypedNext

(* The new entry is an entry. *)
LEMMA NewDirentTyped ==
  ASSUME KTyped PROVE NewDirent \in Dirent
<1>1. c.path.name \in Components \cup {""} BY KFacts DEF Path
<1>2. Cut[c.path.name] \in Components \cup {""} BY <1>1, KernelFacts, Zenon
<1>3. (IF c.op = "mkdir" THEN "dir" ELSE "reg") \in Types BY DEF Types
<1>. QED BY <1>2, <1>3, KFacts DEF NewDirent, Dirent

(* A directory that holds it, and a file that is empty. *)
LEMMA LinkedTyped ==
  ASSUME KTyped, Linked, UNCHANGED <<sb, cwd, cwd_path>>
  PROVE  RamTyped' /\ AtTyped'
<1>0. RamTyped /\ AtTyped BY KTypedParts
<1>1. wrote' \in [Inodes -> [val : Vals \cup {NoVal}, len : 0 .. MaxLen]]
  <2>1. 0 \in 0 .. MaxLen
    <3>1. MaxLen \in Nat BY KernelFacts, Zenon
    <3>. QED BY <3>1
  <2>2. [val |-> NoVal, len |-> 0] \in [val : Vals \cup {NoVal}, len : 0 .. MaxLen] BY <2>1
  <2>. QED BY <1>0, <2>2, KFacts DEF Linked, RamTyped
<1>2. live' \subseteq Inodes BY KFacts DEF Linked
<1>3. PICK h : /\ h \subseteq KHarms
               /\ \/ pc' = "flush_metadata" /\ harm' = harm \cup h /\ NoFault /\ UNCHANGED c
                  \/ Fault /\ Return(h)
  <2>1. Twin(c.parent, c.path.name) \subseteq KHarms BY DEF Twin, KHarms
  <2>2. (IF itab[c.parent].mode = "dir" THEN {} ELSE {"torn"}) \subseteq KHarms BY DEF KHarms
  <2>. QED BY <2>1, <2>2 DEF Linked
<1>4. faults' \in 0 .. MaxFaults BY <1>3, FaultTyped
<1>5. CASE pc' = "flush_metadata" /\ harm' = harm \cup h /\ UNCHANGED c
  <2>1. AtTyped' BY <1>0, <1>5 DEF AtTyped, KPcs, BlockInHand
  <2>2. RamTyped' BY <1>0, <1>1, <1>2, <1>3, <1>4, <1>5 DEF RamTyped
  <2>. QED BY <2>1, <2>2
<1>6. CASE Return(h)
  <2>1. AtTyped' /\ harm' \subseteq KHarms BY <1>3, <1>6, ReturnTyped
  <2>2. RamTyped' BY <1>0, <1>1, <1>2, <1>4, <2>1 DEF RamTyped
  <2>. QED BY <2>1, <2>2
<1>. QED BY <1>3, <1>5, <1>6

(* The cell a new entry goes to. *)
LEMMA FreeCellFacts ==
  ASSUME KTyped, NEW i \in Inodes, FreeCells(data, itab[i]) # {},
         NEW p, p = FirstCell(FreeCells(data, itab[i]))
  PROVE  /\ p \in Cells(itab[i]) /\ EntryAt(data, itab[i], p).inode = NIL
         /\ BlockAt(itab[i], p) \in BlocksOf(itab[i])
         /\ BlockAt(itab[i], p) \in DataBlocks /\ p[3] \in Slots
<1>. DEFINE n == itab[i]
<1>0. n \in Inode /\ ExtentsInData(n.extents) BY KFacts
<1>1. \A q \in FreeCells(data, n) : q \in Cells(n) /\ EntryAt(data, n, q).inode = NIL
  BY DEF FreeCells
<1>2. FreeCells(data, n) \subseteq Nat \X Nat \X Nat BY <1>0, <1>1, CellFacts
<1>3. p \in FreeCells(data, n) BY <1>2, FirstCellIn
<1>4. p \in Cells(n) /\ EntryAt(data, n, p).inode = NIL BY <1>1, <1>3
<1>5. BlockAt(n, p) \in DataBlocks /\ p[3] \in Slots BY <1>0, <1>4, CellFacts
<1>6. BlockAt(n, p) \in BlocksOf(n) BY <1>4, CellBlock
<1>. QED BY <1>4, <1>5, <1>6

(* Writing one entry of a block keeps it a block. *)
LEMMA EntryWritten ==
  ASSUME NEW d \in [DataBlocks -> Block], NEW b \in DataBlocks, NEW s \in Slots,
         NEW e \in Dirent, NEW f, f = [d EXCEPT ![b].ent[s] = e]
  PROVE  /\ f \in [DataBlocks -> Block]
         /\ \A x \in DataBlocks, r \in Slots :
              f[x].ent[r] = IF x = b /\ r = s THEN e ELSE d[x].ent[r]
         /\ \A x \in DataBlocks : f[x].val = d[x].val
<1>1. d[b] \in Block /\ d[b].ent \in [Slots -> Dirent] BY DEF Block
<1>. DEFINE g == [d[b].ent EXCEPT ![s] = e]  m == [d[b] EXCEPT !.ent = g]
<1>2. g \in [Slots -> Dirent] /\ \A r \in Slots : g[r] = IF r = s THEN e ELSE d[b].ent[r]
  BY <1>1
<1>3. f = [d EXCEPT ![b] = m] OBVIOUS
<1>. HIDE DEF g
<1>4. m \in Block /\ m.ent = g /\ m.val = d[b].val BY <1>1, <1>2 DEF Block
<1>. HIDE DEF m
<1>5. f \in [DataBlocks -> Block] /\ \A x \in DataBlocks : f[x] = IF x = b THEN m ELSE d[x]
  BY <1>3, <1>4
<1>. QED BY <1>2, <1>4, <1>5

(* dir_add_entry into a free slot. *)
LEMMA AddSlotTyped ==
  ASSUME KTyped, dir_add_entry_slot PROVE KTyped'
<1>0. DiskTyped BY KTypedParts
<1>1. PICK p : /\ p = FirstCell(FreeCells(data, itab[c.parent]))
               /\ data' = [data EXCEPT ![BlockAt(itab[c.parent], p)].ent[p[3]] = NewDirent]
  BY DEF dir_add_entry_slot
<1>2. c.parent \in Inodes BY KFacts
<1>3. BlockAt(itab[c.parent], p) \in DataBlocks /\ p[3] \in Slots
  BY <1>1, <1>2, FreeCellFacts DEF dir_add_entry_slot, DirFull
<1>4. data' \in [DataBlocks -> Block]
  <2>1. PICK d, r, e : d = BlockAt(itab[c.parent], p) /\ r = p[3] /\ e = NewDirent OBVIOUS
  <2>2. d \in DataBlocks /\ r \in Slots /\ e \in Dirent BY <1>3, <2>1, NewDirentTyped
  <2>3. data' = [data EXCEPT ![d].ent[r] = e] BY <1>1, <2>1
  <2>4. data \in [DataBlocks -> Block] BY KFacts
  <2>. QED BY <2>2, <2>3, <2>4, EntryWritten
<1>5. DiskTyped' BY <1>0, <1>4 DEF DiskTyped, dir_add_entry_slot
<1>6. RamTyped' /\ AtTyped' BY LinkedTyped DEF dir_add_entry_slot
<1>. QED BY <1>5, <1>6, KTypedNext

(* The first block of entries of a directory that grows. *)
LEMMA GrownBlock ==
  ASSUME NEW e \in Dirent, NEW b, b = [EmptyDirBlock EXCEPT !.ent[0] = e]
  PROVE  /\ b \in Block /\ b.val = NoVal /\ 0 \in Slots
         /\ \A s \in Slots : b.ent[s] = IF s = 0 THEN e ELSE FreeDirent
<1>1. 0 \in Slots BY GeometryAssumption DEF Slots
<1>2. FreeDirent \in Dirent BY DEF FreeDirent, Dirent, Types
<1>. DEFINE g == [[s \in Slots |-> FreeDirent] EXCEPT ![0] = e]
<1>3. g \in [Slots -> Dirent] /\ \A s \in Slots : g[s] = IF s = 0 THEN e ELSE FreeDirent
  BY <1>1, <1>2
<1>4. b = [ent |-> g, val |-> NoVal] BY DEF EmptyDirBlock
<1>. HIDE DEF g
<1>5. b.ent = g /\ b.val = NoVal BY <1>4
<1>6. b \in Block
  <2>1. NoVal \in Vals \cup {NoVal} OBVIOUS
  <2>2. [ent |-> g, val |-> NoVal] \in Block BY <1>3, <2>1, Zenon DEF Block
  <2>. QED BY <1>4, <2>2, Zenon
<1>. QED BY <1>1, <1>3, <1>5, <1>6

(* dir_add_entry into a new block. *)
LEMMA AddBlockTyped ==
  ASSUME KTyped, dir_add_block PROVE KTyped'
<1>0. DiskTyped /\ RamTyped /\ AtTyped BY KTypedParts
<1>1. /\ pc = "dir_add_block" /\ pc' = "dir_add_extent"
      /\ data' = [data EXCEPT ![c.blk] = [EmptyDirBlock EXCEPT !.ent[0] = NewDirent]]
      /\ UNCHANGED <<itab, ibm, bbm, dsb, sb, cwd, cwd_path, c, live, wrote, faults, harm>>
  BY DEF dir_add_block
<1>2. [EmptyDirBlock EXCEPT !.ent[0] = NewDirent] \in Block BY NewDirentTyped, GrownBlock
<1>3. data' \in [DataBlocks -> Block] BY <1>0, <1>1, <1>2 DEF DiskTyped
<1>4. DiskTyped' BY <1>0, <1>1, <1>3 DEF DiskTyped
<1>5. RamTyped' BY <1>0, <1>1 DEF RamTyped
<1>6. AtTyped' BY <1>0, <1>1 DEF AtTyped, KPcs, BlockInHand
<1>. QED BY <1>4, <1>5, <1>6, KTypedNext

(* Replacing the extents of an inode. *)
LEMMA ExtentsSet ==
  ASSUME KTyped, NEW i \in Inodes, NEW ext \in Seq(Extent), ExtentsInData(ext),
         NEW t, t = [itab EXCEPT ![i].extents = ext]
  PROVE  /\ t \in [Inodes -> Inode]
         /\ \A j \in Inodes : /\ ExtentsInData(t[j].extents) /\ t[j].mode = itab[j].mode
                              /\ j # i => t[j] = itab[j]
         /\ t[i].extents = ext
<1>1. itab[i] \in Inode BY KFacts
<1>2. [itab[i] EXCEPT !.extents = ext] \in Inode BY <1>1 DEF Inode
<1>3. t \in [Inodes -> Inode] BY <1>2, KFacts
<1>4. \A j \in Inodes : t[j] = IF j = i THEN [itab[i] EXCEPT !.extents = ext] ELSE itab[j]
  BY KFacts
<1>5. /\ [itab[i] EXCEPT !.extents = ext].extents = ext
      /\ [itab[i] EXCEPT !.extents = ext].mode = itab[i].mode
  BY <1>1 DEF Inode
<1>. QED BY <1>3, <1>4, <1>5, KFacts

(* The extent that makes a new block of entries count. *)
LEMMA AddExtentTyped ==
  ASSUME KTyped, dir_add_extent PROVE KTyped'
<1>0. DiskTyped /\ AtTyped BY KTypedParts
<1>. DEFINE ext == Append(itab[c.parent].extents, OneBlock(c.blk))
<1>1. c.parent \in Inodes /\ itab[c.parent].extents \in Seq(Extent)
      /\ ExtentsInData(itab[c.parent].extents)
  <2>1. c.parent \in Inodes /\ itab[c.parent] \in Inode BY KFacts
  <2>. QED BY <2>1, KFacts DEF Inode
<1>2. Len(itab[c.parent].extents) < MaxExtents /\ c.blk \in DataBlocks
  BY <1>0 DEF AtTyped, BlockInHand, dir_add_extent
<1>3. ext \in Seq(Extent) /\ ExtentsInData(ext) BY <1>1, <1>2, AppendExtent
<1>4. itab' = [itab EXCEPT ![c.parent].extents = ext] BY DEF dir_add_extent
<1>. HIDE DEF ext
<1>5. itab' \in [Inodes -> Inode] /\ \A j \in Inodes : ExtentsInData(itab'[j].extents)
  BY <1>1, <1>3, <1>4, ExtentsSet
<1>6. DiskTyped' BY <1>0, <1>5 DEF DiskTyped, dir_add_extent
<1>7. RamTyped' /\ AtTyped' BY LinkedTyped DEF dir_add_extent
<1>. QED BY <1>6, <1>7, KTypedNext

(* The start, and each turn, of the loop that frees the blocks. *)
LEMMA StartFreeTyped ==
  ASSUME KTyped, NEW call \in KCall, ExtentsInData(call.ext), StartFree(call)
  PROVE  AtTyped'
<1>1. c' = call /\ pc' = AfterFree(call) BY DEF StartFree
<1>2. pc' \in {"free_blocks", "free_inode", "write_loop"} BY <1>1 DEF AfterFree
<1>. QED BY <1>1, <1>2 DEF AtTyped, KPcs, BlockInHand

(* kzeros_write_file on a file that exists. *)
LEMMA StartWriteTyped ==
  ASSUME KTyped, NEW p \in Path, NEW v \in Vals \cup {NoVal}, NEW n \in 0 .. MaxLen,
         Writable(Resolve(p)), StartWrite(p, v, n)
  PROVE  AtTyped' /\ harm' \subseteq KHarms
<1>. DEFINE call == [NoCall EXCEPT !.op = "write", !.path = p, !.ino = Resolve(p), !.left = n,
                                   !.len = n, !.val = v, !.todo = BlocksOf(itab[Resolve(p)])]
<1>1. Resolve(p) \in Inodes BY DEF Writable, Readable
<1>2. BlocksOf(itab[Resolve(p)]) \subseteq DataBlocks BY <1>1, KFacts
<1>3. call \in KCall /\ call.ext = NoCall.ext
  BY <1>1, <1>2, NoCallTyped DEF KCall, KOps
<1>4. StartFree(call) /\ harm' = harm \cup PathHarm(p) BY DEF StartWrite
<1>. HIDE DEF call
<1>5. harm' \subseteq KHarms BY <1>4, KFacts, PathHarmTyped
<1>. QED BY <1>3, <1>4, <1>5, NoCallTyped, StartFreeTyped

(* kzeros_write_file. *)
LEMMA WriteFileTyped ==
  ASSUME KTyped, NEW p \in Path, NEW v \in Vals, NEW n \in 0 .. MaxLen,
         kzeros_write_file(p, v, n)
  PROVE  KTyped'
<1>0. DiskTyped /\ RamTyped BY KTypedParts
<1>1. CASE Create(p, "create", v, n) BY <1>1, CreateTyped
<1>2. CASE /\ Writable(Resolve(p)) /\ StartWrite(p, v, n)
           /\ UNCHANGED <<diskVars, sb, cwd, cwd_path, live, wrote, faults>>
  <2>1. AtTyped' /\ harm' \subseteq KHarms BY <1>2, StartWriteTyped
  <2>2. DiskTyped' BY <1>0, <1>2 DEF DiskTyped, diskVars
  <2>3. RamTyped' BY <1>0, <1>2, <2>1 DEF RamTyped
  <2>. QED BY <2>1, <2>2, <2>3, KTypedNext
<1>. QED BY <1>1, <1>2 DEF kzeros_write_file

(* kzeros_rm. *)
LEMMA RmTyped ==
  ASSUME KTyped, NEW p \in Path, kzeros_rm(p) PROVE KTyped'
<1>0. DiskTyped /\ RamTyped BY KTypedParts
<1>. DEFINE call == [NoCall EXCEPT !.op = "rm", !.path = p, !.ino = Resolve(p),
                                   !.todo = BlocksOf(itab[Resolve(p)])]
<1>1. Resolve(p) \in Inodes BY DEF kzeros_rm, Removable, Readable
<1>2. BlocksOf(itab[Resolve(p)]) \subseteq DataBlocks BY <1>1, KFacts
<1>3. call \in KCall /\ call.ext = NoCall.ext
  BY <1>1, <1>2, NoCallTyped DEF KCall, KOps
<1>4. /\ StartFree(call) /\ harm' = harm \cup PathHarm(p)
      /\ UNCHANGED <<diskVars, sb, cwd, cwd_path, live, wrote, faults>>
  BY DEF kzeros_rm
<1>. HIDE DEF call
<1>5. AtTyped' BY <1>3, <1>4, NoCallTyped, StartFreeTyped
<1>6. DiskTyped' BY <1>0, <1>4 DEF DiskTyped, diskVars
<1>7. harm' \subseteq KHarms BY <1>4, KFacts, PathHarmTyped
<1>8. RamTyped' BY <1>0, <1>4, <1>7 DEF RamTyped
<1>. QED BY <1>5, <1>6, <1>8, KTypedNext

(* What free_block and free_inode can do. *)
LEMMA FreeOutcomeTyped ==
  ASSUME KTyped, NEW bit, NEW k, FreeOutcome(bit, k)
  PROVE  (Fault \/ NoFault) /\ harm' \subseteq KHarms
<1>1. harm \subseteq KHarms BY KFacts
<1>. QED BY <1>1 DEF FreeOutcome, KHarms

(* free_block. *)
LEMMA FreeBlockTyped ==
  ASSUME KTyped, free_block PROVE KTyped'
<1>0. DiskTyped /\ RamTyped /\ AtTyped BY KTypedParts
<1>1. PICK b \in c.todo, bit \in {"set", "cleared"}, k \in 0 .. 1 :
        /\ FreeOutcome(bit, k)
        /\ bbm' = IF bit = "cleared" THEN bbm \ {b} ELSE bbm
        /\ sb' = [sb EXCEPT !.free_blocks = M!Add(@, k)]
        /\ StartFree([c EXCEPT !.todo = @ \ {b}])
  BY DEF free_block
<1>. DEFINE call == [c EXCEPT !.todo = @ \ {b}]
<1>2. call \in KCall /\ call.ext = c.ext BY <1>0 DEF AtTyped, KCall
<1>3. b \in DataBlocks BY <1>0 DEF AtTyped, KCall
<1>4. StartFree(call) BY <1>1
<1>. HIDE DEF call
<1>5. AtTyped' BY <1>0, <1>2, <1>4, StartFreeTyped DEF AtTyped
<1>6. UNCHANGED <<itab, data, ibm, dsb, cwd, cwd_path, live, wrote>> BY DEF free_block
<1>7. bbm' \subseteq Blocks /\ MetaBlocks \subseteq bbm'
  BY <1>0, <1>1, <1>3, GeometryAssumption DEF DiskTyped, DataBlocks, MetaBlocks
<1>8. DiskTyped' BY <1>0, <1>6, <1>7 DEF DiskTyped
<1>9. sb' \in M!Counters
  <2>1. sb \in M!Counters /\ k \in Nat BY <1>0 DEF RamTyped
  <2>. QED BY <1>1, <2>1, CountersTyped, SharedOps
<1>10. RamTyped' BY <1>0, <1>1, <1>6, <1>9, FreeOutcomeTyped, RamKept
<1>. QED BY <1>5, <1>8, <1>10, KTypedNext

(* The write of a block of a file. *)
LEMMA FileBlockTyped ==
  ASSUME NEW v \in Vals \cup {NoVal}
  PROVE  FileBlock(v) \in Block /\ FileBlock(v).val = v
BY EntriesAssumption DEF FileBlock, Block

(* kzeros_write_file's loop. *)
LEMMA WriteDataTyped ==
  ASSUME KTyped, write_data PROVE KTyped'
<1>0. DiskTyped /\ RamTyped /\ AtTyped BY KTypedParts
<1>1. /\ pc = "write_data" /\ pc' = "write_loop"
      /\ data' = [data EXCEPT ![c.blk] = FileBlock(c.val)]
      /\ c' = [c EXCEPT !.left = @ - 1, !.ext = GrowExtents(@, c.blk)]
      /\ UNCHANGED <<itab, ibm, bbm, dsb, sb, cwd, cwd_path, live, wrote, faults, harm>>
  BY DEF write_data
<1>2. c.blk \in DataBlocks /\ Len(c.ext) < MaxExtents /\ c.left > 0 /\ ExtentsInData(c.ext)
  BY <1>0, <1>1 DEF AtTyped, BlockInHand
<1>3. /\ c \in KCall /\ c.ext \in Seq(Extent) /\ c.left \in 0 .. MaxLen
      /\ c.val \in Vals \cup {NoVal}
  BY <1>0 DEF AtTyped, KCall
<1>4. /\ GrowExtents(c.ext, c.blk) \in Seq(Extent)
      /\ ExtentsInData(GrowExtents(c.ext, c.blk))
  BY <1>2, <1>3, GrowExtentsFacts
<1>5. c.left - 1 \in 0 .. MaxLen
  <2>1. MaxLen \in Nat BY KernelFacts, Zenon
  <2>. QED BY <1>2, <1>3, <2>1
<1>6. PICK g, l : /\ g = GrowExtents(c.ext, c.blk) /\ l = c.left - 1
                  /\ c' = [c EXCEPT !.left = l, !.ext = g]
  BY <1>1
<1>7. c' \in KCall /\ c'.ext = g BY <1>3, <1>4, <1>5, <1>6 DEF KCall
<1>8. FileBlock(c.val) \in Block BY <1>3, FileBlockTyped
<1>9. data' \in [DataBlocks -> Block] BY <1>0, <1>1, <1>8 DEF DiskTyped
<1>10. DiskTyped' BY <1>0, <1>1, <1>9 DEF DiskTyped
<1>11. RamTyped' BY <1>0, <1>1 DEF RamTyped
<1>12. AtTyped' BY <1>1, <1>4, <1>6, <1>7 DEF AtTyped, KPcs, BlockInHand
<1>. QED BY <1>10, <1>11, <1>12, KTypedNext

(* kzeros_write_file's last write. *)
LEMMA WriteInodeTyped ==
  ASSUME KTyped, write_inode PROVE KTyped'
<1>0. DiskTyped /\ RamTyped /\ AtTyped BY KTypedParts
<1>1. /\ itab' = [itab EXCEPT ![c.ino].extents = c.ext]
      /\ wrote' = [wrote EXCEPT ![c.ino] = [val |-> c.val, len |-> c.len]]
      /\ \/ pc' = "flush_metadata" /\ NoFault /\ UNCHANGED <<c, harm>>
         \/ Fault /\ Return({})
      /\ UNCHANGED <<data, ibm, bbm, dsb, sb, cwd, cwd_path, live>>
  BY DEF write_inode
<1>2. /\ c.ext \in Seq(Extent) /\ ExtentsInData(c.ext) /\ c.ino \in Inodes
      /\ [val |-> c.val, len |-> c.len] \in [val : Vals \cup {NoVal}, len : 0 .. MaxLen]
  BY <1>0 DEF AtTyped, KCall
<1>3. itab' \in [Inodes -> Inode] /\ \A j \in Inodes : ExtentsInData(itab'[j].extents)
  BY <1>1, <1>2, ExtentsSet
<1>4. DiskTyped' BY <1>0, <1>1, <1>3 DEF DiskTyped
<1>5. wrote' \in [Inodes -> [val : Vals \cup {NoVal}, len : 0 .. MaxLen]]
  BY <1>0, <1>1, <1>2 DEF RamTyped
<1>6. AtTyped' /\ harm' \subseteq KHarms
  <2>1. CASE pc' = "flush_metadata" /\ NoFault /\ UNCHANGED <<c, harm>>
    BY <1>0, <2>1 DEF AtTyped, KPcs, BlockInHand, RamTyped
  <2>2. CASE Fault /\ Return({}) BY <2>2, ReturnTyped
  <2>. QED BY <1>1, <2>1, <2>2
<1>7. faults' \in 0 .. MaxFaults BY <1>1, FaultTyped
<1>8. RamTyped' BY <1>0, <1>1, <1>5, <1>6, <1>7 DEF RamTyped
<1>. QED BY <1>4, <1>6, <1>8, KTypedNext

(* free_inode. *)
LEMMA FreeInodeTyped ==
  ASSUME KTyped, free_inode PROVE KTyped'
<1>0. DiskTyped /\ RamTyped /\ AtTyped BY KTypedParts
<1>1. PICK bit \in {"set", "cleared"}, k \in 0 .. 1 :
        /\ FreeOutcome(bit, k)
        /\ ibm' = IF bit = "cleared" THEN ibm \ {c.ino} ELSE ibm
        /\ sb' = [sb EXCEPT !.free_inodes = M!Add(@, k)]
  BY DEF free_inode
<1>2. /\ pc' = "dir_remove_entry"
      /\ UNCHANGED <<itab, data, bbm, dsb, cwd, cwd_path, c, live, wrote>>
  BY DEF free_inode
<1>3. DiskTyped' BY <1>0, <1>1, <1>2 DEF DiskTyped
<1>4. sb' \in M!Counters
  <2>1. sb \in M!Counters /\ k \in Nat BY <1>0 DEF RamTyped
  <2>. QED BY <1>1, <2>1, CountersTyped, SharedOps
<1>5. RamTyped' BY <1>0, <1>1, <1>2, <1>4, FreeOutcomeTyped, RamKept
<1>6. AtTyped' BY <1>0, <1>2 DEF AtTyped, KPcs, BlockInHand
<1>. QED BY <1>3, <1>5, <1>6, KTypedNext

(* Erasing an entry. *)
LEMMA ErasedTyped ==
  ASSUME KTyped, NEW i \in Inodes, NEW name
  PROVE  ErasedFrom(i, name) \in [DataBlocks -> Block]
<1>. DEFINE n == itab[i]  hits == CellsNamed(data, n, name)  cell == FirstCell(hits)
<1>0. n \in Inode /\ ExtentsInData(n.extents) /\ data \in [DataBlocks -> Block] BY KFacts
<1>1. CASE hits = {} BY <1>0, <1>1 DEF ErasedFrom
<1>2. CASE hits # {}
  <2>1. hits \subseteq Cells(n) BY DEF CellsNamed
  <2>2. hits \subseteq Nat \X Nat \X Nat BY <1>0, <2>1, CellFacts
  <2>3. cell \in Cells(n) BY <1>2, <2>1, <2>2, FirstCellIn
  <2>4. BlockAt(n, cell) \in DataBlocks /\ cell[3] \in Slots BY <1>0, <2>3, CellFacts
  <2>5. FreeDirent \in Dirent BY DEF FreeDirent, Dirent, Types
  <2>6. ErasedFrom(i, name) = [data EXCEPT ![BlockAt(n, cell)].ent[cell[3]] = FreeDirent]
    BY <1>2 DEF ErasedFrom
  <2>. QED BY <1>0, <2>4, <2>5, <2>6, EntryWritten
<1>. QED BY <1>1, <1>2

(* dir_remove_entry. *)
LEMMA RemoveEntryTyped ==
  ASSUME KTyped, dir_remove_entry PROVE KTyped'
<1>0. DiskTyped /\ RamTyped /\ AtTyped BY KTypedParts
<1>1. /\ pc' = "flush_metadata" /\ live' = live \ {c.ino}
      /\ wrote' = [wrote EXCEPT ![c.ino] = [val |-> NoVal, len |-> 0]]
      /\ UNCHANGED <<itab, ibm, bbm, dsb, sb, cwd, cwd_path, c>>
      /\ data' \in {data, M!Erased(c.path)} /\ (Fault \/ NoFault)
      /\ M!Erased(c.path) = data' => Readable(itab, Parent(c.path)) \/ data' = data
      /\ harm' \in {harm, harm \cup {"torn"}}
  BY Zenon DEF dir_remove_entry
<1>2. data' \in [DataBlocks -> Block]
  <2>1. CASE data' = data BY <1>0, <2>1 DEF DiskTyped
  <2>2. CASE data' # data
    <3>1. /\ data' = ErasedFrom(Parent(c.path), c.path.name)
          /\ Readable(itab, Parent(c.path))
      BY <1>1, <2>2, ErasedIs
    <3>2. Parent(c.path) \in Inodes BY <3>1 DEF Readable
    <3>. QED BY <3>1, <3>2, ErasedTyped
  <2>. QED BY <2>1, <2>2
<1>3. DiskTyped' BY <1>0, <1>1, <1>2 DEF DiskTyped
<1>4. wrote' \in [Inodes -> [val : Vals \cup {NoVal}, len : 0 .. MaxLen]]
  <2>1. MaxLen \in Nat BY KernelFacts, Zenon
  <2>2. [val |-> NoVal, len |-> 0] \in [val : Vals \cup {NoVal}, len : 0 .. MaxLen] BY <2>1
  <2>. QED BY <1>0, <1>1, <2>2 DEF RamTyped
<1>5. faults' \in 0 .. MaxFaults BY <1>1, FaultTyped
<1>6. RamTyped' BY <1>0, <1>1, <1>4, <1>5 DEF RamTyped, KHarms
<1>7. AtTyped' BY <1>0, <1>1 DEF AtTyped, KPcs, BlockInHand
<1>. QED BY <1>3, <1>6, <1>7, KTypedNext

(* flush_metadata: the end of a command, or the write after its touch. *)
LEMMA FlushTyped ==
  ASSUME KTyped, flush_metadata PROVE KTyped'
<1>0. DiskTyped /\ RamTyped /\ AtTyped BY KTypedParts
<1>1. /\ dsb' = sb /\ UNCHANGED <<itab, data, ibm, bbm, sb, cwd, cwd_path, live, wrote>>
      /\ Fault \/ NoFault
  BY DEF flush_metadata
<1>2. DiskTyped' BY <1>0, <1>1 DEF DiskTyped, RamTyped
<1>3. AtTyped' /\ harm' \subseteq KHarms
  <2>1. CASE Writable(Resolve(c.path)) /\ StartWrite(c.path, c.val, c.len)
    <3>1. c.path \in Path /\ c.val \in Vals \cup {NoVal} /\ c.len \in 0 .. MaxLen
      BY <1>0 DEF AtTyped, KCall
    <3>. QED BY <1>0, <2>1, <3>1, StartWriteTyped DEF RamTyped
  <2>2. CASE Return({}) BY <2>2, ReturnTyped
  <2>3. CASE pc' = "off" /\ c' = NoCall /\ UNCHANGED harm
    BY <1>0, <1>1, <2>3, NoCallTyped DEF AtTyped, KPcs, BlockInHand, RamTyped
  <2>. QED BY <2>1, <2>2, <2>3 DEF flush_metadata
<1>4. faults' \in 0 .. MaxFaults BY <1>1, FaultTyped
<1>5. RamTyped' BY <1>0, <1>1, <1>3, <1>4 DEF RamTyped
<1>. QED BY <1>2, <1>3, <1>5, KTypedNext

(* The power goes. *)
LEMMA PowerLossTyped ==
  ASSUME KTyped, PowerLoss PROVE KTyped'
<1>0. DiskTyped /\ RamTyped /\ AtTyped BY KTypedParts
<1>1. /\ pc' = "off" /\ c' = NoCall /\ Fault /\ sb' = dsb /\ cwd' = ROOT /\ cwd_path' = <<>>
      /\ UNCHANGED <<diskVars, live, wrote>>
  BY DEF PowerLoss
<1>2. harm' \subseteq KHarms
  <2>1. (IF Removing THEN {"torn"} ELSE {}) \subseteq KHarms
        /\ (IF dsb # sb THEN {"drift"} ELSE {}) \subseteq KHarms
    BY DEF KHarms
  <2>. QED BY <1>0, <2>1, GaveUpTyped DEF PowerLoss, RamTyped
<1>3. DiskTyped' BY <1>0, <1>1 DEF DiskTyped, diskVars
<1>4. <<>> \in Seq(Components) OBVIOUS
<1>5. faults' \in 0 .. MaxFaults BY <1>1, FaultTyped
<1>6. RamTyped' BY <1>0, <1>1, <1>2, <1>4, <1>5, RootInodes DEF RamTyped, DiskTyped
<1>7. AtTyped' BY <1>1, NoCallTyped DEF AtTyped, KPcs, BlockInHand, diskVars
<1>. QED BY <1>3, <1>6, <1>7, KTypedNext

(* The freshly formatted disk is typed. *)
LEMMA KInitTyped == Init => KTyped
<1>. SUFFICES ASSUME Init PROVE KTyped OBVIOUS
<1>0. TotalInodes \in Nat \ {0} /\ DataStart \in Nat /\ TotalBlocks \in Nat
      /\ 0 < DataStart /\ DataStart < TotalBlocks
  BY GeometryAssumption
<1>1. DataStart \in DataBlocks /\ MetaBlocks \subseteq Blocks /\ DataStart \in Blocks
  BY <1>0 DEF DataBlocks, Blocks, MetaBlocks
<1>2. itab \in [Inodes -> Inode] /\ \A i \in Inodes : ExtentsInData(itab[i].extents)
  <2>. DEFINE n == [mode |-> "dir", extents |-> <<OneBlock(DataStart)>>]
  <2>1. <<OneBlock(DataStart)>> \in Seq(Extent) /\ ExtentsInData(<<OneBlock(DataStart)>>)
    BY <1>1, OneBlockFacts, GeometryAssumption DEF ExtentsInData
  <2>2. n \in Inode /\ ExtentsInData(n.extents) BY <2>1 DEF Inode, Types
  <2>3. FreshInode \in Inode /\ ExtentsInData(FreshInode.extents)
    <3>1. <<>> \in Seq(Extent) OBVIOUS
    <3>. QED BY <3>1, GeometryAssumption DEF FreshInode, Inode, Types, ExtentsInData
  <2>4. itab = [i \in Inodes |-> IF i = ROOT THEN n ELSE FreshInode] BY DEF Init
  <2>. HIDE DEF n
  <2>. QED BY <2>2, <2>3, <2>4
<1>3. data \in [DataBlocks -> Block]
  <2>1. DirBlock(ROOT, ROOT) \in Block BY RootInodes, DirBlockTyped
  <2>2. EmptyDirBlock \in Block BY DEF EmptyDirBlock, Block, FreeDirent, Dirent, Types
  <2>3. data = [b \in DataBlocks |->
                  IF b = DataStart THEN DirBlock(ROOT, ROOT) ELSE EmptyDirBlock]
    BY DEF Init
  <2>. QED BY <2>1, <2>2, <2>3
<1>4. U32 \in Nat /\ U32 > TotalBlocks /\ U32 > TotalInodes /\ MaxFaults \in Nat /\ MaxLen \in Nat
  BY KernelFacts, Zenon
<1>5. dsb \in M!Counters /\ sb = dsb
  <2>1. TotalInodes - 1 \in 0 .. U32 - 1 /\ TotalBlocks - DataStart - 1 \in 0 .. U32 - 1
    BY <1>0, <1>4
  <2>. QED BY <2>1, SharedOps DEF Init
<1>6. <<>> \in Seq(Components) OBVIOUS
<1>7. wrote \in [Inodes -> [val : Vals \cup {NoVal}, len : 0 .. MaxLen]]
  <2>1. [val |-> NoVal, len |-> 0] \in [val : Vals \cup {NoVal}, len : 0 .. MaxLen] BY <1>4
  <2>2. wrote = [i \in Inodes |-> [val |-> NoVal, len |-> 0]] BY DEF Init
  <2>. QED BY <2>1, <2>2
<1>8. DiskTyped BY <1>1, <1>2, <1>3, <1>5, RootInodes DEF Init, DiskTyped
<1>9. RamTyped BY <1>4, <1>5, <1>6, <1>7, RootInodes DEF Init, RamTyped, KHarms
<1>10. AtTyped BY NoCallTyped DEF Init, AtTyped, KPcs, BlockInHand
<1>. QED BY <1>8, <1>9, <1>10, KTypedParts

(* A command goes on with an inode nothing has written. *)
Strays == \E p \in Paths : astray(p)

(* Every step but that one keeps the types. *)
LEMMA KStepTyped == KTyped /\ [Next]_vars /\ ~Strays => KTyped'
<1>. SUFFICES ASSUME KTyped, [Next]_vars, ~Strays PROVE KTyped' OBVIOUS
<1>1. CASE Command
  <2>1. CASE kzeros_open \/ kzeros_close BY <2>1, OpenCloseTyped
  <2>2. ASSUME NEW p \in Paths,
               \/ kzeros_cd(p) \/ kzeros_mkdir(p) \/ kzeros_touch(p) \/ kzeros_rm(p)
               \/ \E op \in {"mkdir", "touch"} : blind_create(p, op)
               \/ \E v \in Vals, n \in 0 .. MaxLen : kzeros_write_file(p, v, n)
        PROVE  KTyped'
    <3>1. p \in Path BY KernelFacts, Zenon
    <3>2. CASE kzeros_cd(p) BY <3>1, <3>2, CdTyped
    <3>3. CASE kzeros_mkdir(p) BY <3>1, <3>3, MkdirTyped
    <3>4. CASE kzeros_touch(p)
      <4>1. 0 \in 0 .. MaxLen
        <5>1. MaxLen \in Nat BY KernelFacts, Zenon
        <5>. QED BY <5>1
      <4>2. Create(p, "touch", NoVal, 0) BY <3>4 DEF kzeros_touch
      <4>. QED BY <3>1, <4>1, <4>2, CreateTyped
    <3>5. CASE kzeros_rm(p) BY <3>1, <3>5, RmTyped
    <3>6. ASSUME NEW op \in {"mkdir", "touch"}, blind_create(p, op) PROVE KTyped'
      BY <3>1, <3>6, BlindTyped
    <3>7. ASSUME NEW v \in Vals, NEW n \in 0 .. MaxLen, kzeros_write_file(p, v, n)
          PROVE  KTyped'
      BY <3>1, <3>7, WriteFileTyped
    <3>. QED BY <2>2, <3>2, <3>3, <3>4, <3>5, <3>6, <3>7
  <2>. QED BY <1>1, <2>1, <2>2 DEF Command, Strays
<1>2. CASE Step
  <2>1. CASE mkdir_block BY <2>1, AllocBlockTyped DEF mkdir_block
  <2>2. CASE mkdir_init \/ touch_init BY <2>2, InitTypedStep
  <2>3. CASE dir_add_entry_slot BY <2>3, AddSlotTyped
  <2>4. CASE dir_add_entry_grow BY <2>4, AllocBlockTyped DEF dir_add_entry_grow
  <2>5. CASE dir_add_block BY <2>5, AddBlockTyped
  <2>6. CASE dir_add_extent BY <2>6, AddExtentTyped
  <2>7. CASE free_block BY <2>7, FreeBlockTyped
  <2>8. CASE write_loop BY <2>8, AllocBlockTyped DEF write_loop
  <2>9. CASE write_data BY <2>9, WriteDataTyped
  <2>10. CASE write_inode BY <2>10, WriteInodeTyped
  <2>11. CASE free_inode BY <2>11, FreeInodeTyped
  <2>12. CASE dir_remove_entry BY <2>12, RemoveEntryTyped
  <2>13. CASE flush_metadata BY <2>13, FlushTyped
  <2>14. CASE disk_full BY <2>14, GiveUpTyped
  <2>. QED BY <1>2, <2>1, <2>2, <2>3, <2>4, <2>5, <2>6, <2>7, <2>8, <2>9, <2>10, <2>11,
              <2>12, <2>13, <2>14 DEF Step
<1>3. CASE io_error BY <1>3, GiveUpTyped
<1>4. CASE PowerLoss BY <1>4, PowerLossTyped
<1>5. CASE UNCHANGED vars
  BY <1>5, KTypedParts, KTypedNext
     DEF vars, DiskTyped, RamTyped, AtTyped, BlockInHand
<1>. QED BY <1>1, <1>2, <1>3, <1>4, <1>5 DEF Next

(* That one keeps what TypeOK says, which makes an exception for it. *)
LEMMA AstrayTyped == KTyped /\ Strays => TypeOK' /\ pc' = "astray"
<1>. SUFFICES ASSUME KTyped, NEW p \in Paths, astray(p) PROVE TypeOK' /\ pc' = "astray"
  BY DEF Strays
<1>1. /\ pc' = "astray" /\ harm' = harm \cup {"stray"} \cup PathHarm(p) /\ bbm' \subseteq bbm
      /\ UNCHANGED <<itab, data, ibm, dsb, sb, cwd, cwd_path, c, live, wrote, faults>>
  BY DEF astray
<1>2. TypeOK BY DEF KTyped
<1>3. harm' \subseteq Harms
  <2>1. PathHarm(p) \subseteq Harms BY DEF PathHarm, Harms
  <2>2. "stray" \in Harms /\ harm \subseteq Harms BY <1>2 DEF TypeOK, Harms
  <2>. QED BY <1>1, <2>1, <2>2
<1>4. pc' \in Pcs BY <1>1 DEF Pcs
<1>. QED BY <1>1, <1>2, <1>3, <1>4 DEF TypeOK

(* And it is the last step. *)
LEMMA AstrayEnds == pc = "astray" /\ [Next]_vars => UNCHANGED vars
<1>. SUFFICES ASSUME pc = "astray", Next PROVE FALSE OBVIOUS
<1>1. ~Command
  BY DEF Command, kzeros_open, kzeros_close, kzeros_cd, astray, kzeros_mkdir, kzeros_touch,
         kzeros_rm, blind_create, kzeros_write_file
<1>2. ~(mkdir_block \/ mkdir_init \/ touch_init \/ dir_add_entry_slot \/ dir_add_entry_grow
        \/ dir_add_block \/ dir_add_extent)
  BY DEF mkdir_block, mkdir_init, touch_init, dir_add_entry_slot, dir_add_entry_grow,
         dir_add_block, dir_add_extent
<1>3. ~(free_block \/ write_loop \/ write_data \/ write_inode \/ free_inode
        \/ dir_remove_entry \/ flush_metadata \/ disk_full)
  BY DEF free_block, write_loop, write_data, write_inode, free_inode, dir_remove_entry,
         flush_metadata, disk_full
<1>4. ~io_error /\ ~PowerLoss BY DEF io_error, PowerLoss
<1>. QED BY <1>1, <1>2, <1>3, <1>4 DEF Next, Step

KTypedUntilAstray == TypeOK /\ (pc # "astray" => KTyped)

(* Whatever the commands do, whichever transfers fail and whenever the     *)
(* power goes, what is on disk and in memory has its type: in particular   *)
(* every extent list fits its inode and stays in the data area, the        *)
(* metadata blocks are marked, and no command is about to write outside    *)
(* the data area, until a command goes on with an inode nothing has        *)
(* written.                                                                *)
THEOREM KTypeCorrect == Spec => []TypeOK
<1>1. Init => KTypedUntilAstray BY KInitTyped DEF KTypedUntilAstray, KTyped
<1>2. KTypedUntilAstray /\ [Next]_vars => KTypedUntilAstray'
  <2>. SUFFICES ASSUME KTypedUntilAstray, [Next]_vars PROVE KTypedUntilAstray' OBVIOUS
  <2>1. CASE pc = "astray"
    <3>1. UNCHANGED vars BY <2>1, AstrayEnds
    <3>. QED BY <2>1, <3>1 DEF KTypedUntilAstray, TypeOK, vars
  <2>2. CASE pc # "astray" /\ Strays BY <2>2, AstrayTyped DEF KTypedUntilAstray
  <2>3. CASE pc # "astray" /\ ~Strays
    <3>1. KTyped' BY <2>3, KStepTyped DEF KTypedUntilAstray
    <3>2. TypeOK' BY <3>1 DEF KTyped
    <3>. QED BY <3>1, <3>2 DEF KTypedUntilAstray
  <2>. QED BY <2>1, <2>2, <2>3
<1>3. KTypedUntilAstray => TypeOK BY DEF KTypedUntilAstray
<1>. QED BY <1>1, <1>2, <1>3, PTL DEF Spec

-----------------------------------------------------------------------------
(* Part 2.  Who owns what, and the tree. *)

(* The first cells of a directory are in its first block. *)
LEMMA FirstBlockIn ==
  ASSUME KTyped, NEW i \in Inodes, itab[i].extents # <<>>
  PROVE  /\ FirstBlock(i) \in BlocksOf(itab[i]) /\ FirstBlock(i) \in DataBlocks
         /\ \A s \in Slots : /\ <<1, 0, s>> \in Cells(itab[i])
                             /\ BlockAt(itab[i], <<1, 0, s>>) = FirstBlock(i)
<1>. DEFINE n == itab[i]
<1>1. n.extents \in Seq(Extent) /\ ExtentsInData(n.extents) /\ BlocksOf(n) \subseteq DataBlocks
  BY KFacts DEF Inode
<1>2. 1 \in 1 .. Len(n.extents) BY <1>1
<1>3. n.extents[1] \in Extent /\ n.extents[1].length > 0 BY <1>1, <1>2 DEF ExtentsInData
<1>4. n.extents[1].start \in Nat /\ n.extents[1].length \in Nat BY <1>3 DEF Extent
<1>5. 0 \in 0 .. TotalBlocks - 1 BY GeometryAssumption
<1>6. <<1, 0>> \in BlockPos(n) BY <1>2, <1>3, <1>5 DEF BlockPos
<1>7. BlockAt(n, <<1, 0>>) = FirstBlock(i) BY <1>4 DEF BlockAt, FirstBlock
<1>8. \A s \in Slots : /\ <<1, 0, s>> \in Cells(n)
                       /\ BlockAt(n, <<1, 0, s>>) = FirstBlock(i)
  BY <1>2, <1>3, <1>4, <1>5 DEF Cells, BlockAt, FirstBlock
<1>. QED BY <1>1, <1>6, <1>7, <1>8 DEF BlocksOf

(* "." and ".." are found in the first two slots, whatever else has those  *)
(* names.                                                                  *)
LEMMA DotLookups ==
  ASSUME KTyped, KDots, NEW i \in live, itab[i].mode = "dir"
  PROVE  /\ dir_lookup(itab, data, i, ".") = i
         /\ dir_lookup(itab, data, i, "..") = Ent(FirstBlock(i), 1).inode
         /\ Used(i, FirstBlock(i), 0) /\ Used(i, FirstBlock(i), 1)
         /\ FirstBlock(i) \in DataBlocks
<1>. DEFINE n == itab[i]  f == FirstBlock(i)  here == <<1, 0, 0>>  up == <<1, 0, 1>>
<1>0. i \in Inodes /\ n \in Inode /\ ExtentsInData(n.extents) BY KFacts
<1>1. /\ n.extents # <<>>
      /\ Ent(f, 0).inode = i /\ Ent(f, 0).name = "."
      /\ Ent(f, 1).inode # NIL /\ Ent(f, 1).name = ".."
  BY DEF KDots
<1>2. 0 \in Slots /\ 1 \in Slots BY GeometryAssumption DEF Slots
<1>3. /\ f \in BlocksOf(n) /\ f \in DataBlocks
      /\ here \in Cells(n) /\ BlockAt(n, here) = f
      /\ up \in Cells(n) /\ BlockAt(n, up) = f
  BY <1>0, <1>1, <1>2, FirstBlockIn
<1>4. EntryAt(data, n, here) = Ent(f, 0) /\ EntryAt(data, n, up) = Ent(f, 1)
  BY <1>3 DEF EntryAt, Ent
<1>5. i # NIL BY <1>0, RootInodes
<1>6. \A q \in Cells(n) : q \in Nat \X Nat \X Nat /\ q[1] >= 1
  <2>1. \A q \in Cells(n) : q[1] \in 1 .. Len(n.extents) BY DEF Cells
  <2>2. Len(n.extents) \in Nat BY <1>0 DEF Inode
  <2>. QED BY <1>0, <2>1, <2>2, CellFacts
<1>7. \A q \in Cells(n) : ScannedBefore(here, q) BY <1>6 DEF ScannedBefore
<1>8. \A q \in Cells(n) : q # here => ScannedBefore(up, q) BY <1>6 DEF ScannedBefore
<1>9. dir_lookup(itab, data, i, ".") = i
  <2>. DEFINE hits == CellsNamed(data, n, ".")
  <2>1. here \in hits /\ hits \subseteq Cells(n)
    BY <1>1, <1>3, <1>4, <1>5 DEF CellsNamed
  <2>2. \A q \in hits : ScannedBefore(here, q) BY <1>7, <2>1
  <2>3. \A q \in hits : ScannedBefore(q, here) => q = here
    BY <1>6, <2>1 DEF ScannedBefore
  <2>. HIDE DEF hits
  <2>4. FirstCell(hits) = here BY <2>1, <2>2, <2>3 DEF FirstCell
  <2>. QED BY <1>1, <1>4, <2>1, <2>4 DEF dir_lookup, hits
<1>10. dir_lookup(itab, data, i, "..") = Ent(f, 1).inode
  <2>. DEFINE hits == CellsNamed(data, n, "..")
  <2>1. up \in hits /\ here \notin hits /\ hits \subseteq Cells(n)
    BY <1>1, <1>3, <1>4 DEF CellsNamed
  <2>2. \A q \in hits : ScannedBefore(up, q) BY <1>8, <2>1
  <2>3. \A q \in hits : ScannedBefore(q, up) => q = up
    BY <1>6, <2>1 DEF ScannedBefore
  <2>. HIDE DEF hits
  <2>4. FirstCell(hits) = up BY <2>1, <2>2, <2>3 DEF FirstCell
  <2>. QED BY <1>1, <1>4, <2>1, <2>4 DEF dir_lookup, hits
<1>. QED BY <1>1, <1>2, <1>3, <1>5, <1>9, <1>10 DEF Used

(* A link of a live directory. *)
LinkNamed(i, name, j) ==
  \E b \in DataBlocks, s \in Slots :
    IsLink(i, b, s) /\ Ent(b, s).name = name /\ Ent(b, s).inode = j

(* What dir_lookup finds. *)
LEMMA LookupHit ==
  ASSUME KTyped, NEW i \in Inodes, NEW name, NEW j, j = dir_lookup(itab, data, i, name)
  PROVE  /\ j = NIL => \A b \in BlocksOf(itab[i]), s \in Slots :
                         Ent(b, s).inode # NIL => Ent(b, s).name # name
         /\ j # NIL => \E b \in BlocksOf(itab[i]), s \in Slots :
                         Ent(b, s).inode = j /\ Ent(b, s).name = name
         /\ BlocksOf(itab[i]) \subseteq DataBlocks
<1>1. /\ itab \in [Inodes -> Inode] /\ data \in [DataBlocks -> Block]
      /\ ExtentsInData(itab[i].extents) /\ BlocksOf(itab[i]) \subseteq DataBlocks
  BY KFacts
<1>2. LET k == dir_lookup(itab, data, i, name) IN
      /\ k = NIL => \A b \in BlocksOf(itab[i]), s \in Slots :
                      data[b].ent[s].inode # NIL => data[b].ent[s].name # name
      /\ k # NIL => \E b \in BlocksOf(itab[i]), s \in Slots :
                      data[b].ent[s].inode = k /\ data[b].ent[s].name = name
  BY <1>1, LookupFacts
<1>. QED BY <1>1, <1>2 DEF Ent

(* Names paths are made of: all of them, and all but "." and "..". *)
Sought(name)   == name # ""
Ordinary(name) == name \notin {"", ".", ".."}

(* An ordinary name is found through a link of a directory. *)
LEMMA LookupLink ==
  ASSUME KTyped, KTree, NEW i \in live, itab[i].mode = "dir", NEW name, Ordinary(name),
         NEW j, j = dir_lookup(itab, data, i, name), j # NIL
  PROVE  LinkNamed(i, name, j)
<1>1. i \in Inodes BY KFacts
<1>2. PICK b \in BlocksOf(itab[i]), s \in Slots : Ent(b, s).inode = j /\ Ent(b, s).name = name
  BY <1>1, LookupHit
<1>3. b \in DataBlocks BY <1>1, LookupHit
<1>4. Used(i, b, s) BY <1>2 DEF Used
<1>5. IsLink(i, b, s) BY <1>2, <1>4, Zenon DEF IsLink, Ordinary
<1>. QED BY <1>2, <1>3, <1>5 DEF LinkNamed

(* From a directory a path leads to, a name leads to something live that a *)
(* path leads to.                                                          *)
LEMMA LookupNamed ==
  ASSUME KTyped, KTree, NEW i \in live, Named(i), itab[i].mode = "dir",
         NEW name, Sought(name), NEW j, j = dir_lookup(itab, data, i, name), j # NIL
  PROVE  j \in live /\ Named(j)
<1>1. CASE name \notin {".", ".."}
  <2>0. Ordinary(name) BY <1>1, Zenon DEF Ordinary, Sought
  <2>1. LinkNamed(i, name, j) BY <2>0, LookupLink
  <2>2. PICK b \in DataBlocks, s \in Slots : IsLink(i, b, s) /\ Ent(b, s).inode = j
    BY <2>1 DEF LinkNamed
  <2>3. j \in live BY <2>2 DEF KTree, KLinks
  <2>4. LinkTo(i, j) BY <2>2 DEF LinkTo
  <2>. QED BY <2>3, <2>4 DEF Named
<1>2. CASE name \in {".", ".."}
  <2>2. name = "." => j = i BY DotLookups DEF KTree
  <2>3. name = ".." => j = Ent(FirstBlock(i), 1).inode BY DotLookups DEF KTree
  <2>4. IF i = ROOT THEN Ent(FirstBlock(i), 1).inode = ROOT
        ELSE LinkTo(Ent(FirstBlock(i), 1).inode, i)
    BY DEF KTree, KDots
  <2>5. \A k : LinkTo(k, i) => k \in live /\ Named(k)
    <3>1. \A k, b, s : IsLink(k, b, s) => k \in live BY DEF IsLink, Used
    <3>. QED BY <3>1 DEF LinkTo, KTree, KLinks
  <2>. QED BY <1>2, <2>2, <2>3, <2>4, <2>5 DEF Named, KTree
<1>. QED BY <1>1, <1>2

(* What is live has been written. *)
LEMMA LiveReadable ==
  ASSUME KTyped, KTree, NEW i \in live PROVE Readable(itab, i)
BY KFacts DEF KTree, Readable

(* What a path that names no file on the way resolves to is live, and a    *)
(* path leads to it.                                                       *)
LEMMA ResolveNamed ==
  ASSUME KTyped, KTree, Cwd, NEW p \in Path
  PROVE  /\ Parent(p) # NIL => Parent(p) \in live /\ Named(Parent(p))
         /\ Resolve(p) # NIL /\ ~ThroughFile(p) => Resolve(p) \in live /\ Named(Resolve(p))
<1>1. ROOT \in live /\ Named(ROOT) /\ itab[ROOT].mode = "dir" BY DEF KTree, Named
<1>2. PICK start : start = IF p.abs THEN ROOT ELSE cwd OBVIOUS
<1>3. start \in live /\ Named(start) /\ itab[start].mode = "dir" BY <1>1, <1>2 DEF Cwd
<1>4. Parent(p) = IF p.dir = "" THEN start ELSE dir_lookup(itab, data, start, p.dir)
  BY <1>2 DEF Parent, resolve_parent
<1>5. Parent(p) # NIL => Parent(p) \in live /\ Named(Parent(p))
  <2>1. CASE ~Sought(p.dir) BY <1>3, <1>4, <2>1, Zenon DEF Sought
  <2>2. CASE Sought(p.dir)
    <3>1. Parent(p) = dir_lookup(itab, data, start, p.dir) BY <1>4, <2>2, Zenon DEF Sought
    <3>. QED BY <1>3, <2>2, <3>1, LookupNamed
  <2>. QED BY <2>1, <2>2
<1>6. Resolve(p) = IF p.name = "" \/ ~Readable(itab, Parent(p)) THEN Parent(p)
                   ELSE dir_lookup(itab, data, Parent(p), p.name)
  BY DEF Resolve, resolve_path, Parent
<1>7. Resolve(p) # NIL /\ ~ThroughFile(p) => Resolve(p) \in live /\ Named(Resolve(p))
  <2>1. CASE ~Readable(itab, Parent(p)) \/ ~Sought(p.name)
    BY <1>5, <1>6, <2>1, Zenon DEF Sought
  <2>2. CASE Readable(itab, Parent(p)) /\ Sought(p.name) /\ ~ThroughFile(p)
    <3>1. Resolve(p) = dir_lookup(itab, data, Parent(p), p.name)
      BY <1>6, <2>2, Zenon DEF Sought
    <3>2. itab[Parent(p)].mode = "dir" BY <2>2, Zenon DEF Sought, ThroughFile
    <3>3. Parent(p) # NIL BY <2>2, RootInodes DEF Readable
    <3>. QED BY <1>5, <2>2, <3>1, <3>2, <3>3, LookupNamed
  <2>. QED BY <2>1, <2>2
<1>. QED BY <1>5, <1>7

(* A path through a file is damage. *)
LEMMA NotThroughFile ==
  ASSUME NEW p, Sound', PathHarm(p) \subseteq harm' PROVE ~ThroughFile(p)
BY DEF PathHarm, Sound

(* Without damage no command goes astray. *)
LEMMA NoStray ==
  ASSUME KTyped, KTree, Cwd, Sound' PROVE ~Strays
<1>. SUFFICES ASSUME NEW p \in Paths, astray(p) PROVE FALSE BY DEF Strays
<1>1. p \in Path BY KernelFacts, Zenon
<1>2. ~ThroughFile(p) BY NotThroughFile DEF astray
<1>3. Resolve(p) \in live BY <1>1, <1>2, ResolveNamed DEF astray
<1>. QED BY <1>3, LiveReadable DEF astray

(* The directories of the tree, and what they lead to, before and after a  *)
(* step that changes neither.                                              *)
TreeKept ==
  /\ live' = live
  /\ \A i \in live, b \in DataBlocks, s \in Slots :
       /\ Used(i, b, s)' <=> Used(i, b, s)
       /\ IsLink(i, b, s)' <=> IsLink(i, b, s)
       /\ Used(i, b, s) => Ent(b, s)' = Ent(b, s)
  /\ \A i, j : LinkTo(i, j)' <=> LinkTo(i, j)
  /\ \A j : Named(j)' <=> Named(j)
  /\ \A i \in live : /\ itab'[i].mode = itab[i].mode
                     /\ itab[i].mode = "dir" => itab'[i] = itab[i]

(* The writes of a command elsewhere leave it alone. *)
LEMMA TreeSame ==
  ASSUME KTyped, KTree, live' = live,
         \A i \in live : itab'[i].mode = itab[i].mode,
         \A i \in live : itab[i].mode = "dir" =>
           /\ itab'[i] = itab[i]
           /\ \A b \in BlocksOf(itab[i]) : data'[b] = data[b]
  PROVE  KTree' /\ TreeKept
<1>0. \A i \in live : i \in Inodes BY KFacts
<1>1. \A i \in live, b \in DataBlocks, s \in Slots :
        /\ Used(i, b, s)' <=> Used(i, b, s)
        /\ Used(i, b, s) => Ent(b, s)' = Ent(b, s)
  BY DEF Used, Ent
<1>2. \A i \in live, b \in DataBlocks, s \in Slots :
        /\ IsLink(i, b, s)' <=> IsLink(i, b, s)
        /\ IsLink(i, b, s) => Ent(b, s)' = Ent(b, s)
  BY <1>1 DEF IsLink
<1>3. \A i, b, s : (IsLink(i, b, s) => i \in live) /\ (IsLink(i, b, s)' => i \in live)
  BY DEF IsLink, Used
<1>4. \A i, j : LinkTo(i, j)' <=> LinkTo(i, j)
  <2>. TAKE i, j
  <2>1. \A b \in DataBlocks, s \in Slots :
          IsLink(i, b, s)' /\ Ent(b, s)'.inode = j <=> IsLink(i, b, s) /\ Ent(b, s).inode = j
    BY <1>2, <1>3
  <2>. QED BY <2>1 DEF LinkTo
<1>5. \A j : Named(j)' <=> Named(j) BY <1>4 DEF Named
<1>6. TreeKept BY <1>1, <1>2, <1>4, <1>5 DEF TreeKept
<1>7. KLinks'
  <2>1. ASSUME NEW i \in live', NEW b \in DataBlocks, NEW s \in Slots, IsLink(i, b, s)'
        PROVE  /\ Ent(b, s)'.inode \in live' \ {ROOT}
               /\ Ent(b, s)'.type = itab'[Ent(b, s)'.inode].mode
               /\ Named(i)'
    <3>1. i \in live /\ IsLink(i, b, s) /\ Ent(b, s)' = Ent(b, s) BY <1>2, <2>1
    <3>. QED BY <1>5, <3>1 DEF KTree, KLinks
  <2>2. ASSUME NEW i \in live', NEW k \in live', NEW b \in DataBlocks, NEW d \in DataBlocks,
               NEW s \in Slots, NEW r \in Slots, IsLink(i, b, s)', IsLink(k, d, r)',
               Ent(b, s)'.inode = Ent(d, r)'.inode
        PROVE  i = k /\ b = d /\ s = r
    <3>1. /\ i \in live /\ IsLink(i, b, s) /\ Ent(b, s)' = Ent(b, s)
          /\ k \in live /\ IsLink(k, d, r) /\ Ent(d, r)' = Ent(d, r)
      BY <1>2, <2>2
    <3>. QED BY <2>2, <3>1 DEF KTree, KLinks
  <2>. QED BY <2>1, <2>2 DEF KLinks
<1>8. KDots'
  <2>1. SUFFICES ASSUME NEW i \in live', itab'[i].mode = "dir"
                 PROVE  /\ itab'[i].extents # <<>>
                        /\ Ent(FirstBlock(i), 0)'.inode = i
                        /\ Ent(FirstBlock(i), 0)'.name = "."
                        /\ Ent(FirstBlock(i), 1)'.inode # NIL
                        /\ Ent(FirstBlock(i), 1)'.name = ".."
                        /\ Named(i)' => IF i = ROOT THEN Ent(FirstBlock(i), 1)'.inode = ROOT
                                        ELSE LinkTo(Ent(FirstBlock(i), 1).inode, i)'
    BY DEF KDots
  <2>2. i \in live /\ itab[i].mode = "dir" /\ itab'[i] = itab[i] BY <2>1
  <2>3. FirstBlock(i)' = FirstBlock(i) BY <2>2 DEF FirstBlock
  <2>4. /\ itab[i].extents # <<>>
        /\ Ent(FirstBlock(i), 0).inode = i /\ Ent(FirstBlock(i), 0).name = "."
        /\ Ent(FirstBlock(i), 1).inode # NIL /\ Ent(FirstBlock(i), 1).name = ".."
        /\ Named(i) => IF i = ROOT THEN Ent(FirstBlock(i), 1).inode = ROOT
                       ELSE LinkTo(Ent(FirstBlock(i), 1).inode, i)
    BY <2>2 DEF KTree, KDots
  <2>5. data'[FirstBlock(i)] = data[FirstBlock(i)]
    BY <1>0, <2>2, <2>4, FirstBlockIn
  <2>6. /\ Ent(FirstBlock(i), 0)' = Ent(FirstBlock(i), 0)
        /\ Ent(FirstBlock(i), 1)' = Ent(FirstBlock(i), 1)
    BY <2>3, <2>5 DEF Ent
  <2>. QED BY <1>4, <1>5, <2>2, <2>3, <2>4, <2>6
<1>. QED BY <1>6, <1>7, <1>8 DEF KTree

(* And the tree stays one where names are unique. *)
LEMMA OneNameSame == ASSUME TreeKept, KTyped, KTree, OneName PROVE OneName'
<1>1. \A i \in live, b \in DataBlocks, s \in Slots :
        /\ Used(i, b, s)' => Used(i, b, s) /\ Ent(b, s)' = Ent(b, s)
        /\ IsLink(i, b, s)' => IsLink(i, b, s) /\ Ent(b, s)' = Ent(b, s)
  BY DEF TreeKept, IsLink
<1>2. live' = live /\ \A j : Named(j)' <=> Named(j) BY DEF TreeKept
<1>3. ASSUME NEW i \in live, NEW b \in DataBlocks, NEW s \in Slots, Used(i, b, s)
      PROVE  FirstBlock(i)' = FirstBlock(i)
  <2>1. itab[i].mode = "dir" BY <1>3 DEF Used
  <2>2. itab'[i] = itab[i] BY <2>1 DEF TreeKept
  <2>. QED BY <2>2 DEF FirstBlock
<1>4. ASSUME NEW i \in live', NEW b \in DataBlocks, NEW d \in DataBlocks,
             NEW s \in Slots, NEW r \in Slots,
             IsLink(i, b, s)', IsLink(i, d, r)', Ent(b, s)'.name = Ent(d, r)'.name
      PROVE  b = d /\ s = r
  <2>1. /\ i \in live /\ IsLink(i, b, s) /\ IsLink(i, d, r)
        /\ Ent(b, s)' = Ent(b, s) /\ Ent(d, r)' = Ent(d, r)
    BY <1>1, <1>2, <1>4
  <2>. QED BY <1>4, <2>1 DEF OneName
<1>5. ASSUME NEW i \in live', NEW b \in DataBlocks, NEW s \in Slots, Used(i, b, s)'
      PROVE  /\ Ent(b, s)'.name = "." => b = FirstBlock(i)' /\ s = 0
             /\ Ent(b, s)'.name = ".." => b = FirstBlock(i)' /\ s = 1
  <2>1. i \in live /\ Used(i, b, s) /\ Ent(b, s)' = Ent(b, s) BY <1>1, <1>2, <1>5
  <2>2. FirstBlock(i)' = FirstBlock(i) BY <1>3, <2>1
  <2>. QED BY <2>1, <2>2 DEF OneName
<1>6. \A j \in live' : Named(j)' BY <1>2 DEF OneName
<1>. QED BY <1>4, <1>5, <1>6 DEF OneName

(* A step that enters the new inode j, under the name m, into slot r of    *)
(* block d of the directory k.                                             *)
AddsEntry(k, j, d, r, m) ==
  /\ live' = live \cup {j}
  /\ Ent(d, r)'.inode = j /\ Ent(d, r)'.name = m /\ Ent(d, r)'.type = itab'[j].mode
  /\ \A i \in live : ~Used(i, d, r)
  /\ \A i \in live, b \in DataBlocks, s \in Slots :
       /\ Used(i, b, s)' <=> Used(i, b, s) \/ (i = k /\ b = d /\ s = r)
       /\ Used(i, b, s) => Ent(b, s)' = Ent(b, s)
  /\ \A i \in live :
       /\ itab'[i].mode = itab[i].mode
       /\ itab[i].mode = "dir" => FirstBlock(i)' = FirstBlock(i) /\ itab'[i].extents # <<>>

(* And j is a directory with "." and ".." or an empty file. *)
NodeReady(k, j) ==
  IF itab'[j].mode = "dir"
  THEN /\ itab'[j].extents # <<>>
       /\ Ent(FirstBlock(j), 0)'.inode = j /\ Ent(FirstBlock(j), 0)'.name = "."
       /\ Ent(FirstBlock(j), 1)'.inode = k /\ Ent(FirstBlock(j), 1)'.name = ".."
       /\ \A b \in DataBlocks, s \in Slots : Used(j, b, s)' => b = FirstBlock(j)' /\ s \in {0, 1}
  ELSE itab'[j].mode = "reg"

(* Creating keeps the tree, whatever the name. *)
LEMMA TreeAdd ==
  ASSUME KTyped, KTree, NEW k \in live, Named(k), itab[k].mode = "dir",
         NEW j \in Inodes \ live, NEW d \in DataBlocks, NEW r \in Slots, NEW m,
         AddsEntry(k, j, d, r, m), NodeReady(k, j)
  PROVE  /\ KTree' /\ \A x : Named(x) => Named(x)'
         /\ OneName /\ (\A b \in DataBlocks, s \in Slots : Used(k, b, s) => Ent(b, s).name # m)
              => OneName'
<1>0. \A i, b, s : (IsLink(i, b, s) => i \in live) /\ (IsLink(i, b, s)' => i \in live')
  BY DEF IsLink, Used
<1>1. /\ live' = live \cup {j} /\ ROOT \in live /\ j # ROOT
      /\ Ent(d, r)'.inode = j /\ Ent(d, r)'.name = m /\ Ent(d, r)'.type = itab'[j].mode
  BY DEF AddsEntry, KTree
<1>2. \A i \in live, b \in DataBlocks, s \in Slots :
        /\ Used(i, b, s)' <=> Used(i, b, s) \/ (i = k /\ b = d /\ s = r)
        /\ Used(i, b, s) => Ent(b, s)' = Ent(b, s) /\ ~(b = d /\ s = r)
  BY DEF AddsEntry
<1>3. \A i \in live, b \in DataBlocks, s \in Slots :
        IsLink(i, b, s) => IsLink(i, b, s)' /\ Ent(b, s)' = Ent(b, s)
  BY <1>2 DEF IsLink
<1>4. \A b \in DataBlocks, s \in Slots : ~IsLink(j, b, s)'
  <2>1. CASE itab'[j].mode = "dir"
    <3>1. \A b \in DataBlocks, s \in Slots : Used(j, b, s)' => Ent(b, s)'.name \in {".", ".."}
      BY <2>1 DEF NodeReady, Ent, FirstBlock
    <3>. QED BY <3>1 DEF IsLink
  <2>2. CASE itab'[j].mode # "dir" BY <2>2 DEF IsLink, Used
  <2>. QED BY <2>1, <2>2
<1>5. ASSUME NEW i \in live', NEW b \in DataBlocks, NEW s \in Slots, IsLink(i, b, s)'
      PROVE  /\ i \in live
             /\ \/ IsLink(i, b, s) /\ Ent(b, s)' = Ent(b, s)
                \/ i = k /\ b = d /\ s = r
  <2>1. i \in live BY <1>1, <1>4, <1>5
  <2>2. CASE Used(i, b, s)
    <3>1. Ent(b, s)' = Ent(b, s) BY <1>2, <2>1, <2>2
    <3>. QED BY <1>5, <2>1, <2>2, <3>1 DEF IsLink
  <2>3. CASE ~Used(i, b, s) BY <1>2, <1>5, <2>1, <2>3 DEF IsLink
  <2>. QED BY <2>2, <2>3
<1>6. \A i, x : LinkTo(i, x) => i \in live /\ LinkTo(i, x)'
  <2>. TAKE i, x
  <2>1. ASSUME LinkTo(i, x) PROVE i \in live /\ LinkTo(i, x)'
    <3>1. PICK b \in DataBlocks, s \in Slots : IsLink(i, b, s) /\ Ent(b, s).inode = x
      BY <2>1 DEF LinkTo
    <3>2. i \in live /\ IsLink(i, b, s)' /\ Ent(b, s)' = Ent(b, s) BY <1>0, <1>3, <3>1
    <3>. QED BY <3>1, <3>2 DEF LinkTo
  <2>. QED BY <2>1
<1>7. \A x : Named(x) => Named(x)' BY <1>1, <1>6 DEF Named
<1>8. IsLink(k, d, r)' => LinkTo(k, j)' BY <1>1 DEF LinkTo
<1>9. Named(j)' => IsLink(k, d, r)'
  <2>1. ASSUME NEW i \in live', LinkTo(i, j)' PROVE IsLink(k, d, r)'
    <3>1. PICK b \in DataBlocks, s \in Slots : IsLink(i, b, s)' /\ Ent(b, s)'.inode = j
      BY <2>1 DEF LinkTo
    <3>2. CASE IsLink(i, b, s) /\ Ent(b, s)' = Ent(b, s)
      BY <1>0, <3>1, <3>2 DEF KTree, KLinks
    <3>. QED BY <1>5, <3>1, <3>2
  <2>. QED BY <1>1, <2>1 DEF Named
<1>10. KLinks'
  <2>1. ASSUME NEW i \in live', NEW b \in DataBlocks, NEW s \in Slots, IsLink(i, b, s)'
        PROVE  /\ Ent(b, s)'.inode \in live' \ {ROOT}
               /\ Ent(b, s)'.type = itab'[Ent(b, s)'.inode].mode
               /\ Named(i)'
    <3>1. CASE i \in live /\ IsLink(i, b, s) /\ Ent(b, s)' = Ent(b, s)
      <4>1. /\ Ent(b, s).inode \in live \ {ROOT} /\ Named(i)
            /\ Ent(b, s).type = itab[Ent(b, s).inode].mode
        BY <3>1 DEF KTree, KLinks
      <4>2. itab'[Ent(b, s).inode].mode = itab[Ent(b, s).inode].mode
        BY <4>1 DEF AddsEntry
      <4>. QED BY <1>1, <1>7, <3>1, <4>1, <4>2
    <3>2. CASE i = k /\ b = d /\ s = r BY <1>1, <1>7, <3>2
    <3>. QED BY <1>5, <2>1, <3>1, <3>2
  <2>2. ASSUME NEW i \in live', NEW x \in live', NEW b \in DataBlocks, NEW y \in DataBlocks,
               NEW s \in Slots, NEW z \in Slots, IsLink(i, b, s)', IsLink(x, y, z)',
               Ent(b, s)'.inode = Ent(y, z)'.inode
        PROVE  i = x /\ b = y /\ s = z
    <3>1. \A u \in live, v \in DataBlocks, w \in Slots : IsLink(u, v, w) => Ent(v, w).inode # j
      BY DEF KTree, KLinks
    <3>2. CASE IsLink(i, b, s) /\ Ent(b, s)' = Ent(b, s) /\ i \in live
      <4>1. Ent(y, z)'.inode # j BY <2>2, <3>1, <3>2
      <4>2. IsLink(x, y, z) /\ Ent(y, z)' = Ent(y, z) /\ x \in live
        BY <1>1, <1>5, <2>2, <4>1
      <4>. QED BY <2>2, <3>2, <4>2 DEF KTree, KLinks
    <3>3. CASE i = k /\ b = d /\ s = r
      <4>1. Ent(y, z)'.inode = j BY <1>1, <2>2, <3>3
      <4>. QED BY <1>5, <2>2, <3>1, <3>3, <4>1
    <3>. QED BY <1>5, <2>2, <3>2, <3>3
  <2>. QED BY <2>1, <2>2 DEF KLinks
<1>11. KDots'
  <2>1. SUFFICES ASSUME NEW i \in live', itab'[i].mode = "dir"
                 PROVE  /\ itab'[i].extents # <<>>
                        /\ Ent(FirstBlock(i), 0)'.inode = i
                        /\ Ent(FirstBlock(i), 0)'.name = "."
                        /\ Ent(FirstBlock(i), 1)'.inode # NIL
                        /\ Ent(FirstBlock(i), 1)'.name = ".."
                        /\ Named(i)' => IF i = ROOT THEN Ent(FirstBlock(i), 1)'.inode = ROOT
                                        ELSE LinkTo(Ent(FirstBlock(i), 1).inode, i)'
    BY DEF KDots
  <2>2. CASE i = j
    <3>1. k # NIL BY KFacts, RootInodes
    <3>2. Ent(FirstBlock(i), 1)'.inode = k BY <2>1, <2>2 DEF NodeReady
    <3>3. Named(i)' => LinkTo(Ent(FirstBlock(i), 1).inode, i)' BY <1>8, <1>9, <2>2, <3>2
    <3>4. /\ itab'[i].extents # <<>>
          /\ Ent(FirstBlock(i), 0)'.inode = i /\ Ent(FirstBlock(i), 0)'.name = "."
          /\ Ent(FirstBlock(i), 1)'.name = ".."
      BY <2>1, <2>2 DEF NodeReady
    <3>. QED BY <1>1, <2>2, <3>1, <3>2, <3>3, <3>4
  <2>3. CASE i \in live
    <3>1. itab[i].mode = "dir" /\ FirstBlock(i)' = FirstBlock(i) /\ itab'[i].extents # <<>>
      BY <2>1, <2>3 DEF AddsEntry
    <3>2. /\ Used(i, FirstBlock(i), 0) /\ Used(i, FirstBlock(i), 1)
          /\ FirstBlock(i) \in DataBlocks
      BY <2>3, <3>1, DotLookups DEF KTree
    <3>3. 0 \in Slots /\ 1 \in Slots BY GeometryAssumption DEF Slots
    <3>4. /\ Ent(FirstBlock(i), 0)' = Ent(FirstBlock(i), 0)
          /\ Ent(FirstBlock(i), 1)' = Ent(FirstBlock(i), 1)
      <4>1. PICK f : f = FirstBlock(i) /\ f = FirstBlock(i)' BY <3>1
      <4>2. Ent(f, 0)' = Ent(f, 0) /\ Ent(f, 1)' = Ent(f, 1)
        BY <1>2, <2>3, <3>2, <3>3, <4>1
      <4>. QED BY <4>1, <4>2 DEF Ent
    <3>5. /\ Ent(FirstBlock(i), 0).inode = i /\ Ent(FirstBlock(i), 0).name = "."
          /\ Ent(FirstBlock(i), 1).inode # NIL /\ Ent(FirstBlock(i), 1).name = ".."
          /\ Named(i) => IF i = ROOT THEN Ent(FirstBlock(i), 1).inode = ROOT
                         ELSE LinkTo(Ent(FirstBlock(i), 1).inode, i)
      BY <2>3, <3>1 DEF KTree, KDots
    <3>6. Named(i)' => Named(i)
      <4>1. ASSUME NEW x \in live', LinkTo(x, i)' PROVE LinkTo(x, i)
        <5>1. PICK b \in DataBlocks, s \in Slots : IsLink(x, b, s)' /\ Ent(b, s)'.inode = i
          BY <4>1 DEF LinkTo
        <5>2. IsLink(x, b, s) /\ Ent(b, s)' = Ent(b, s) BY <1>1, <1>5, <2>3, <5>1
        <5>. QED BY <5>1, <5>2 DEF LinkTo
      <4>2. \A x : LinkTo(x, i) => x \in live BY <1>6
      <4>. QED BY <4>1, <4>2 DEF Named
    <3>7. PICK u : u = Ent(FirstBlock(i), 1).inode /\ u = Ent(FirstBlock(i), 1)'.inode BY <3>4
    <3>8. LinkTo(u, i) => LinkTo(u, i)' BY <1>6
    <3>9. LinkTo(u, i)' <=> LinkTo(Ent(FirstBlock(i), 1).inode, i)'
      <4>1. u = (Ent(FirstBlock(i), 1).inode)' BY <3>7
      <4>. QED BY <4>1 DEF LinkTo, IsLink, Used, Ent
    <3>. QED BY <3>1, <3>4, <3>5, <3>6, <3>7, <3>8, <3>9
  <2>. QED BY <1>1, <2>2, <2>3
<1>12. KTree'
  <2>1. itab'[ROOT].mode = "dir" /\ \A i \in live' : itab'[i].mode \in {"dir", "reg"}
    BY <1>1 DEF AddsEntry, NodeReady, KTree
  <2>. QED BY <1>1, <1>10, <1>11, <2>1 DEF KTree
<1>13. ASSUME OneName,
              \A b \in DataBlocks, s \in Slots : Used(k, b, s) => Ent(b, s).name # m
       PROVE  OneName'
  <2>1. m \notin {".", ".."}
    <3>1. /\ Used(k, FirstBlock(k), 0) /\ Used(k, FirstBlock(k), 1)
          /\ FirstBlock(k) \in DataBlocks
      BY DotLookups DEF KTree
    <3>2. Ent(FirstBlock(k), 0).name = "." /\ Ent(FirstBlock(k), 1).name = ".."
      BY DEF KTree, KDots
    <3>3. 0 \in Slots /\ 1 \in Slots BY GeometryAssumption DEF Slots
    <3>. QED BY <1>13, <3>1, <3>2, <3>3
  <2>2. IsLink(k, d, r)' BY <1>1, <1>2, <2>1 DEF IsLink
  <2>3. Named(j)'
    <3>1. k \in live' /\ LinkTo(k, j)' BY <1>1, <1>8, <2>2
    <3>. QED BY <3>1 DEF Named
  <2>4. \A x \in live' : Named(x)' BY <1>1, <1>7, <1>13, <2>3 DEF OneName
  <2>5. ASSUME NEW i \in live', NEW b \in DataBlocks, NEW y \in DataBlocks,
               NEW s \in Slots, NEW z \in Slots,
               IsLink(i, b, s)', IsLink(i, y, z)', Ent(b, s)'.name = Ent(y, z)'.name
        PROVE  b = y /\ s = z
    <3>1. \A v \in DataBlocks, w \in Slots : IsLink(k, v, w) => Ent(v, w).name # m
      BY <1>13 DEF IsLink
    <3>2. /\ i \in live
          /\ (IsLink(i, b, s) /\ Ent(b, s)' = Ent(b, s)) \/ (i = k /\ b = d /\ s = r)
          /\ (IsLink(i, y, z) /\ Ent(y, z)' = Ent(y, z)) \/ (i = k /\ y = d /\ z = r)
      BY <1>5, <2>5
    <3>3. CASE IsLink(i, b, s) /\ IsLink(i, y, z) /\ Ent(b, s)' = Ent(b, s)
               /\ Ent(y, z)' = Ent(y, z)
      BY <1>13, <2>5, <3>2, <3>3 DEF OneName
    <3>. QED BY <1>1, <2>5, <3>1, <3>2, <3>3
  <2>6. ASSUME NEW i \in live', NEW b \in DataBlocks, NEW s \in Slots, Used(i, b, s)'
        PROVE  /\ Ent(b, s)'.name = "." => b = FirstBlock(i)' /\ s = 0
               /\ Ent(b, s)'.name = ".." => b = FirstBlock(i)' /\ s = 1
    <3>1. CASE i = j
      <4>1. itab'[j].mode = "dir" BY <2>6, <3>1 DEF Used
      <4>2. b = FirstBlock(j)' /\ s \in {0, 1} BY <2>6, <3>1, <4>1 DEF NodeReady
      <4>3. /\ s = 0 => Ent(b, s)'.name = "."
            /\ s = 1 => Ent(b, s)'.name = ".."
        BY <4>1, <4>2 DEF NodeReady, Ent, FirstBlock
      <4>. QED BY <3>1, <4>2, <4>3
    <3>2. CASE i \in live /\ Used(i, b, s)
      <4>1. Ent(b, s)' = Ent(b, s) BY <1>2, <3>2
      <4>2. itab[i].mode = "dir" BY <3>2 DEF Used
      <4>3. FirstBlock(i)' = FirstBlock(i) BY <3>2, <4>2 DEF AddsEntry
      <4>. QED BY <1>13, <3>2, <4>1, <4>3 DEF OneName
    <3>3. CASE i = k /\ b = d /\ s = r BY <1>1, <2>1, <3>3
    <3>. QED BY <1>1, <1>2, <2>6, <3>1, <3>2, <3>3
  <2>. QED BY <2>4, <2>5, <2>6 DEF OneName
<1>. QED BY <1>7, <1>12, <1>13

(* A step that erases the only link of j, in slot r of block d of the      *)
(* directory k; j is a file or an empty directory.                         *)
RemovesEntry(k, j, d, r) ==
  /\ IsLink(k, d, r) /\ Ent(d, r).inode = j
  /\ \A b \in DataBlocks, s \in Slots : ~IsLink(j, b, s)
  /\ live' = live \ {j} /\ itab' = itab
  /\ Ent(d, r)'.inode = NIL
  /\ \A b \in DataBlocks, s \in Slots : ~(b = d /\ s = r) => Ent(b, s)' = Ent(b, s)

(* The links to everything else stay. *)
LinksKeptBut(j) ==
  \A i \in live, b \in DataBlocks, s \in Slots :
    IsLink(i, b, s) /\ Ent(b, s).inode # j =>
      i \in live' /\ IsLink(i, b, s)' /\ Ent(b, s)' = Ent(b, s)

(* Removing keeps the tree. *)
LEMMA TreeRemove ==
  ASSUME KTyped, KTree, NEW k \in live, NEW j \in live,
         NEW d \in DataBlocks, NEW r \in Slots,
         RemovesEntry(k, j, d, r)
  PROVE  /\ KTree' /\ LinksKeptBut(j) /\ \A x : Named(x) /\ x # j => Named(x)'
         /\ OneName => OneName'
<1>0. \A i, b, s : (IsLink(i, b, s) => i \in live) /\ (IsLink(i, b, s)' => i \in live')
  BY DEF IsLink, Used
<1>1. /\ live' = live \ {j} /\ itab' = itab
      /\ IsLink(k, d, r) /\ Ent(d, r).inode = j /\ Ent(d, r)'.inode = NIL
      /\ \A b \in DataBlocks, s \in Slots : ~IsLink(j, b, s)
      /\ \A b \in DataBlocks, s \in Slots : ~(b = d /\ s = r) => Ent(b, s)' = Ent(b, s)
  BY DEF RemovesEntry
<1>2. j # ROOT BY <1>1 DEF KTree, KLinks
<1>3. \A i \in live : Used(i, d, r) => i = k
  <2>1. \A i \in live : Used(i, d, r) => IsLink(i, d, r) BY <1>1 DEF IsLink
  <2>. QED BY <1>1, <2>1 DEF KTree, KLinks
<1>4. \A i \in live', b \in DataBlocks, s \in Slots :
        /\ Used(i, b, s)' <=> Used(i, b, s) /\ ~(b = d /\ s = r)
        /\ Used(i, b, s)' => Ent(b, s)' = Ent(b, s)
  <2>1. TAKE i \in live', b \in DataBlocks, s \in Slots
  <2>2. CASE b = d /\ s = r
    <3>1. ~Used(i, b, s)' BY <1>1, <2>2 DEF Used
    <3>. QED BY <2>2, <3>1
  <2>3. CASE ~(b = d /\ s = r)
    <3>1. Ent(b, s)' = Ent(b, s) BY <1>1, <2>3
    <3>2. i \in live BY <1>1
    <3>. QED BY <1>1, <2>3, <3>1, <3>2 DEF Used
  <2>. QED BY <2>2, <2>3
<1>5. \A i \in live', b \in DataBlocks, s \in Slots :
        /\ IsLink(i, b, s)' <=> IsLink(i, b, s) /\ ~(b = d /\ s = r)
        /\ IsLink(i, b, s)' => Ent(b, s)' = Ent(b, s)
  BY <1>4 DEF IsLink
<1>6. LinksKeptBut(j)
  <2>1. ASSUME NEW i \in live, NEW b \in DataBlocks, NEW s \in Slots, IsLink(i, b, s),
               Ent(b, s).inode # j
        PROVE  i \in live' /\ IsLink(i, b, s)' /\ Ent(b, s)' = Ent(b, s)
    <3>1. i \in live' /\ ~(b = d /\ s = r) BY <1>1, <2>1
    <3>. QED BY <1>5, <2>1, <3>1
  <2>. QED BY <2>1 DEF LinksKeptBut
<1>7. \A i, x : LinkTo(i, x) /\ x # j => i \in live' /\ LinkTo(i, x)'
  <2>. TAKE i, x
  <2>1. ASSUME LinkTo(i, x), x # j PROVE i \in live' /\ LinkTo(i, x)'
    <3>1. PICK b \in DataBlocks, s \in Slots : IsLink(i, b, s) /\ Ent(b, s).inode = x
      BY <2>1 DEF LinkTo
    <3>2. i \in live' /\ IsLink(i, b, s)' /\ Ent(b, s)' = Ent(b, s)
      BY <1>0, <1>6, <2>1, <3>1 DEF LinksKeptBut
    <3>. QED BY <3>1, <3>2 DEF LinkTo
  <2>. QED BY <2>1
<1>8. \A x : Named(x) /\ x # j => Named(x)' BY <1>7 DEF Named
<1>9. \A x : Named(x)' => Named(x)
  <2>. TAKE x
  <2>1. ASSUME NEW i \in live', LinkTo(i, x)' PROVE i \in live /\ LinkTo(i, x)
    <3>1. PICK b \in DataBlocks, s \in Slots : IsLink(i, b, s)' /\ Ent(b, s)'.inode = x
      BY <2>1 DEF LinkTo
    <3>2. IsLink(i, b, s) /\ Ent(b, s)' = Ent(b, s) BY <1>5, <3>1
    <3>. QED BY <1>1, <3>1, <3>2 DEF LinkTo
  <2>. QED BY <2>1 DEF Named
<1>10. KLinks'
  <2>1. ASSUME NEW i \in live', NEW b \in DataBlocks, NEW s \in Slots, IsLink(i, b, s)'
        PROVE  /\ Ent(b, s)'.inode \in live' \ {ROOT}
               /\ Ent(b, s)'.type = itab'[Ent(b, s)'.inode].mode
               /\ Named(i)'
    <3>1. /\ i \in live /\ i # j /\ IsLink(i, b, s) /\ ~(b = d /\ s = r)
          /\ Ent(b, s)' = Ent(b, s)
      BY <1>1, <1>5, <2>1
    <3>2. /\ Ent(b, s).inode \in live \ {ROOT} /\ Named(i)
          /\ Ent(b, s).type = itab[Ent(b, s).inode].mode
      BY <3>1 DEF KTree, KLinks
    <3>3. Ent(b, s).inode # j BY <1>1, <3>1 DEF KTree, KLinks
    <3>. QED BY <1>1, <1>8, <3>1, <3>2, <3>3
  <2>2. ASSUME NEW i \in live', NEW x \in live', NEW b \in DataBlocks, NEW y \in DataBlocks,
               NEW s \in Slots, NEW z \in Slots, IsLink(i, b, s)', IsLink(x, y, z)',
               Ent(b, s)'.inode = Ent(y, z)'.inode
        PROVE  i = x /\ b = y /\ s = z
    <3>1. /\ i \in live /\ IsLink(i, b, s) /\ Ent(b, s)' = Ent(b, s)
          /\ x \in live /\ IsLink(x, y, z) /\ Ent(y, z)' = Ent(y, z)
      BY <1>1, <1>5, <2>2
    <3>. QED BY <2>2, <3>1 DEF KTree, KLinks
  <2>. QED BY <2>1, <2>2 DEF KLinks
<1>11. KDots'
  <2>1. SUFFICES ASSUME NEW i \in live', itab'[i].mode = "dir"
                 PROVE  /\ itab'[i].extents # <<>>
                        /\ Ent(FirstBlock(i), 0)'.inode = i
                        /\ Ent(FirstBlock(i), 0)'.name = "."
                        /\ Ent(FirstBlock(i), 1)'.inode # NIL
                        /\ Ent(FirstBlock(i), 1)'.name = ".."
                        /\ Named(i)' => IF i = ROOT THEN Ent(FirstBlock(i), 1)'.inode = ROOT
                                        ELSE LinkTo(Ent(FirstBlock(i), 1).inode, i)'
    BY DEF KDots
  <2>2. i \in live /\ i # j /\ itab[i].mode = "dir" BY <1>1, <2>1
  <2>3. /\ itab[i].extents # <<>>
        /\ Ent(FirstBlock(i), 0).inode = i /\ Ent(FirstBlock(i), 0).name = "."
        /\ Ent(FirstBlock(i), 1).inode # NIL /\ Ent(FirstBlock(i), 1).name = ".."
        /\ Named(i) => IF i = ROOT THEN Ent(FirstBlock(i), 1).inode = ROOT
                       ELSE LinkTo(Ent(FirstBlock(i), 1).inode, i)
    BY <2>2 DEF KTree, KDots
  <2>4. FirstBlock(i)' = FirstBlock(i) BY <1>1 DEF FirstBlock
  <2>5. FirstBlock(i) \in DataBlocks BY <2>2, DotLookups DEF KTree
  <2>6. 0 \in Slots /\ 1 \in Slots BY GeometryAssumption DEF Slots
  <2>7. Ent(d, r).name \notin {".", ".."} BY <1>1 DEF IsLink
  <2>8. /\ Ent(FirstBlock(i), 0)' = Ent(FirstBlock(i), 0)
        /\ Ent(FirstBlock(i), 1)' = Ent(FirstBlock(i), 1)
    <3>1. PICK f \in DataBlocks : f = FirstBlock(i) /\ f = FirstBlock(i)' BY <2>4, <2>5
    <3>2. ~(f = d /\ 0 = r) /\ ~(f = d /\ 1 = r) BY <2>3, <2>7, <3>1
    <3>3. Ent(f, 0)' = Ent(f, 0) /\ Ent(f, 1)' = Ent(f, 1) BY <1>1, <2>6, <3>2
    <3>. QED BY <3>1, <3>3 DEF Ent
  <2>9. PICK u : u = Ent(FirstBlock(i), 1).inode /\ u = Ent(FirstBlock(i), 1)'.inode BY <2>8
  <2>10. LinkTo(u, i) => LinkTo(u, i)' BY <1>7, <2>2
  <2>11. LinkTo(u, i)' <=> LinkTo(Ent(FirstBlock(i), 1).inode, i)'
    <3>1. u = (Ent(FirstBlock(i), 1).inode)' BY <2>9
    <3>. QED BY <3>1 DEF LinkTo, IsLink, Used, Ent
  <2>. QED BY <1>1, <1>9, <2>3, <2>8, <2>9, <2>10, <2>11
<1>12. KTree' BY <1>1, <1>2, <1>10, <1>11 DEF KTree
<1>13. ASSUME OneName PROVE OneName'
  <2>1. \A x \in live' : Named(x)' BY <1>1, <1>8, <1>13 DEF OneName
  <2>2. ASSUME NEW i \in live', NEW b \in DataBlocks, NEW y \in DataBlocks,
               NEW s \in Slots, NEW z \in Slots,
               IsLink(i, b, s)', IsLink(i, y, z)', Ent(b, s)'.name = Ent(y, z)'.name
        PROVE  b = y /\ s = z
    <3>1. /\ i \in live /\ IsLink(i, b, s) /\ Ent(b, s)' = Ent(b, s)
          /\ IsLink(i, y, z) /\ Ent(y, z)' = Ent(y, z)
      BY <1>1, <1>5, <2>2
    <3>. QED BY <1>13, <2>2, <3>1 DEF OneName
  <2>3. ASSUME NEW i \in live', NEW b \in DataBlocks, NEW s \in Slots, Used(i, b, s)'
        PROVE  /\ Ent(b, s)'.name = "." => b = FirstBlock(i)' /\ s = 0
               /\ Ent(b, s)'.name = ".." => b = FirstBlock(i)' /\ s = 1
    <3>1. i \in live /\ Used(i, b, s) /\ Ent(b, s)' = Ent(b, s) BY <1>1, <1>4, <2>3
    <3>2. FirstBlock(i)' = FirstBlock(i) BY <1>1 DEF FirstBlock
    <3>. QED BY <1>13, <3>1, <3>2 DEF OneName
  <2>. QED BY <2>1, <2>2, <2>3 DEF OneName
<1>. QED BY <1>6, <1>8, <1>12, <1>13

-----------------------------------------------------------------------------
(* What a step keeps of it. *)

(* Damage is never forgotten. *)
LEMMA HarmGrows == [Next]_vars => harm \subseteq harm'
<1>. SUFFICES ASSUME [Next]_vars PROVE harm \subseteq harm' OBVIOUS
<1>1. CASE Command
  BY <1>1, Zenon DEF Command, kzeros_open, kzeros_close, kzeros_cd, astray, kzeros_mkdir,
     kzeros_touch, kzeros_rm, blind_create, kzeros_write_file, alloc_inode, Create, StartWrite,
     Return
<1>2. CASE Step
  <2>1. CASE mkdir_block \/ dir_add_entry_grow \/ write_loop
    BY <2>1, Zenon DEF mkdir_block, dir_add_entry_grow, write_loop, alloc_block, Return
  <2>2. CASE mkdir_init \/ touch_init \/ dir_add_block \/ write_data
    BY <2>2, Zenon DEF mkdir_init, touch_init, dir_add_block, write_data
  <2>3. CASE dir_add_entry_slot \/ dir_add_extent
    BY <2>3, Zenon DEF dir_add_entry_slot, dir_add_extent, Linked, Return
  <2>4. CASE free_block \/ free_inode
    BY <2>4, Zenon DEF free_block, free_inode, FreeOutcome
  <2>5. CASE write_inode \/ dir_remove_entry \/ flush_metadata \/ disk_full
    BY <2>5, Zenon DEF write_inode, dir_remove_entry, flush_metadata, StartWrite, disk_full,
       Return
  <2>. QED BY <1>2, <2>1, <2>2, <2>3, <2>4, <2>5 DEF Step
<1>3. CASE io_error BY <1>3, Zenon DEF io_error, Return
<1>4. CASE PowerLoss BY <1>4, Zenon DEF PowerLoss
<1>5. CASE UNCHANGED vars BY <1>5 DEF vars
<1>. QED BY <1>1, <1>2, <1>3, <1>4, <1>5 DEF Next

(* Nothing on disk that the tree is made of changes. *)
LEMMA DiskSame ==
  ASSUME KTyped, KTree, itab' = itab, data' = data, live' = live
  PROVE  KTree' /\ TreeKept
BY TreeSame

(* Nor of what is live. *)
LEMMA TreeElsewhere ==
  ASSUME KTyped, KTree, live' = live,
         \A i \in live : /\ itab'[i] = itab[i]
                         /\ \A b \in BlocksOf(itab[i]) : data'[b] = data[b]
  PROVE  KTree' /\ TreeKept
BY TreeSame

(* A file that is about to be written has no blocks yet. *)
LEMMA NewFileEmpty ==
  ASSUME c.ext = <<>>
  PROVE  BlocksOf(NewFile) = {} /\ NoRepeat(NewFile)
<1>1. NewFile.extents = <<>> BY DEF NewFile
<1>. QED BY <1>1, NoBlocks

(* And after a step. *)
LEMMA NewFileEmptyNext ==
  ASSUME c'.ext = <<>>
  PROVE  BlocksOf(NewFile') = {} /\ NoRepeat(NewFile')
<1>1. NewFile'.extents = <<>> BY DEF NewFile
<1>. QED BY <1>1, NoBlocks

(* A step after which no command creates, frees or writes. *)
LEMMA EndOfCall ==
  ASSUME KTyped, KGood, UNCHANGED <<itab, data, live>>,
         pc' \in {"idle", "off", "flush_metadata"}, c'.ext = <<>>,
         live \subseteq ibm', \A i \in live : BlocksOf(itab[i]) \subseteq bbm',
         cwd' \in live, Named(cwd'), itab[cwd'].mode = "dir"
  PROVE  KGood' /\ TreeKept
<1>1. KTree' /\ TreeKept BY DiskSame DEF KGood
<1>2. ~Creating' /\ ~Built' /\ ~Freeing' /\ ~Writing' /\ ~BlockInHand'
  BY DEF Creating, Built, Freeing, Writing, BlockInHand
<1>3. Owners' = live /\ live \subseteq Owners BY <1>2 DEF Owners
<1>4. Apart' BY <1>3 DEF Apart, KGood
<1>5. Marked' BY <1>3 DEF Marked
<1>6. Cwd' BY <1>1 DEF Cwd, TreeKept
<1>7. CreateHolds' /\ BlockHeld' /\ FreeHolds' BY <1>2 DEF CreateHolds, BlockHeld, FreeHolds
<1>8. NewNode' BY <1>2 DEF NewNode, Built
<1>9. WriteHolds'
  <2>1. BlocksOf(NewFile') = {} BY NewFileEmptyNext
  <2>. QED BY <1>2, <2>1 DEF WriteHolds
<1>. QED BY <1>1, <1>4, <1>5, <1>6, <1>7, <1>8, <1>9 DEF KGood

(* While nothing is freed or rewritten everything live is marked. *)
LEMMA AllMarked ==
  ASSUME KGood, ~Freeing, ~Writing
  PROVE  /\ live \subseteq ibm /\ \A i \in live : BlocksOf(itab[i]) \subseteq bbm
         /\ cwd \in live /\ Named(cwd) /\ itab[cwd].mode = "dir"
BY DEF KGood, Marked, Owners, Cwd, Freeing

(* And wherever a command stops, unless that tears something. *)
LEMMA StopMarks ==
  ASSUME KGood, "torn" \notin GaveUp, ~Removing
  PROVE  /\ live \subseteq ibm /\ \A i \in live : BlocksOf(itab[i]) \subseteq bbm
         /\ cwd \in live /\ Named(cwd) /\ itab[cwd].mode = "dir"
<1>1. CASE ~Freeing /\ ~Writing BY <1>1, AllMarked
<1>2. CASE Freeing \/ Writing
  <2>1. /\ c.op \in {"write", "rm"} /\ c.todo \subseteq bbm
        /\ pc \in {"free_inode", "dir_remove_entry"} => c.op = "rm"
        /\ Writing => c.op = "write"
    BY <1>2 DEF KGood, FreeHolds
  <2>2. pc # "dir_remove_entry" BY <2>1 DEF Removing
  <2>3. Freed = {}
    <3>1. ~Emptying BY DEF GaveUp
    <3>. QED BY <1>2, <2>1, <2>2, <3>1 DEF Emptying, Removing, Freeing, Writing
  <2>4. BlocksOf(itab[c.ino]) \subseteq bbm BY <2>1, <2>3 DEF Freed
  <2>. QED BY <2>2, <2>4 DEF KGood, Marked, Owners, Cwd
<1>. QED BY <1>1, <1>2

(* kzeros_open, kzeros_close. *)
LEMMA OpenCloseGood ==
  ASSUME KTyped, KGood, kzeros_open \/ kzeros_close PROVE KGood' /\ TreeKept
<1>0. ROOT \in live /\ Named(ROOT) /\ itab[ROOT].mode = "dir" BY DEF KGood, KTree, Named
<1>1. pc \in {"off", "idle"} BY DEF kzeros_open, kzeros_close
<1>2. ~Freeing /\ ~Writing BY <1>1 DEF Freeing, Writing
<1>3. c.ext = <<>> BY <1>1, <1>2 DEF KGood, WriteHolds
<1>4. c'.ext = <<>> BY <1>3, NoCallTyped DEF kzeros_open, kzeros_close, NoCall
<1>. QED BY <1>0, <1>2, <1>4, AllMarked, EndOfCall DEF kzeros_open, kzeros_close, diskVars

(* kzeros_cd ends in a live directory that a path leads to. *)
LEMMA CdGood ==
  ASSUME KTyped, KGood, Sound', NEW p \in Path, kzeros_cd(p) PROVE KGood' /\ TreeKept
<1>1. /\ pc = "idle" /\ pc' = "idle" /\ cwd' = Resolve(p) /\ Resolve(p) # NIL
      /\ itab[Resolve(p)].mode = "dir" /\ ~ThroughFile(p)
      /\ UNCHANGED <<itab, data, ibm, bbm, live, c>>
  <2>1. Resolve(p) # NIL BY RootInodes DEF kzeros_cd, Readable
  <2>2. PathHarm(p) \subseteq harm' BY DEF kzeros_cd
  <2>. QED BY <2>1, <2>2, NotThroughFile DEF kzeros_cd, diskVars
<1>2. ~Freeing /\ ~Writing BY <1>1 DEF Freeing, Writing
<1>3. c'.ext = <<>> BY <1>1, <1>2 DEF KGood, WriteHolds
<1>4. cwd' \in live /\ Named(cwd') BY <1>1, ResolveNamed DEF KGood
<1>. QED BY <1>1, <1>2, <1>3, <1>4, AllMarked, EndOfCall

(* A command that gives up. *)
LEMMA GiveUpGood ==
  ASSUME KTyped, KGood, Sound', io_error \/ disk_full PROVE KGood' /\ TreeKept
<1>1. /\ Return(GaveUp) /\ UNCHANGED <<diskVars, sb, cwd, cwd_path, live, wrote>>
      /\ pc \notin {"free_blocks", "free_inode", "dir_remove_entry"}
  BY DEF io_error, disk_full
<1>2. "torn" \notin GaveUp BY <1>1 DEF Return, Sound
<1>3. ~Removing BY <1>1 DEF Removing
<1>4. pc' = "idle" /\ c'.ext = <<>> BY <1>1, NoCallTyped DEF Return
<1>. QED BY <1>1, <1>2, <1>3, <1>4, StopMarks, EndOfCall DEF diskVars

(* The power goes. *)
LEMMA PowerLossGood ==
  ASSUME KTyped, KGood, Sound', PowerLoss PROVE KGood' /\ TreeKept
<1>0. ROOT \in live /\ Named(ROOT) /\ itab[ROOT].mode = "dir" BY DEF KGood, KTree, Named
<1>1. "torn" \notin GaveUp /\ ~Removing BY DEF PowerLoss, Sound
<1>2. c'.ext = <<>> BY NoCallTyped DEF PowerLoss
<1>. QED BY <1>0, <1>1, <1>2, StopMarks, EndOfCall DEF PowerLoss, diskVars

(* alloc_inode at the start of a creation hands out what nobody has. *)
LEMMA CreateStart ==
  ASSUME KTyped, KGood, pc = "idle", UNCHANGED <<itab, data, bbm, live, cwd>>,
         NEW ino, ino \in ibm' \ ibm, ibm \subseteq ibm',
         c'.ino = ino, c'.ext = <<>>, c'.parent \in live, Named(c'.parent),
         \/ pc' = "mkdir_block" /\ c'.op = "mkdir"
         \/ pc' = "touch_init" /\ c'.op \in {"touch", "create"}
  PROVE  KGood' /\ TreeKept
<1>0. /\ live \subseteq ibm /\ \A i \in live : BlocksOf(itab[i]) \subseteq bbm
      /\ cwd \in live /\ Named(cwd) /\ itab[cwd].mode = "dir"
  BY AllMarked DEF Freeing, Writing
<1>1. KTree' /\ TreeKept BY DiskSame DEF KGood
<1>2. Creating' /\ ~Built' /\ ~Freeing' /\ ~Writing' /\ ~BlockInHand'
  BY DEF Creating, Built, Freeing, Writing, BlockInHand
<1>3. Owners' = live /\ live \subseteq Owners BY <1>2 DEF Owners
<1>4. Apart' BY <1>3 DEF Apart, KGood
<1>5. Marked' BY <1>0, <1>3 DEF Marked
<1>6. Cwd' BY <1>0, <1>1 DEF Cwd, TreeKept
<1>7. CreateHolds' BY <1>0, <1>1 DEF CreateHolds, TreeKept
<1>8. BlockHeld' /\ FreeHolds' BY <1>2 DEF BlockHeld, FreeHolds
<1>9. NewNode' BY <1>2 DEF NewNode, Built
<1>10. WriteHolds'
  <2>1. BlocksOf(NewFile') = {} BY NewFileEmptyNext
  <2>. QED BY <1>2, <2>1 DEF WriteHolds
<1>. QED BY <1>1, <1>4, <1>5, <1>6, <1>7, <1>8, <1>9, <1>10 DEF KGood

(* Or leaves a mark behind that nothing needs. *)
LEMMA AllocInodeGood ==
  ASSUME KTyped, KGood, pc = "idle", NEW next, NEW call, alloc_inode(next, call),
         UNCHANGED <<itab, data, bbm, dsb, cwd, cwd_path, live, wrote>>,
         call \in KCall, call.ext = <<>>, call.parent \in live, Named(call.parent),
         \/ next = "mkdir_block" /\ call.op = "mkdir"
         \/ next = "touch_init" /\ call.op \in {"touch", "create"}
  PROVE  KGood' /\ TreeKept
<1>1. PICK ino : /\ ino = LowestClear(FreeInodes) /\ ino \in Inodes \ ibm
                 /\ ibm' = ibm \cup {ino}
                 /\ \/ pc' = next /\ c' = [call EXCEPT !.ino = ino]
                    \/ Return({"lost", "drift"})
  BY KFreeFacts DEF alloc_inode
<1>2. CASE pc' = next /\ c' = [call EXCEPT !.ino = ino]
  <2>1. c'.ino = ino /\ c'.ext = <<>> /\ c'.parent = call.parent /\ c'.op = call.op
    BY <1>2 DEF KCall
  <2>. QED BY <1>1, <1>2, <2>1, CreateStart
<1>3. CASE Return({"lost", "drift"})
  <2>1. pc' = "idle" /\ c'.ext = <<>> BY <1>3, NoCallTyped DEF Return
  <2>2. ~Freeing /\ ~Writing BY DEF Freeing, Writing
  <2>. QED BY <1>1, <2>1, <2>2, AllMarked, EndOfCall
<1>. QED BY <1>1, <1>2, <1>3

(* kzeros_mkdir. *)
LEMMA MkdirGood ==
  ASSUME KTyped, KGood, NEW p \in Path, kzeros_mkdir(p) PROVE KGood' /\ TreeKept
<1>. DEFINE call == [NoCall EXCEPT !.op = "mkdir", !.path = p, !.parent = Parent(p)]
<1>1. Parent(p) \in live /\ Named(Parent(p))
  <2>1. Parent(p) # NIL BY RootInodes DEF kzeros_mkdir, Readable
  <2>. QED BY <2>1, ResolveNamed DEF KGood
<1>2. call \in KCall /\ call.ext = <<>> /\ call.op = "mkdir" /\ call.parent = Parent(p)
  BY <1>1, NoCallTyped, KFacts DEF KCall, KOps
<1>3. /\ pc = "idle" /\ alloc_inode("mkdir_block", call)
      /\ UNCHANGED <<itab, data, bbm, dsb, cwd, cwd_path, live, wrote>>
  BY DEF kzeros_mkdir
<1>. HIDE DEF call
<1>. QED BY <1>1, <1>2, <1>3, AllocInodeGood

(* Files too. *)
LEMMA CreateGood ==
  ASSUME KTyped, KGood, pc = "idle", NEW p \in Path, NEW op \in {"touch", "create"},
         NEW v \in Vals \cup {NoVal}, NEW n \in 0 .. MaxLen, Create(p, op, v, n)
  PROVE  KGood' /\ TreeKept
<1>. DEFINE call == [NoCall EXCEPT !.op = op, !.path = p, !.parent = Parent(p),
                                   !.val = v, !.len = n]
<1>1. Parent(p) \in live /\ Named(Parent(p))
  <2>1. Parent(p) # NIL BY RootInodes DEF Create, Readable
  <2>. QED BY <2>1, ResolveNamed DEF KGood
<1>2. call \in KCall /\ call.ext = <<>> /\ call.op = op /\ call.parent = Parent(p)
  BY <1>1, NoCallTyped, KFacts DEF KCall, KOps
<1>3. /\ alloc_inode("touch_init", call)
      /\ UNCHANGED <<itab, data, bbm, dsb, cwd, cwd_path, live, wrote>>
  BY DEF Create
<1>. HIDE DEF call
<1>. QED BY <1>1, <1>2, <1>3, AllocInodeGood

(* And a creation whose lookup failed. *)
LEMMA BlindGood ==
  ASSUME KTyped, KGood, NEW p \in Path, NEW op \in {"mkdir", "touch"}, blind_create(p, op)
  PROVE  KGood' /\ TreeKept
<1>1. PICK ino : ino = LowestClear(FreeInodes) /\ ino \in Inodes \ ibm
  BY KFreeFacts DEF blind_create
<1>2. /\ ibm' = ibm \cup {ino} /\ pc = "idle"
      /\ pc' = IF op = "mkdir" THEN "mkdir_block" ELSE "touch_init"
      /\ c' = [NoCall EXCEPT !.op = op, !.path = p, !.parent = Parent(p), !.ino = ino]
      /\ UNCHANGED <<itab, data, bbm, cwd, live>> /\ Parent(p) # NIL
  <2>1. Parent(p) # NIL BY RootInodes DEF blind_create, Readable
  <2>. QED BY <1>1, <2>1 DEF blind_create
<1>3. Parent(p) \in live /\ Named(Parent(p)) BY <1>2, ResolveNamed DEF KGood
<1>4. c'.ino = ino /\ c'.ext = <<>> /\ c'.parent = Parent(p) /\ c'.op = op
  BY <1>2, NoCallTyped DEF NoCall
<1>. QED BY <1>1, <1>2, <1>3, <1>4, CreateStart

(* alloc_block hands out a block that is nobody's. *)
LEMMA AllocBlockGood ==
  ASSUME KTyped, KGood, Sound', NEW next, alloc_block(next),
         <<pc, next>> \in {<<"mkdir_block", "mkdir_init">>, <<"dir_add_entry", "dir_add_block">>,
                           <<"write_loop", "write_data">>}
  PROVE  KGood' /\ TreeKept
<1>1. PICK blk : /\ blk = LowestClear(FreeBlocks) /\ blk \in DataBlocks \ bbm
                 /\ bbm' = bbm \cup {blk}
                 /\ \/ pc' = next /\ c' = [c EXCEPT !.blk = blk]
                    \/ Return({"lost", "drift"} \cup GaveUp)
                 /\ UNCHANGED <<itab, data, ibm, cwd, live>>
  BY KFreeFacts DEF alloc_block
<1>2. CASE pc' = next /\ c' = [c EXCEPT !.blk = blk]
  <2>0. \/ pc = "mkdir_block" /\ pc' = "mkdir_init"
        \/ pc = "dir_add_entry" /\ pc' = "dir_add_block"
        \/ pc = "write_loop" /\ pc' = "write_data"
    BY <1>2
  <2>1. /\ c'.blk = blk /\ c'.op = c.op /\ c'.ino = c.ino /\ c'.parent = c.parent
        /\ c'.path = c.path /\ c'.ext = c.ext /\ c'.todo = c.todo
    BY <1>2, KFacts DEF KCall
  <2>2. /\ Creating' <=> Creating
        /\ Built' <=> Built
        /\ Writing' <=> Writing
        /\ ~Freeing /\ ~Freeing'
    BY <2>0 DEF Creating, Built, Freeing, Writing
  <2>3. KTree' /\ TreeKept BY <1>1, DiskSame DEF KGood
  <2>4. Owners' = Owners BY <1>1, <2>1, <2>2 DEF Owners
  <2>5. NewFile' = NewFile BY <2>1 DEF NewFile
  <2>6. Apart' BY <1>1, <2>4 DEF KGood, Apart
  <2>7. Marked' BY <1>1, <2>0, <2>1, <2>2, <2>4 DEF KGood, Marked
  <2>8. Cwd' BY <1>1, <2>3 DEF KGood, Cwd, TreeKept
  <2>9. CreateHolds' BY <1>1, <2>0, <2>1, <2>2, <2>3 DEF KGood, CreateHolds, TreeKept
  <2>10. BlockHeld'
    <3>1. BlocksOf(NewFile) \subseteq bbm BY DEF KGood, WriteHolds
    <3>2. \A i \in Owners : BlocksOf(itab[i]) \subseteq bbm \/ (Writing /\ i = c.ino)
      BY <2>2 DEF KGood, Marked
    <3>. QED BY <1>1, <2>1, <2>2, <2>4, <2>5, <3>1, <3>2 DEF BlockHeld
  <2>11. NewNode'
    <3>1. pc' # "dir_add_extent" BY <2>0
    <3>2. Built => IF c.op = "mkdir"
                   THEN \E b \in DataBlocks :
                          /\ itab[c.ino] = [mode |-> "dir", extents |-> <<OneBlock(b)>>]
                          /\ data[b] = DirBlock(c.ino, c.parent)
                   ELSE itab[c.ino] = [mode |-> "reg", extents |-> <<>>]
      BY DEF KGood, NewNode
    <3>. QED BY <1>1, <2>1, <2>2, <3>1, <3>2 DEF NewNode
  <2>12. FreeHolds'
    <3>1. Writing => /\ c.ino \in live /\ Named(c.ino) /\ c.op = "write"
                     /\ c.todo \subseteq bbm \cap BlocksOf(itab[c.ino]) /\ c.todo = {}
                     /\ itab[c.ino].mode # "dir"
      BY <2>0 DEF KGood, FreeHolds, Writing
    <3>. QED BY <1>1, <2>0, <2>1, <2>2, <2>3, <3>1 DEF FreeHolds, TreeKept
  <2>13. WriteHolds'
    BY <1>1, <2>0, <2>1, <2>2, <2>5 DEF KGood, WriteHolds, Ent
  <2>. QED BY <2>3, <2>6, <2>7, <2>8, <2>9, <2>10, <2>11, <2>12, <2>13 DEF KGood
<1>3. CASE Return({"lost", "drift"} \cup GaveUp)
  <2>1. pc' = "idle" /\ c'.ext = <<>> /\ "torn" \notin GaveUp
    BY <1>3, NoCallTyped DEF Return, Sound
  <2>2. ~Removing BY DEF Removing
  <2>. QED BY <1>1, <2>1, <2>2, StopMarks, EndOfCall
<1>. QED BY <1>1, <1>2, <1>3

(* The new inode and its block are written before anything leads to them. *)
LEMMA InitGood ==
  ASSUME KTyped, KTyped', KGood, mkdir_init \/ touch_init PROVE KGood' /\ TreeKept
<1>0. c \in KCall /\ c.ino \in Inodes /\ c.parent \in Inodes /\ itab \in [Inodes -> Inode]
      /\ data \in [DataBlocks -> Block] /\ live \subseteq Inodes
  BY KFacts
<1>1. /\ pc \in {"mkdir_init", "touch_init"} /\ pc' = "dir_add_entry"
      /\ UNCHANGED <<ibm, bbm, cwd, c, live>>
  BY DEF mkdir_init, touch_init
<1>2. /\ Creating /\ Creating' /\ Built' /\ ~Built /\ ~Freeing /\ ~Freeing'
      /\ ~Writing /\ ~Writing' /\ ~BlockInHand'
  BY <1>1 DEF Creating, Built, Freeing, Writing, BlockInHand
<1>3. /\ c.ino \in ibm \ live /\ c.parent \in live /\ Named(c.parent)
      /\ c.op \in {"mkdir", "touch", "create"}
      /\ pc = "mkdir_init" => c.op = "mkdir"
      /\ pc = "touch_init" => c.op # "mkdir"
  BY <1>2 DEF KGood, CreateHolds
<1>4. \A i \in Inodes \ {c.ino} : itab'[i] = itab[i]
  BY <1>0 DEF mkdir_init, touch_init
<1>5. \A b \in DataBlocks : data'[b] = data[b] \/ (pc = "mkdir_init" /\ b = c.blk)
  BY <1>0 DEF mkdir_init, touch_init
<1>6. pc = "mkdir_init" =>
        /\ c.blk \in DataBlocks /\ c.blk \in bbm
        /\ \A i \in live : c.blk \notin BlocksOf(itab[i])
        /\ itab'[c.ino] = [mode |-> "dir", extents |-> <<OneBlock(c.blk)>>]
        /\ data'[c.blk] = DirBlock(c.ino, c.parent)
  <2>. SUFFICES ASSUME pc = "mkdir_init"
                PROVE  /\ c.blk \in DataBlocks /\ c.blk \in bbm
                       /\ \A i \in live : c.blk \notin BlocksOf(itab[i])
                       /\ itab'[c.ino] = [mode |-> "dir", extents |-> <<OneBlock(c.blk)>>]
                       /\ data'[c.blk] = DirBlock(c.ino, c.parent)
    OBVIOUS
  <2>1. BlockInHand BY DEF BlockInHand
  <2>2. c.blk \in DataBlocks BY <2>1 DEF KTyped, CallTyped
  <2>3. c.blk \in bbm /\ \A i \in live : c.blk \notin BlocksOf(itab[i])
    BY <1>2, <2>1 DEF KGood, BlockHeld, Owners
  <2>4. mkdir_init BY DEF touch_init
  <2>. QED BY <1>0, <2>2, <2>3, <2>4 DEF mkdir_init
<1>7. pc = "touch_init" => itab'[c.ino] = [mode |-> "reg", extents |-> <<>>]
  BY <1>0 DEF mkdir_init, touch_init
<1>8. \A i \in live : i \in Inodes /\ i # c.ino /\ itab'[i] = itab[i]
  BY <1>0, <1>3, <1>4
<1>9. \A i \in live : \A b \in BlocksOf(itab[i]) : b \in DataBlocks /\ data'[b] = data[b]
  BY <1>5, <1>6, <1>8, KFacts
<1>10. KTree' /\ TreeKept BY <1>1, <1>8, <1>9, TreeElsewhere DEF KGood
<1>11. NoRepeat(itab'[c.ino]) /\ BlocksOf(itab'[c.ino]) \subseteq
         (IF pc = "mkdir_init" THEN {c.blk} ELSE {})
  <2>1. CASE pc = "mkdir_init"
    <3>1. itab'[c.ino].extents = <<OneBlock(c.blk)>> BY <1>6, <2>1
    <3>. QED BY <1>6, <2>1, <3>1, SingleBlock
  <2>2. CASE pc = "touch_init"
    <3>1. itab'[c.ino].extents = <<>> BY <1>7, <2>2
    <3>. QED BY <2>2, <3>1, NoBlocks
  <2>. QED BY <1>1, <2>1, <2>2
<1>12. Owners' = live \cup {c.ino} /\ Owners = live BY <1>1, <1>2 DEF Owners
<1>13. Apart'
  <2>1. \A i \in live : NoRepeat(itab'[i]) BY <1>8, <1>12 DEF KGood, Apart
  <2>2. \A i, j \in live : i # j => BlocksOf(itab'[i]) \cap BlocksOf(itab'[j]) = {}
    BY <1>8, <1>12 DEF KGood, Apart
  <2>3. \A i \in live : BlocksOf(itab'[i]) \cap BlocksOf(itab'[c.ino]) = {}
    BY <1>6, <1>8, <1>11
  <2>. QED BY <1>11, <1>12, <2>1, <2>2, <2>3 DEF Apart
<1>14. Marked'
  <2>1. live \subseteq ibm /\ \A i \in live : BlocksOf(itab[i]) \subseteq bbm
    BY <1>2, AllMarked
  <2>2. BlocksOf(itab'[c.ino]) \subseteq bbm BY <1>6, <1>11
  <2>. QED BY <1>1, <1>8, <1>12, <2>1, <2>2 DEF Marked
<1>15. Cwd' BY <1>1, <1>8, <1>10 DEF KGood, Cwd, TreeKept
<1>16. CreateHolds' BY <1>1, <1>2, <1>3, <1>10 DEF CreateHolds, TreeKept
<1>17. BlockHeld' /\ FreeHolds' BY <1>2 DEF BlockHeld, FreeHolds
<1>18. NewNode'
  <2>1. CASE pc = "mkdir_init" BY <1>1, <1>3, <1>6, <2>1 DEF NewNode
  <2>2. CASE pc = "touch_init" BY <1>1, <1>3, <1>7, <2>2 DEF NewNode
  <2>. QED BY <1>1, <2>1, <2>2
<1>19. WriteHolds'
  <2>1. c'.ext = <<>> BY <1>1, <1>2 DEF KGood, WriteHolds
  <2>2. BlocksOf(NewFile') = {} BY <2>1, NewFileEmptyNext
  <2>. QED BY <1>2, <2>1, <2>2 DEF WriteHolds
<1>. QED BY <1>10, <1>13, <1>14, <1>15, <1>16, <1>17, <1>18, <1>19 DEF KGood

(* So is the block a directory grows by. *)
LEMMA AddBlockGood ==
  ASSUME KTyped, KGood, dir_add_block PROVE KGood' /\ TreeKept
<1>0. c \in KCall /\ c.ino \in Inodes /\ data \in [DataBlocks -> Block] /\ live \subseteq Inodes
  BY KFacts
<1>1. /\ pc = "dir_add_block" /\ pc' = "dir_add_extent"
      /\ data' = [data EXCEPT ![c.blk] = [EmptyDirBlock EXCEPT !.ent[0] = NewDirent]]
      /\ UNCHANGED <<itab, ibm, bbm, cwd, c, live>>
  BY DEF dir_add_block
<1>2. /\ Creating /\ Creating' /\ Built' /\ Built /\ ~Freeing /\ ~Freeing'
      /\ ~Writing /\ ~Writing' /\ BlockInHand' /\ BlockInHand
  BY <1>1 DEF Creating, Built, Freeing, Writing, BlockInHand
<1>3. c.blk \in DataBlocks BY <1>2 DEF KTyped, CallTyped
<1>4. /\ c.blk \in bbm /\ c.blk \notin BlocksOf(NewFile)
      /\ \A i \in Owners : c.blk \notin BlocksOf(itab[i])
  BY <1>2 DEF KGood, BlockHeld
<1>5. \A b \in DataBlocks : b # c.blk => data'[b] = data[b] BY <1>0, <1>1
<1>6. \A i \in Owners : \A b \in BlocksOf(itab[i]) : b \in DataBlocks /\ data'[b] = data[b]
  <2>1. \A i \in Owners : i \in Inodes BY <1>0 DEF Owners
  <2>. QED BY <1>4, <1>5, <2>1, KFacts
<1>7. Owners' = Owners /\ c.ino \in Owners /\ live \subseteq Owners /\ NewFile' = NewFile
  BY <1>1, <1>2 DEF Owners, NewFile
<1>8. KTree' /\ TreeKept BY <1>1, <1>6, <1>7, TreeElsewhere DEF KGood
<1>9. Apart' BY <1>1, <1>7 DEF KGood, Apart
<1>10. Marked' BY <1>1, <1>2, <1>7 DEF KGood, Marked
<1>11. Cwd' BY <1>1, <1>8 DEF KGood, Cwd, TreeKept
<1>12. CreateHolds' BY <1>1, <1>2, <1>8 DEF KGood, CreateHolds, TreeKept
<1>13. BlockHeld' BY <1>1, <1>2, <1>4, <1>7 DEF BlockHeld
<1>14. FreeHolds' BY <1>2 DEF FreeHolds
<1>15. NewNode'
  <2>1. NewDirent' = NewDirent BY <1>1 DEF NewDirent
  <2>2. data'[c.blk] = [EmptyDirBlock EXCEPT !.ent[0] = NewDirent] BY <1>0, <1>1, <1>3
  <2>3. (data[c.blk] = [EmptyDirBlock EXCEPT !.ent[0] = NewDirent])' BY <1>1, <2>1, <2>2
  <2>4. IF c.op = "mkdir"
        THEN \E b \in DataBlocks :
               /\ itab[c.ino] = [mode |-> "dir", extents |-> <<OneBlock(b)>>]
               /\ data'[b] = DirBlock(c.ino, c.parent)
        ELSE itab[c.ino] = [mode |-> "reg", extents |-> <<>>]
    <3>1. CASE c.op = "mkdir"
      <4>1. PICK b \in DataBlocks :
               /\ itab[c.ino] = [mode |-> "dir", extents |-> <<OneBlock(b)>>]
               /\ data[b] = DirBlock(c.ino, c.parent)
        BY <1>2, <3>1 DEF KGood, NewNode
      <4>2. b \in BlocksOf(itab[c.ino])
        <5>1. itab[c.ino].extents = <<OneBlock(b)>> BY <4>1
        <5>. QED BY <5>1, SingleBlock
      <4>. QED BY <1>6, <1>7, <3>1, <4>1, <4>2
    <3>2. CASE c.op # "mkdir" BY <1>2, <3>2 DEF KGood, NewNode
    <3>. QED BY <3>1, <3>2
  <2>. QED BY <1>1, <2>3, <2>4 DEF NewNode
<1>16. WriteHolds' BY <1>1, <1>2, <1>7 DEF KGood, WriteHolds
<1>. QED BY <1>8, <1>9, <1>10, <1>11, <1>12, <1>13, <1>14, <1>15, <1>16 DEF KGood

(* The inode an entry is about to lead to. *)
LEMMA BuiltFacts ==
  ASSUME KTyped, KGood, Built
  PROVE  /\ c.ino \in Inodes \ live /\ c.ino \in ibm /\ c.ino \in Owners
         /\ c.parent \in live /\ c.parent \in Inodes /\ Named(c.parent)
         /\ NewDirent.inode = c.ino /\ NewDirent.type = itab[c.ino].mode
         /\ itab[c.ino].mode = "dir" =>
              /\ itab[c.ino].extents # <<>> /\ FirstBlock(c.ino) \in DataBlocks
              /\ BlocksOf(itab[c.ino]) = {FirstBlock(c.ino)}
              /\ data[FirstBlock(c.ino)] = DirBlock(c.ino, c.parent)
         /\ itab[c.ino].mode # "dir" =>
              itab[c.ino].mode = "reg" /\ BlocksOf(itab[c.ino]) = {}
<1>1. Creating BY DEF Creating
<1>2. /\ c.ino \in ibm \ live /\ c.parent \in live /\ Named(c.parent)
      /\ c.op \in {"mkdir", "touch", "create"}
  BY <1>1 DEF KGood, CreateHolds
<1>3. c.ino \in Inodes /\ c.parent \in Inodes BY KFacts
<1>4. c.ino \in Owners BY DEF Owners
<1>5. NewDirent.inode = c.ino /\ NewDirent.type = IF c.op = "mkdir" THEN "dir" ELSE "reg"
  BY DEF NewDirent
<1>6. CASE c.op = "mkdir"
  <2>1. PICK b \in DataBlocks : /\ itab[c.ino] = [mode |-> "dir", extents |-> <<OneBlock(b)>>]
                                /\ data[b] = DirBlock(c.ino, c.parent)
    BY <1>6 DEF KGood, NewNode
  <2>2. itab[c.ino].mode = "dir" /\ itab[c.ino].extents = <<OneBlock(b)>> BY <2>1
  <2>3. itab[c.ino].extents # <<>> /\ FirstBlock(c.ino) = b
    BY <2>2 DEF FirstBlock, OneBlock
  <2>4. BlocksOf(itab[c.ino]) = {b} BY <2>2, SingleBlock
  <2>. QED BY <1>2, <1>3, <1>4, <1>5, <1>6, <2>1, <2>2, <2>3, <2>4
<1>7. CASE c.op # "mkdir"
  <2>1. itab[c.ino] = [mode |-> "reg", extents |-> <<>>] BY <1>7 DEF KGood, NewNode
  <2>2. itab[c.ino].mode = "reg" /\ itab[c.ino].extents = <<>> BY <2>1
  <2>3. BlocksOf(itab[c.ino]) = {} BY <2>2, NoBlocks
  <2>. QED BY <1>2, <1>3, <1>4, <1>5, <1>7, <2>2, <2>3
<1>. QED BY <1>6, <1>7

(* The write that makes an entry effective. *)
EntryAdded(k, j, d, r, m) ==
  /\ AddsEntry(k, j, d, r, m) /\ NodeReady(k, j)
  /\ itab[k].mode = "dir"

(* It is in a directory, or something is torn. *)
LEMMA LinkedIn ==
  ASSUME Linked, Sound'
  PROVE  itab[c.parent].mode = "dir" /\ live' = live \cup {c.ino}
<1>1. "torn" \notin (IF itab[c.parent].mode = "dir" THEN {} ELSE {"torn"})
  BY DEF Linked, Return, Sound
<1>. QED BY <1>1 DEF Linked

(* What a new directory's block reads as, if the step leaves it alone. *)
LEMMA NodeIsReady ==
  ASSUME KTyped, KGood, Built, itab'[c.ino] = itab[c.ino], live' = live \cup {c.ino},
         \A b \in BlocksOf(itab[c.ino]) : data'[b] = data[b],
         NEW j, j = c.ino, NEW k, k = c.parent
  PROVE  NodeReady(k, j)
<1>0. PICK f : f = FirstBlock(j) OBVIOUS
<1>1. CASE itab[j].mode = "dir"
  <2>1. /\ j \in Inodes /\ k \in Inodes /\ itab[j].extents # <<>> /\ f \in DataBlocks
        /\ BlocksOf(itab[j]) = {f} /\ data[f] = DirBlock(j, k)
    BY <1>0, <1>1, BuiltFacts
  <2>2. FirstBlock(j)' = f BY <1>0 DEF FirstBlock
  <2>3. data'[f] = DirBlock(j, k) BY <2>1
  <2>4. \A s \in Slots :
          /\ s = 0 => data'[f].ent[s].inode = j /\ data'[f].ent[s].name = "."
          /\ s = 1 => data'[f].ent[s].inode = k /\ data'[f].ent[s].name = ".."
          /\ s \notin {0, 1} => data'[f].ent[s].inode = NIL
    BY <2>1, <2>3, DirBlockEntries
  <2>5. 0 \in Slots /\ 1 \in Slots BY GeometryAssumption DEF Slots
  <2>6. /\ Ent(FirstBlock(j), 0)'.inode = j /\ Ent(FirstBlock(j), 0)'.name = "."
        /\ Ent(FirstBlock(j), 1)'.inode = k /\ Ent(FirstBlock(j), 1)'.name = ".."
    <3>1. /\ data'[f].ent[0].inode = j /\ data'[f].ent[0].name = "."
          /\ data'[f].ent[1].inode = k /\ data'[f].ent[1].name = ".."
      BY <2>4, <2>5
    <3>. QED BY <2>2, <3>1 DEF Ent
  <2>7. ASSUME NEW b \in DataBlocks, NEW s \in Slots, Used(j, b, s)'
        PROVE  b = FirstBlock(j)' /\ s \in {0, 1}
    <3>1. b \in BlocksOf(itab'[j]) /\ data'[b].ent[s].inode # NIL /\ s \in Slots
      BY <2>7 DEF Used, Ent
    <3>2. b = f BY <2>1, <3>1
    <3>. QED BY <2>2, <2>4, <3>1, <3>2
  <2>. QED BY <1>1, <2>1, <2>6, <2>7 DEF NodeReady
<1>2. CASE itab[j].mode # "dir" BY <1>2, BuiltFacts DEF NodeReady
<1>. QED BY <1>1, <1>2

(* dir_add_entry into a free slot. *)
LEMMA AddSlotAdds ==
  ASSUME KTyped, KGood, Sound', dir_add_entry_slot,
         NEW j, j = c.ino, NEW k, k = c.parent, NEW m, m = Cut[c.path.name]
  PROVE  \E d \in DataBlocks, r \in Slots : EntryAdded(k, j, d, r, m)
<1>0. /\ Built /\ Linked /\ itab' = itab
  BY DEF Built, dir_add_entry_slot
<1>1. PICK d, r : \E p : /\ p = FirstCell(FreeCells(data, itab[k]))
                         /\ d = BlockAt(itab[k], p) /\ r = p[3]
                         /\ data' = [data EXCEPT ![d].ent[r] = NewDirent]
  BY DEF dir_add_entry_slot
<1>2. k \in Inodes /\ k \in live /\ j \in Inodes \ live /\ k \in Owners /\ j \in Owners
  BY <1>0, BuiltFacts DEF Owners
<1>3. PICK p : /\ p = FirstCell(FreeCells(data, itab[k]))
               /\ d = BlockAt(itab[k], p) /\ r = p[3]
               /\ data' = [data EXCEPT ![d].ent[r] = NewDirent]
  BY <1>1
<1>4. FreeCells(data, itab[k]) # {} BY DEF dir_add_entry_slot, DirFull
<1>5. /\ d \in BlocksOf(itab[k]) /\ d \in DataBlocks /\ r \in Slots
      /\ EntryAt(data, itab[k], p).inode = NIL
  BY <1>2, <1>3, <1>4, FreeCellFacts
<1>6. Ent(d, r).inode = NIL BY <1>3, <1>5 DEF EntryAt, Ent
<1>7. \A x \in DataBlocks, s \in Slots :
        data'[x].ent[s] = IF x = d /\ s = r THEN NewDirent ELSE data[x].ent[s]
  <2>1. data \in [DataBlocks -> Block] BY KFacts
  <2>2. PICK n : n = NewDirent OBVIOUS
  <2>3. n \in Dirent BY <2>2, NewDirentTyped
  <2>4. PICK f : f = [data EXCEPT ![d].ent[r] = n] OBVIOUS
  <2>5. \A x \in DataBlocks, s \in Slots :
          f[x].ent[s] = IF x = d /\ s = r THEN n ELSE data[x].ent[s]
    <3>1. d \in DataBlocks /\ r \in Slots BY <1>5
    <3>2. data[d] \in Block /\ data[d].ent \in [Slots -> Dirent] BY <2>1, <3>1 DEF Block
    <3>3. f[d] = [data[d] EXCEPT !.ent = [data[d].ent EXCEPT ![r] = n]] BY <2>1, <2>4, <3>1
    <3>4. f[d].ent = [data[d].ent EXCEPT ![r] = n] BY <3>2, <3>3 DEF Block
    <3>5. \A x \in DataBlocks : x # d => f[x] = data[x] BY <2>1, <2>4, <3>1
    <3>. QED BY <3>1, <3>2, <3>4, <3>5
  <2>6. f = data' BY <1>3, <2>2, <2>4
  <2>. QED BY <2>2, <2>5, <2>6
<1>8. itab[k].mode = "dir" /\ live' = live \cup {j} BY <1>0, LinkedIn
<1>9. \A x \in DataBlocks : x # d => data'[x] = data[x] BY <1>3, <1>5, KFacts
<1>10. \A i \in Owners : d \in BlocksOf(itab[i]) => i = k
  BY <1>2, <1>5 DEF KGood, Apart
<1>11. NewDirent.inode = j /\ NewDirent.type = itab[j].mode /\ NewDirent.name = m
  BY <1>0, BuiltFacts DEF NewDirent
<1>12. AddsEntry(k, j, d, r, m)
  <2>1. Ent(d, r)' = NewDirent BY <1>5, <1>7 DEF Ent
  <2>2. \A i \in live : ~Used(i, d, r) BY <1>6 DEF Used
  <2>3. ASSUME NEW i \in live, NEW b \in DataBlocks, NEW s \in Slots
        PROVE  /\ Used(i, b, s)' <=> Used(i, b, s) \/ (i = k /\ b = d /\ s = r)
               /\ Used(i, b, s) => Ent(b, s)' = Ent(b, s)
    <3>1. i \in Owners BY DEF Owners
    <3>2. CASE b = d /\ s = r
      <4>1. ~Used(i, b, s) BY <2>2, <3>2
      <4>2. Used(i, b, s)' <=> itab[i].mode = "dir" /\ d \in BlocksOf(itab[i])
        <5>1. j # NIL /\ j \in Inodes BY <1>2, RootInodes
        <5>. QED BY <1>0, <1>5, <1>8, <1>11, <2>1, <3>2, <5>1 DEF Used
      <4>3. d \in BlocksOf(itab[i]) <=> i = k BY <1>5, <1>10, <3>1
      <4>. QED BY <1>8, <3>2, <4>1, <4>2, <4>3
    <3>3. CASE ~(b = d /\ s = r)
      <4>1. Ent(b, s)' = Ent(b, s) BY <1>7, <3>3 DEF Ent
      <4>. QED BY <1>0, <1>8, <3>3, <4>1 DEF Used
    <3>. QED BY <3>2, <3>3
  <2>4. \A i \in live : itab[i].mode = "dir" => itab[i].extents # <<>>
    BY DEF KGood, KTree, KDots
  <2>5. \A i : FirstBlock(i)' = FirstBlock(i) BY <1>0 DEF FirstBlock
  <2>. QED BY <1>0, <1>8, <1>11, <2>1, <2>2, <2>3, <2>4, <2>5 DEF AddsEntry
<1>13. NodeReady(k, j)
  <2>1. \A b \in BlocksOf(itab[j]) : b \in DataBlocks /\ b # d BY <1>2, <1>10, KFacts
  <2>. QED BY <1>0, <1>8, <1>9, <2>1, NodeIsReady
<1>. QED BY <1>5, <1>8, <1>12, <1>13 DEF EntryAdded

(* The write of the extent that takes in the directory's new block. *)
LEMMA AddExtentAdds ==
  ASSUME KTyped, KGood, Sound', dir_add_extent,
         NEW j, j = c.ino, NEW k, k = c.parent, NEW m, m = Cut[c.path.name]
  PROVE  \E d \in DataBlocks, r \in Slots : EntryAdded(k, j, d, r, m)
<1>a. PICK d : d = c.blk OBVIOUS
<1>. DEFINE ext == Append(itab[k].extents, OneBlock(d))
<1>0. /\ Built /\ Linked /\ data' = data /\ pc = "dir_add_extent" /\ BlockInHand /\ ~Writing
      /\ itab' = [itab EXCEPT ![k].extents = ext]
  BY <1>a DEF Built, dir_add_extent, BlockInHand, Writing
<1>1. k \in Inodes /\ k \in live /\ j \in Inodes \ live /\ k \in Owners /\ j \in Owners /\ j # k
  BY <1>0, BuiltFacts DEF Owners
<1>2. d \in DataBlocks /\ Len(itab[k].extents) < MaxExtents
  BY <1>0, <1>a DEF KTyped, CallTyped, dir_add_extent
<1>3. \A i \in Owners : d \notin BlocksOf(itab[i]) BY <1>0, <1>a DEF KGood, BlockHeld
<1>4. itab[k].mode = "dir" /\ live' = live \cup {j} BY <1>0, LinkedIn
<1>5. itab[k].extents # <<>> BY <1>1, <1>4 DEF KGood, KTree, KDots
<1>6. itab[k].extents \in Seq(Extent) /\ ExtentsInData(itab[k].extents)
  BY <1>1, KFacts DEF Inode
<1>7. ext \in Seq(Extent) /\ ExtentsInData(ext) BY <1>2, <1>6, AppendExtent
<1>8. ext # <<>> /\ ext[1] = itab[k].extents[1]
  <2>1. PICK o, x : o = OneBlock(d) /\ x = itab[k].extents OBVIOUS
  <2>2. o \in Extent BY <1>2, <2>1, OneBlockFacts
  <2>3. x \in Seq(Extent) /\ x # <<>> BY <1>5, <1>6, <2>1
  <2>4. Len(x) \in Nat /\ Len(x) >= 1 BY <2>3
  <2>5. Append(x, o) # <<>> /\ Append(x, o)[1] = x[1] BY <2>2, <2>3, <2>4
  <2>. QED BY <2>1, <2>5
<1>9. PICK new : new = ext OBVIOUS
<1>10. /\ \A i \in Inodes : itab'[i].mode = itab[i].mode /\ (i # k => itab'[i] = itab[i])
       /\ itab'[k].extents = new
  <2>1. new \in Seq(Extent) /\ ExtentsInData(new) BY <1>7, <1>9
  <2>2. PICK t : t = [itab EXCEPT ![k].extents = new] OBVIOUS
  <2>3. /\ \A i \in Inodes : t[i].mode = itab[i].mode /\ (i # k => t[i] = itab[i])
        /\ t[k].extents = new
    BY <1>1, <2>1, <2>2, ExtentsSet
  <2>4. itab' = t BY <1>0, <1>9, <2>2
  <2>. QED BY <2>3, <2>4
<1>11. BlocksOf(itab'[k]) = BlocksOf(itab[k]) \cup {d}
  <2>1. GrowsBy(itab[k], itab'[k], d) BY <1>2, <1>6, <1>9, <1>10, AppendPos
  <2>. QED BY <2>1, OneMoreBlock
<1>12. 0 \in Slots /\ \A s \in Slots : Ent(d, s) = IF s = 0 THEN NewDirent ELSE FreeDirent
  <2>1. data[d] = [EmptyDirBlock EXCEPT !.ent[0] = NewDirent] BY <1>0, <1>a DEF KGood, NewNode
  <2>. QED BY <2>1, NewDirentTyped, GrownBlock DEF Ent
<1>13. \A b, s : Ent(b, s)' = Ent(b, s) BY <1>0 DEF Ent
<1>14. NewDirent.inode = j /\ NewDirent.type = itab[j].mode /\ NewDirent.name = m
  BY <1>0, BuiltFacts DEF NewDirent
<1>. HIDE DEF ext
<1>15. AddsEntry(k, j, d, 0, m)
  <2>1. Ent(d, 0)' = NewDirent BY <1>12, <1>13
  <2>2. \A i \in live : ~Used(i, d, 0)
    <3>1. \A i \in live : i \in Owners BY DEF Owners
    <3>. QED BY <1>3, <3>1 DEF Used
  <2>3. ASSUME NEW i \in live, NEW b \in DataBlocks, NEW s \in Slots
        PROVE  /\ Used(i, b, s)' <=> Used(i, b, s) \/ (i = k /\ b = d /\ s = 0)
               /\ Used(i, b, s) => Ent(b, s)' = Ent(b, s)
    <3>1. i \in Inodes BY KFacts
    <3>2. Used(i, b, s)' <=> /\ itab[i].mode = "dir" /\ b \in BlocksOf(itab'[i])
                             /\ Ent(b, s).inode # NIL
      BY <1>4, <1>10, <1>13, <3>1 DEF Used
    <3>3. CASE i # k
      <4>1. itab'[i] = itab[i] BY <1>10, <3>1, <3>3
      <4>. QED BY <1>13, <3>2, <3>3, <4>1 DEF Used
    <3>4. CASE i = k /\ b # d
      <4>1. b \in BlocksOf(itab'[i]) <=> b \in BlocksOf(itab[i]) BY <1>11, <3>4
      <4>. QED BY <1>13, <3>2, <3>4, <4>1 DEF Used
    <3>5. CASE i = k /\ b = d
      <4>1. b \in BlocksOf(itab'[i]) /\ ~Used(i, b, s)
        BY <1>1, <1>3, <1>11, <3>5 DEF Used
      <4>2. Ent(b, s).inode # NIL <=> s = 0
        <5>1. FreeDirent.inode = NIL BY DEF FreeDirent
        <5>2. j # NIL BY <1>1, RootInodes
        <5>. QED BY <1>12, <1>14, <3>5, <5>1, <5>2
      <4>. QED BY <1>4, <3>2, <3>5, <4>1, <4>2
    <3>. QED BY <3>3, <3>4, <3>5
  <2>4. ASSUME NEW i \in live
        PROVE  /\ itab'[i].mode = itab[i].mode
               /\ itab[i].mode = "dir" => FirstBlock(i)' = FirstBlock(i) /\ itab'[i].extents # <<>>
    <3>1. i \in Inodes BY KFacts
    <3>2. itab[i].mode = "dir" => itab[i].extents # <<>> BY DEF KGood, KTree, KDots
    <3>3. CASE i # k
      <4>1. itab'[i] = itab[i] BY <1>10, <3>1, <3>3
      <4>. QED BY <3>2, <4>1 DEF FirstBlock
    <3>4. CASE i = k BY <1>8, <1>9, <1>10, <3>1, <3>4 DEF FirstBlock
    <3>. QED BY <3>3, <3>4
  <2>5. itab'[j].mode = itab[j].mode BY <1>1, <1>10
  <2>. QED BY <1>4, <1>14, <2>1, <2>2, <2>3, <2>4, <2>5 DEF AddsEntry
<1>16. NodeReady(k, j)
  <2>1. itab'[j] = itab[j] BY <1>1, <1>10
  <2>. QED BY <1>0, <1>4, <2>1, NodeIsReady
<1>. QED BY <1>2, <1>4, <1>12, <1>15, <1>16 DEF EntryAdded

(* Taking in its block gives the directory nothing that is not its own. *)
LEMMA AddOwns ==
  ASSUME KTyped, KGood, Built, dir_add_entry_slot \/ dir_add_extent
  PROVE  /\ \A i \in Owners : NoRepeat(itab'[i]) /\ BlocksOf(itab'[i]) \subseteq bbm
         /\ \A i, j \in Owners : i # j => BlocksOf(itab'[i]) \cap BlocksOf(itab'[j]) = {}
<1>0. ~Freeing /\ ~Writing BY DEF Built, Freeing, Writing
<1>1. /\ \A i \in Owners : NoRepeat(itab[i]) /\ BlocksOf(itab[i]) \subseteq bbm /\ i \in Inodes
      /\ \A i, j \in Owners : i # j => BlocksOf(itab[i]) \cap BlocksOf(itab[j]) = {}
  BY <1>0, KFacts DEF KGood, Apart, Marked, Owners
<1>2. CASE dir_add_entry_slot
  <2>1. itab' = itab BY <1>2 DEF dir_add_entry_slot
  <2>. QED BY <1>1, <2>1
<1>3. CASE dir_add_extent
  <2>1. PICK k, d : k = c.parent /\ d = c.blk OBVIOUS
  <2>2. pc = "dir_add_extent" /\ BlockInHand /\ k \in Inodes
    BY <1>3, <2>1, KFacts DEF dir_add_extent, BlockInHand
  <2>3. d \in DataBlocks /\ Len(itab[k].extents) < MaxExtents
    BY <2>1, <2>2 DEF KTyped, CallTyped
  <2>4. d \in bbm /\ \A i \in Owners : d \notin BlocksOf(itab[i])
    BY <1>0, <2>1, <2>2 DEF KGood, BlockHeld
  <2>5. itab[k].extents \in Seq(Extent) /\ ExtentsInData(itab[k].extents)
    BY <2>2, KFacts DEF Inode
  <2>6. PICK new : new = Append(itab[k].extents, OneBlock(d)) OBVIOUS
  <2>7. new \in Seq(Extent) /\ ExtentsInData(new) BY <2>3, <2>5, <2>6, AppendExtent
  <2>8. PICK t : t = [itab EXCEPT ![k].extents = new] OBVIOUS
  <2>9. (\A i \in Inodes : i # k => t[i] = itab[i]) /\ t[k].extents = new
    BY <2>2, <2>7, <2>8, ExtentsSet
  <2>10. itab' = t BY <1>3, <2>1, <2>6, <2>8 DEF dir_add_extent
  <2>11. GrowsBy(itab[k], t[k], d) BY <2>3, <2>5, <2>6, <2>9, AppendPos
  <2>12. /\ BlocksOf(t[k]) = BlocksOf(itab[k]) \cup {d}
         /\ NoRepeat(itab[k]) /\ d \notin BlocksOf(itab[k]) => NoRepeat(t[k])
    BY <2>11, OneMoreBlock
  <2>13. \A i \in Owners : /\ NoRepeat(t[i]) /\ BlocksOf(t[i]) \subseteq bbm
                           /\ BlocksOf(t[i]) \subseteq BlocksOf(itab[i]) \cup {d}
                           /\ d \in BlocksOf(t[i]) => i = k
    BY <1>1, <2>4, <2>9, <2>12
  <2>. QED BY <1>1, <2>10, <2>13
<1>. QED BY <1>2, <1>3

(* Every link stays. *)
LinksKept ==
  /\ live \subseteq live'
  /\ \A i \in live, b \in DataBlocks, s \in Slots :
       IsLink(i, b, s) => IsLink(i, b, s)' /\ Ent(b, s)' = Ent(b, s)

(* dir_add_entry: the new inode becomes one of the tree's. *)
LEMMA LinkGood ==
  ASSUME KTyped, KGood, Sound', dir_add_entry_slot \/ dir_add_extent,
         NEW k, k = c.parent, NEW m, m = Cut[c.path.name]
  PROVE  /\ KGood' /\ LinksKept
         /\ OneName /\ (\A b \in DataBlocks, s \in Slots : Used(k, b, s) => Ent(b, s).name # m)
              => OneName'
<1>0. PICK j : j = c.ino OBVIOUS
<1>1. Built /\ Linked /\ UNCHANGED <<ibm, bbm, cwd>> /\ Creating
  BY DEF Built, Creating, dir_add_entry_slot, dir_add_extent
<1>2. PICK d \in DataBlocks, r \in Slots : EntryAdded(k, j, d, r, m)
  BY <1>0, AddSlotAdds, AddExtentAdds
<1>3. /\ AddsEntry(k, j, d, r, m) /\ NodeReady(k, j) /\ itab[k].mode = "dir"
  BY <1>2 DEF EntryAdded
<1>4. /\ j \in Inodes \ live /\ j \in ibm /\ k \in live /\ Named(k) /\ KTree
  BY <1>0, <1>1, BuiltFacts DEF KGood
<1>5. /\ KTree' /\ \A x : Named(x) => Named(x)'
      /\ OneName /\ (\A b \in DataBlocks, s \in Slots : Used(k, b, s) => Ent(b, s).name # m)
           => OneName'
  BY <1>3, <1>4, TreeAdd
<1>6. live' = live \cup {j} /\ \A i \in live : itab'[i].mode = itab[i].mode
  BY <1>3 DEF AddsEntry
<1>7. LinksKept BY <1>3, <1>6 DEF AddsEntry, LinksKept, IsLink
<1>8. pc' \in {"flush_metadata", "idle"} /\ c'.ext = <<>>
  <2>1. c.ext = <<>>
    <3>1. ~Writing /\ pc # "flush_metadata" BY <1>1 DEF Built, Writing
    <3>. QED BY <3>1 DEF KGood, WriteHolds
  <2>. QED BY <1>1, <2>1, NoCallTyped DEF Linked, Return
<1>9. ~Creating' /\ ~Built' /\ ~Freeing' /\ ~Writing' /\ ~BlockInHand'
  BY <1>8 DEF Creating, Built, Freeing, Writing, BlockInHand
<1>10. Owners' = Owners /\ Owners = live' BY <1>0, <1>1, <1>6, <1>9 DEF Owners
<1>11. /\ \A i \in Owners : NoRepeat(itab'[i]) /\ BlocksOf(itab'[i]) \subseteq bbm
       /\ \A i, l \in Owners : i # l => BlocksOf(itab'[i]) \cap BlocksOf(itab'[l]) = {}
  BY <1>1, AddOwns
<1>12. Apart' BY <1>10, <1>11 DEF Apart
<1>13. /\ live \subseteq ibm /\ cwd \in live /\ Named(cwd) /\ itab[cwd].mode = "dir"
  <2>1. ~Freeing /\ ~Writing BY <1>1 DEF Built, Freeing, Writing
  <2>. QED BY <2>1, AllMarked
<1>14. Marked' BY <1>1, <1>4, <1>6, <1>10, <1>11, <1>13 DEF Marked
<1>15. Cwd' BY <1>1, <1>5, <1>6, <1>13 DEF Cwd
<1>16. CreateHolds' /\ BlockHeld' /\ FreeHolds' BY <1>9 DEF CreateHolds, BlockHeld, FreeHolds
<1>17. NewNode' BY <1>8, <1>9 DEF NewNode
<1>18. WriteHolds'
  <2>1. BlocksOf(NewFile') = {} BY <1>8, NewFileEmptyNext
  <2>. QED BY <1>8, <1>9, <2>1 DEF WriteHolds
<1>. QED BY <1>5, <1>7, <1>12, <1>14, <1>15, <1>16, <1>17, <1>18 DEF KGood

(* The command takes up an inode that nothing is wrong with. *)
LEMMA StartFreeGood ==
  ASSUME KTyped, KGood, pc \in {"idle", "flush_metadata"}, UNCHANGED <<itab, data, ibm, bbm, live, cwd>>,
         NEW call \in KCall, StartFree(call), call.ext = <<>>,
         call.ino \in live, Named(call.ino), call.todo = BlocksOf(itab[call.ino]),
         \/ call.op = "write" /\ itab[call.ino].mode # "dir"
         \/ /\ call.op = "rm" /\ Resolve(call.path) = call.ino /\ Removable(call.ino)
            /\ ~ThroughFile(call.path)
  PROVE  KGood' /\ TreeKept
<1>0. /\ live \subseteq ibm /\ \A i \in live : BlocksOf(itab[i]) \subseteq bbm
      /\ cwd \in live /\ Named(cwd) /\ itab[cwd].mode = "dir"
  BY AllMarked DEF Freeing, Writing
<1>1. KTree' /\ TreeKept BY DiskSame DEF KGood
<1>2. /\ c' = call /\ pc' \in {"free_blocks", "free_inode", "write_loop"}
      /\ pc' = "free_inode" => call.op = "rm"
      /\ pc' = "write_loop" => call.op = "write"
      /\ pc' # "free_blocks" => call.todo = {}
  BY DEF StartFree, AfterFree
<1>3. ~Creating' /\ ~Built' /\ ~BlockInHand' BY <1>2 DEF Creating, Built, BlockInHand
<1>4. Owners' = live /\ live \subseteq Owners BY <1>3 DEF Owners
<1>5. Apart' BY <1>4 DEF KGood, Apart
<1>6. Marked' BY <1>0, <1>4 DEF Marked
<1>7. Cwd' BY <1>0, <1>1 DEF Cwd, TreeKept
<1>8. CreateHolds' /\ BlockHeld' BY <1>3 DEF CreateHolds, BlockHeld
<1>9. NewNode' BY <1>2, <1>3 DEF NewNode
<1>10. FreeHolds'
  <2>1. /\ Resolve(call.path)' = Resolve(call.path)
        /\ ThroughFile(call.path)' <=> ThroughFile(call.path)
    BY DEF Resolve, ThroughFile, Parent
  <2>2. Removable(call.ino)' <=> Removable(call.ino) BY DEF Removable
  <2>. QED BY <1>0, <1>1, <1>2, <2>1, <2>2 DEF FreeHolds, TreeKept, Writing, Freeing
<1>11. WriteHolds'
  <2>1. BlocksOf(NewFile') = {} /\ NoRepeat(NewFile') BY <1>2, NewFileEmptyNext
  <2>. QED BY <1>2, <2>1 DEF WriteHolds
<1>. QED BY <1>1, <1>5, <1>6, <1>7, <1>8, <1>9, <1>10, <1>11 DEF KGood

(* kzeros_write_file of a file that is there. *)
LEMMA StartWriteGood ==
  ASSUME KTyped, KGood, Sound', pc \in {"idle", "flush_metadata"},
         UNCHANGED <<itab, data, ibm, bbm, live, cwd>>,
         NEW p \in Path, NEW v \in Vals \cup {NoVal}, NEW n \in 0 .. MaxLen,
         Writable(Resolve(p)), StartWrite(p, v, n)
  PROVE  KGood' /\ TreeKept
<1>. DEFINE call == [NoCall EXCEPT !.op = "write", !.path = p, !.ino = Resolve(p), !.left = n,
                                   !.len = n, !.val = v, !.todo = BlocksOf(itab[Resolve(p)])]
<1>1. Resolve(p) \in live /\ Named(Resolve(p)) /\ itab[Resolve(p)].mode # "dir"
  <2>1. Resolve(p) # NIL /\ itab[Resolve(p)].mode # "dir" BY RootInodes DEF Writable, Readable
  <2>2. PathHarm(p) \subseteq harm' BY DEF StartWrite
  <2>. QED BY <2>1, <2>2, NotThroughFile, ResolveNamed DEF KGood
<1>2. BlocksOf(itab[Resolve(p)]) \subseteq DataBlocks /\ Resolve(p) \in Inodes BY <1>1, KFacts
<1>3. /\ call \in KCall /\ call.ext = <<>> /\ call.op = "write" /\ call.ino = Resolve(p)
      /\ call.todo = BlocksOf(itab[Resolve(p)])
  BY <1>2, NoCallTyped DEF KCall, KOps
<1>4. StartFree(call) BY DEF StartWrite
<1>. HIDE DEF call
<1>. QED BY <1>1, <1>3, <1>4, StartFreeGood

(* kzeros_rm. *)
LEMMA RmGood ==
  ASSUME KTyped, KGood, Sound', NEW p \in Path, kzeros_rm(p) PROVE KGood' /\ TreeKept
<1>. DEFINE call == [NoCall EXCEPT !.op = "rm", !.path = p, !.ino = Resolve(p),
                                   !.todo = BlocksOf(itab[Resolve(p)])]
<1>1. /\ pc = "idle" /\ Removable(Resolve(p)) /\ StartFree(call)
      /\ UNCHANGED <<itab, data, ibm, bbm, live, cwd>> /\ PathHarm(p) \subseteq harm'
  BY DEF kzeros_rm, diskVars
<1>2. Resolve(p) \in live /\ Named(Resolve(p)) /\ ~ThroughFile(p)
  <2>1. Resolve(p) # NIL BY <1>1, RootInodes DEF Removable, Readable
  <2>2. ~ThroughFile(p) BY <1>1, NotThroughFile
  <2>. QED BY <2>1, <2>2, ResolveNamed DEF KGood
<1>3. BlocksOf(itab[Resolve(p)]) \subseteq DataBlocks /\ Resolve(p) \in Inodes BY <1>2, KFacts
<1>4. /\ call \in KCall /\ call.ext = <<>> /\ call.op = "rm" /\ call.ino = Resolve(p)
      /\ call.todo = BlocksOf(itab[Resolve(p)]) /\ call.path = p
  BY <1>3, NoCallTyped DEF KCall, KOps
<1>. HIDE DEF call
<1>. QED BY <1>1, <1>2, <1>4, StartFreeGood

(* free_block: what is given back is what the command still had to give. *)
LEMMA FreeBlockGood ==
  ASSUME KTyped, KGood, free_block PROVE KGood' /\ TreeKept
<1>0. c \in KCall /\ c.todo \subseteq DataBlocks BY KFacts DEF KTyped, TypeOK
<1>1. PICK b \in c.todo :
        /\ bbm' \in {bbm, bbm \ {b}} /\ StartFree([c EXCEPT !.todo = @ \ {b}])
        /\ pc = "free_blocks" /\ UNCHANGED <<itab, data, ibm, cwd, live>>
  BY DEF free_block
<1>2. /\ c'.op = c.op /\ c'.ino = c.ino /\ c'.path = c.path /\ c'.ext = c.ext
      /\ c'.todo = c.todo \ {b}
      /\ pc' \in {"free_blocks", "free_inode", "write_loop"}
      /\ pc' = "free_inode" => c'.op = "rm"
      /\ pc' = "write_loop" => c'.op # "rm"
      /\ pc' # "free_blocks" => c'.todo = {}
  BY <1>0, <1>1 DEF StartFree, AfterFree, KCall
<1>3. /\ c.ino \in live /\ Named(c.ino) /\ c.op \in {"write", "rm"}
      /\ c.todo \subseteq bbm \cap BlocksOf(itab[c.ino])
      /\ c.op = "write" => itab[c.ino].mode # "dir"
      /\ c.op = "rm" =>
           Resolve(c.path) = c.ino /\ Removable(c.ino) /\ ~ThroughFile(c.path)
  BY <1>1 DEF KGood, FreeHolds, Freeing
<1>4. KTree' /\ TreeKept BY <1>1, DiskSame DEF KGood
<1>5. ~Creating' /\ ~Built' /\ ~BlockInHand' /\ (Freeing' \/ Writing')
  BY <1>2 DEF Creating, Built, BlockInHand, Freeing, Writing
<1>6. Owners' = live /\ live \subseteq Owners BY <1>1, <1>5 DEF Owners
<1>7. Apart' BY <1>1, <1>6 DEF KGood, Apart
<1>8. \A i \in live : i # c.ino => BlocksOf(itab[i]) \subseteq bbm'
  <2>1. \A i \in live : i # c.ino => b \notin BlocksOf(itab[i])
    BY <1>3, <1>6 DEF KGood, Apart
  <2>. QED BY <1>1, <1>6, <2>1 DEF KGood, Marked
<1>9. live \subseteq ibm BY <1>1 DEF KGood, Marked
<1>10. Marked' BY <1>1, <1>2, <1>5, <1>6, <1>8, <1>9 DEF Marked
<1>11. Cwd' BY <1>1, <1>4 DEF KGood, Cwd, TreeKept
<1>12. CreateHolds' /\ BlockHeld' BY <1>5 DEF CreateHolds, BlockHeld
<1>13. NewNode' BY <1>2, <1>5 DEF NewNode
<1>14. FreeHolds'
  <2>1. PICK p, i : p = c.path /\ i = c.ino OBVIOUS
  <2>2. /\ Resolve(p)' = Resolve(p)
        /\ Removable(i)' <=> Removable(i)
        /\ ThroughFile(p)' <=> ThroughFile(p)
    BY <1>1 DEF Resolve, Removable, ThroughFile, Parent
  <2>3. c.op = "rm" =>
          Resolve(c.path)' = c'.ino /\ Removable(c.ino)' /\ ~ThroughFile(c.path)'
    <3>1. /\ Resolve(c.path)' = Resolve(p)' /\ (Removable(c.ino)' <=> Removable(i)')
          /\ ThroughFile(c.path)' <=> ThroughFile(p)'
      BY <1>2, <2>1
    <3>. QED BY <1>2, <1>3, <2>1, <2>2, <3>1
  <2>4. c'.todo \subseteq bbm' \cap BlocksOf(itab'[c'.ino]) BY <1>1, <1>2, <1>3
  <2>5. Named(c.ino)'
    <3>1. Named(i)' BY <1>3, <1>4, <2>1 DEF TreeKept
    <3>2. Named(c.ino)' <=> Named(i)' BY <1>2, <2>1
    <3>. QED BY <3>1, <3>2
  <2>. QED BY <1>1, <1>2, <1>3, <2>3, <2>4, <2>5 DEF FreeHolds, Writing, Freeing
<1>15. WriteHolds'
  <2>1. c.ext = <<>>
    <3>1. ~Writing /\ pc # "flush_metadata" BY <1>1 DEF Writing
    <3>. QED BY <3>1 DEF KGood, WriteHolds
  <2>2. BlocksOf(NewFile') = {} /\ NoRepeat(NewFile') BY <1>2, <2>1, NewFileEmptyNext
  <2>. QED BY <1>2, <2>1, <2>2 DEF WriteHolds
<1>. QED BY <1>4, <1>7, <1>10, <1>11, <1>12, <1>13, <1>14, <1>15 DEF KGood

(* free_inode. *)
LEMMA FreeInodeGood ==
  ASSUME KTyped, KGood, free_inode PROVE KGood' /\ TreeKept
<1>1. /\ pc = "free_inode" /\ pc' = "dir_remove_entry" /\ ibm' \in {ibm, ibm \ {c.ino}}
      /\ UNCHANGED <<itab, data, bbm, cwd, c, live>>
  BY DEF free_inode
<1>2. /\ c.ino \in live /\ Named(c.ino) /\ c.op = "rm" /\ c.todo = {}
      /\ Resolve(c.path) = c.ino /\ Removable(c.ino) /\ ~ThroughFile(c.path)
  BY <1>1 DEF KGood, FreeHolds, Freeing
<1>3. KTree' /\ TreeKept BY <1>1, DiskSame DEF KGood
<1>4. ~Creating' /\ ~Built' /\ ~BlockInHand' /\ Freeing' /\ ~Writing' /\ ~Writing /\ Freeing
  BY <1>1 DEF Creating, Built, BlockInHand, Freeing, Writing
<1>5. Owners' = live /\ live \subseteq Owners BY <1>1, <1>4 DEF Owners
<1>6. Apart' BY <1>1, <1>5 DEF KGood, Apart
<1>7. Marked'
  <2>1. \A i \in live : i \in ibm BY <1>1 DEF KGood, Marked
  <2>2. \A i \in live : BlocksOf(itab[i]) \subseteq bbm \/ i = c.ino
    BY <1>5 DEF KGood, Marked
  <2>. QED BY <1>1, <1>4, <1>5, <2>1, <2>2 DEF Marked
<1>8. Cwd' BY <1>1, <1>3 DEF KGood, Cwd, TreeKept
<1>9. CreateHolds' /\ BlockHeld' BY <1>4 DEF CreateHolds, BlockHeld
<1>10. NewNode' BY <1>1, <1>4 DEF NewNode
<1>11. FreeHolds'
  <2>1. /\ Resolve(c.path)' = Resolve(c.path)
        /\ ThroughFile(c.path)' <=> ThroughFile(c.path)
    BY <1>1 DEF Resolve, ThroughFile, Parent
  <2>2. Removable(c.ino)' <=> Removable(c.ino) BY <1>1 DEF Removable
  <2>3. Named(c.ino)' BY <1>1, <1>2, <1>3 DEF TreeKept
  <2>. QED BY <1>1, <1>2, <1>4, <2>1, <2>2, <2>3 DEF FreeHolds
<1>12. WriteHolds'
  <2>1. c.ext = <<>> BY <1>1, <1>4 DEF KGood, WriteHolds
  <2>2. BlocksOf(NewFile') = {} BY <1>1, <2>1, NewFileEmptyNext
  <2>. QED BY <1>1, <1>4, <2>1, <2>2 DEF WriteHolds
<1>. QED BY <1>3, <1>6, <1>7, <1>8, <1>9, <1>10, <1>11, <1>12 DEF KGood

(* What has been written of a file lies in the data area. *)
LEMMA NewFileInData ==
  ASSUME KTyped PROVE BlocksOf(NewFile) \subseteq DataBlocks
<1>1. PICK n : n = [mode |-> "none", extents |-> c.ext] OBVIOUS
<1>2. n \in Inode /\ ExtentsInData(n.extents)
  BY <1>1, KFacts DEF Inode, Types, KTyped, CallTyped
<1>3. NewFile.extents = n.extents BY <1>1 DEF NewFile
<1>. QED BY <1>2, <1>3, BlocksOfInData, SameExtents

(* The next block of a file is nobody's. *)
LEMMA WriteDataGood ==
  ASSUME KTyped, KGood, write_data PROVE KGood' /\ TreeKept
<1>0. /\ c \in KCall /\ c.ino \in Inodes /\ data \in [DataBlocks -> Block] /\ live \subseteq Inodes
      /\ c.ext \in Seq(Extent) /\ ExtentsInData(c.ext)
  BY KFacts DEF KTyped, CallTyped
<1>1. /\ pc = "write_data" /\ pc' = "write_loop" /\ BlockInHand
      /\ UNCHANGED <<itab, ibm, bbm, cwd, live>>
      /\ data' = [data EXCEPT ![c.blk] = FileBlock(c.val)]
  BY DEF write_data, BlockInHand
<1>2. /\ c'.op = c.op /\ c'.ino = c.ino /\ c'.path = c.path /\ c'.todo = c.todo
      /\ c'.ext = GrowExtents(c.ext, c.blk)
  BY <1>0 DEF write_data, KCall
<1>3. /\ ~Creating' /\ ~Built' /\ ~BlockInHand' /\ ~Freeing' /\ Writing' /\ Writing /\ ~Built
  BY <1>1 DEF Creating, Built, BlockInHand, Freeing, Writing
<1>4. /\ c.ino \in live /\ Named(c.ino) /\ c.op = "write" /\ c.todo = {}
      /\ itab[c.ino].mode # "dir"
  BY <1>1, <1>3 DEF KGood, FreeHolds
<1>5. c.blk \in DataBlocks /\ Len(c.ext) < MaxExtents
  BY <1>1 DEF KTyped, CallTyped
<1>6. /\ c.blk \in bbm /\ c.blk \notin BlocksOf(NewFile)
      /\ \A i \in live : i # c.ino => c.blk \notin BlocksOf(itab[i])
  BY <1>1 DEF KGood, BlockHeld, Owners
<1>7. PICK old, new, blk : old = NewFile /\ new = NewFile' /\ blk = c.blk OBVIOUS
<1>8. BlocksOf(new) = BlocksOf(old) \cup {blk} /\ (NoRepeat(old) => NoRepeat(new))
  <2>1. old.extents = c.ext /\ new.extents = GrowExtents(c.ext, blk) BY <1>2, <1>7 DEF NewFile
  <2>2. GrowsBy(old, new, blk) BY <1>0, <1>5, <1>7, <2>1, GrowPos
  <2>. QED BY <1>6, <1>7, <2>2, OneMoreBlock
<1>9. \A b \in DataBlocks : b # blk => data'[b] = data[b] BY <1>0, <1>1, <1>7
<1>12. KTree' /\ TreeKept
  <2>1. \A i \in live : itab[i].mode = "dir" =>
          itab'[i] = itab[i] /\ \A b \in BlocksOf(itab[i]) : data'[b] = data[b]
    BY <1>0, <1>1, <1>4, <1>6, <1>7, <1>9, KFacts
  <2>. QED BY <1>1, <2>1, TreeSame DEF KGood
<1>13. Owners' = live /\ Owners = live BY <1>1, <1>3 DEF Owners
<1>14. Apart' BY <1>1, <1>13 DEF KGood, Apart
<1>15. Marked' BY <1>1, <1>2, <1>3, <1>13 DEF KGood, Marked
<1>16. Cwd' BY <1>1, <1>12 DEF KGood, Cwd, TreeKept
<1>17. CreateHolds' /\ BlockHeld' BY <1>3 DEF CreateHolds, BlockHeld
<1>18. NewNode' BY <1>1, <1>3 DEF NewNode
<1>19. FreeHolds'
  <2>1. Named(c.ino)' BY <1>2, <1>4, <1>12 DEF TreeKept
  <2>. QED BY <1>1, <1>2, <1>3, <1>4, <2>1 DEF FreeHolds
<1>20. WriteHolds'
  <2>1. /\ BlocksOf(old) \subseteq bbm /\ NoRepeat(old) /\ BlocksOf(old) \subseteq DataBlocks
        /\ \A i \in live \ {c.ino} : BlocksOf(old) \cap BlocksOf(itab[i]) = {}
    <3>2. BlocksOf(old) \subseteq DataBlocks BY <1>7, NewFileInData
    <3>. QED BY <1>3, <1>7, <3>2 DEF KGood, WriteHolds
  <2>2. BlocksOf(new) \subseteq bbm /\ NoRepeat(new) BY <1>6, <1>7, <1>8, <2>1
  <2>3. \A i \in live \ {c.ino} : BlocksOf(new) \cap BlocksOf(itab[i]) = {}
    BY <1>6, <1>7, <1>8, <2>1
  <2>. QED BY <1>1, <1>2, <1>3, <1>7, <2>2, <2>3 DEF WriteHolds
<1>. QED BY <1>12, <1>14, <1>15, <1>16, <1>17, <1>18, <1>19, <1>20 DEF KGood

(* The file becomes the blocks that were written. *)
LEMMA WriteInodeGood ==
  ASSUME KTyped, KGood, write_inode PROVE KGood' /\ TreeKept
<1>0. c.ino \in Inodes /\ live \subseteq Inodes BY KFacts
<1>1. /\ pc = "write_loop" /\ pc' \in {"flush_metadata", "idle"}
      /\ UNCHANGED <<data, ibm, bbm, cwd, live>>
      /\ c' \in {c, NoCall}
      /\ pc' = "idle" => c' = NoCall
      /\ itab' = [itab EXCEPT ![c.ino].extents = c.ext]
  BY DEF write_inode, Return
<1>2. /\ ~Creating' /\ ~Built' /\ ~BlockInHand' /\ ~Freeing' /\ ~Writing' /\ Writing /\ ~Built
      /\ ~Freeing
  BY <1>1 DEF Creating, Built, BlockInHand, Freeing, Writing
<1>3. c.ino \in live /\ itab[c.ino].mode # "dir" BY <1>2 DEF KGood, FreeHolds
<1>4. PICK j, new : j = c.ino /\ new = c.ext OBVIOUS
<1>5. /\ \A i \in Inodes : itab'[i].mode = itab[i].mode /\ (i # j => itab'[i] = itab[i])
      /\ itab'[j].extents = new
  <2>1. new \in Seq(Extent) /\ ExtentsInData(new) BY <1>4, KFacts DEF KTyped, CallTyped
  <2>2. PICK t : t = [itab EXCEPT ![j].extents = new] OBVIOUS
  <2>3. /\ \A i \in Inodes : t[i].mode = itab[i].mode /\ (i # j => t[i] = itab[i])
        /\ t[j].extents = new
    BY <1>0, <1>4, <2>1, <2>2, ExtentsSet
  <2>4. itab' = t BY <1>1, <1>4, <2>2
  <2>. QED BY <2>3, <2>4
<1>6. PICK file : file = NewFile OBVIOUS
<1>7. BlocksOf(itab'[j]) = BlocksOf(file) /\ (NoRepeat(file) => NoRepeat(itab'[j]))
  <2>1. file.extents = itab'[j].extents BY <1>4, <1>5, <1>6 DEF NewFile
  <2>. QED BY <2>1, SameExtents
<1>8. /\ BlocksOf(file) \subseteq bbm /\ NoRepeat(file)
      /\ \A i \in live : i # j => BlocksOf(file) \cap BlocksOf(itab[i]) = {}
  BY <1>2, <1>4, <1>6 DEF KGood, WriteHolds
<1>9. KTree' /\ TreeKept
  <2>2. \A i \in live : itab[i].mode = "dir" => i # j /\ itab'[i] = itab[i]
    BY <1>0, <1>3, <1>4, <1>5
  <2>3. \A i \in live : itab'[i].mode = itab[i].mode BY <1>0, <1>5
  <2>. QED BY <1>1, <2>2, <2>3, TreeSame DEF KGood
<1>10. Owners' = live /\ Owners = live BY <1>1, <1>2 DEF Owners
<1>11. Apart'
  <2>1. \A i \in live : NoRepeat(itab'[i])
    BY <1>0, <1>5, <1>7, <1>8, <1>10 DEF KGood, Apart
  <2>2. \A i, l \in live : i # l => BlocksOf(itab'[i]) \cap BlocksOf(itab'[l]) = {}
    BY <1>0, <1>5, <1>7, <1>8, <1>10 DEF KGood, Apart
  <2>. QED BY <1>10, <2>1, <2>2 DEF Apart
<1>12. Marked'
  <2>1. live \subseteq ibm BY <1>1 DEF KGood, Marked
  <2>2. \A i \in live : BlocksOf(itab'[i]) \subseteq bbm
    BY <1>0, <1>4, <1>5, <1>7, <1>8, <1>10 DEF KGood, Marked
  <2>. QED BY <1>1, <1>10, <2>1, <2>2 DEF Marked
<1>13. Cwd' BY <1>1, <1>9 DEF KGood, Cwd, TreeKept
<1>14. CreateHolds' /\ BlockHeld' /\ FreeHolds' BY <1>2 DEF CreateHolds, BlockHeld, FreeHolds
<1>15. NewNode' BY <1>1, <1>2 DEF NewNode
<1>16. WriteHolds'
  <2>1. CASE c' = c
    <3>1. NewFile' = file BY <1>6, <2>1 DEF NewFile
    <3>2. \A i \in live \ {j} : BlocksOf(file) \cap BlocksOf(itab'[i]) = {}
      BY <1>0, <1>5, <1>8
    <3>3. pc' = "flush_metadata" \/ c'.ext = <<>> BY <1>1, NoCallTyped
    <3>. QED BY <1>1, <1>2, <1>4, <1>8, <2>1, <3>1, <3>2, <3>3 DEF WriteHolds
  <2>2. CASE c' = NoCall
    <3>1. c'.ext = <<>> BY <2>2, NoCallTyped
    <3>2. BlocksOf(NewFile') = {} BY <3>1, NewFileEmptyNext
    <3>. QED BY <1>2, <3>1, <3>2 DEF WriteHolds
  <2>. QED BY <1>1, <2>1, <2>2
<1>. QED BY <1>9, <1>11, <1>12, <1>13, <1>14, <1>15, <1>16 DEF KGood

(* flush_metadata ends the command or goes on with the file it created. *)
LEMMA FlushGood ==
  ASSUME KTyped, KGood, Sound', flush_metadata PROVE KGood' /\ TreeKept
<1>1. pc = "flush_metadata" /\ UNCHANGED <<itab, data, ibm, bbm, cwd, live>>
  BY DEF flush_metadata
<1>2. \/ Writable(Resolve(c.path)) /\ StartWrite(c.path, c.val, c.len)
      \/ c' = NoCall /\ pc' \in {"idle", "off"}
  BY DEF flush_metadata, Return
<1>3. CASE Writable(Resolve(c.path)) /\ StartWrite(c.path, c.val, c.len)
  <2>1. c.path \in Path /\ c.val \in Vals \cup {NoVal} /\ c.len \in 0 .. MaxLen
    BY KFacts DEF KCall
  <2>. QED BY <1>1, <1>3, <2>1, StartWriteGood
<1>4. CASE c' = NoCall /\ pc' \in {"idle", "off"}
  <2>1. c'.ext = <<>> BY <1>4, NoCallTyped
  <2>2. ~Freeing /\ ~Writing BY <1>1 DEF Freeing, Writing
  <2>. QED BY <1>1, <1>4, <2>1, <2>2, AllMarked, EndOfCall
<1>. QED BY <1>2, <1>3, <1>4

(* The entry dir_remove_entry erases is the one dir_lookup finds. *)
LEMMA ErasedHit ==
  ASSUME KTyped, NEW k \in Inodes, NEW name, NEW j, j = dir_lookup(itab, data, k, name),
         j # NIL, NEW f, f = ErasedFrom(k, name)
  PROVE  \E d \in BlocksOf(itab[k]), r \in Slots :
           /\ d \in DataBlocks /\ Ent(d, r).inode = j /\ Ent(d, r).name = name
           /\ \A x \in DataBlocks, s \in Slots :
                f[x].ent[s] = IF x = d /\ s = r THEN FreeDirent ELSE data[x].ent[s]
           /\ \A x \in DataBlocks : f[x].val = data[x].val /\ (x # d => f[x] = data[x])
<1>. DEFINE n == itab[k]  hits == CellsNamed(data, n, name)  cell == FirstCell(hits)
<1>0. n \in Inode /\ ExtentsInData(n.extents) /\ data \in [DataBlocks -> Block] BY KFacts
<1>1. hits # {} /\ j = EntryAt(data, n, cell).inode BY DEF dir_lookup
<1>2. hits \subseteq Cells(n) /\ \A q \in hits : EntryAt(data, n, q).name = name
  BY DEF CellsNamed
<1>3. hits \subseteq Nat \X Nat \X Nat BY <1>0, <1>2, CellFacts
<1>4. cell \in hits BY <1>1, <1>3, FirstCellIn
<1>5. PICK d, r : d = BlockAt(n, cell) /\ r = cell[3] OBVIOUS
<1>6. d \in BlocksOf(n) /\ r \in Slots /\ d \in DataBlocks
  BY <1>0, <1>2, <1>4, <1>5, CellBlock, CellFacts
<1>7. Ent(d, r) = EntryAt(data, n, cell) BY <1>5 DEF Ent, EntryAt
<1>8. f = [data EXCEPT ![d].ent[r] = FreeDirent] BY <1>1, <1>5 DEF ErasedFrom
<1>9. Ent(d, r).inode = j /\ Ent(d, r).name = name BY <1>1, <1>2, <1>4, <1>7
<1>10. data[d] \in Block /\ data[d].ent \in [Slots -> Dirent] BY <1>0, <1>6 DEF Block
<1>11. f[d] = [data[d] EXCEPT !.ent = [data[d].ent EXCEPT ![r] = FreeDirent]]
  BY <1>0, <1>6, <1>8
<1>12. f[d].ent = [data[d].ent EXCEPT ![r] = FreeDirent] /\ f[d].val = data[d].val
  BY <1>10, <1>11 DEF Block
<1>13. \A x \in DataBlocks : x # d => f[x] = data[x] BY <1>0, <1>6, <1>8
<1>. HIDE DEF n, hits, cell
<1>14. \A x \in DataBlocks, s \in Slots :
         f[x].ent[s] = IF x = d /\ s = r THEN FreeDirent ELSE data[x].ent[s]
  BY <1>6, <1>10, <1>12, <1>13
<1>. QED BY <1>6, <1>9, <1>12, <1>13, <1>14 DEF n

(* A directory that may be removed has no links. *)
LEMMA EmptyHasNoLinks ==
  ASSUME KTyped, NEW j \in Inodes, Removable(j), NEW b \in DataBlocks, NEW s \in Slots
  PROVE  ~IsLink(j, b, s)
<1>1. SUFFICES ASSUME Used(j, b, s) PROVE Ent(b, s).name \in {".", ".."} BY DEF IsLink
<1>2. itab[j].mode = "dir" /\ b \in BlocksOf(itab[j]) /\ Ent(b, s).inode # NIL
  BY <1>1 DEF Used
<1>3. dir_is_empty(itab, data, j) BY <1>2 DEF Removable
<1>4. PICK q \in Cells(itab[j]) : BlockAt(itab[j], q) = b /\ q[3] = s BY <1>2, BlockCell
<1>5. EntryAt(data, itab[j], q) = Ent(b, s) BY <1>4 DEF EntryAt, Ent
<1>. QED BY <1>2, <1>3, <1>4, <1>5 DEF dir_is_empty

(* dir_remove_entry erases the one link of what has been freed. *)
LEMMA RemoveEntryRemoves ==
  ASSUME KTyped, KGood, Sound', dir_remove_entry, NEW j, j = c.ino
  PROVE  /\ \E k \in live, d \in DataBlocks, r \in Slots : RemovesEntry(k, j, d, r)
         /\ itab' = itab
         /\ \A x \in DataBlocks : data'[x].val = data[x].val
<1>1. /\ live' = live \ {j} /\ itab' = itab
      /\ data' = IF Readable(itab, Parent(c.path)) THEN M!Erased(c.path) ELSE data
      /\ Ordinary(c.path.name)
  <2>1. c.path.name \in Names => Ordinary(c.path.name)
    BY NamesAssumption, Zenon DEF Ordinary
  <2>2. "torn" \notin harm' BY DEF Sound
  <2>. QED BY <2>1, <2>2 DEF dir_remove_entry
<1>2. /\ j \in live /\ Resolve(c.path) = j /\ Removable(j) /\ j \in Inodes
      /\ ~ThroughFile(c.path)
  BY KFacts DEF KGood, FreeHolds, Freeing, dir_remove_entry
<1>3. PICK name : name = c.path.name OBVIOUS
<1>4. PICK k : k = Parent(c.path) OBVIOUS
<1>5. k # NIL /\ j = dir_lookup(itab, data, k, name) /\ j # NIL /\ Readable(itab, k)
  <2>1. Resolve(c.path) = IF c.path.name = "" \/ ~Readable(itab, Parent(c.path))
                          THEN Parent(c.path)
                          ELSE dir_lookup(itab, data, Parent(c.path), c.path.name)
    BY DEF Resolve, resolve_path, Parent
  <2>2. j # NIL BY <1>2, RootInodes
  <2>3. Readable(itab, k)
    <3>1. CASE k # NIL
      <4>1. k \in live BY <1>4, <3>1, ResolveNamed, KFacts DEF KGood
      <4>. QED BY <4>1, LiveReadable DEF KGood
    <3>2. CASE k = NIL
      <4>1. ~Readable(itab, k) BY <3>2, RootInodes DEF Readable
      <4>2. Resolve(c.path) = NIL BY <1>4, <2>1, <3>2, <4>1, Zenon
      <4>. QED BY <1>2, <2>2, <4>2
    <3>. QED BY <3>1, <3>2
  <2>4. k # NIL BY <2>3, RootInodes DEF Readable
  <2>. QED BY <1>1, <1>2, <1>3, <1>4, <2>1, <2>2, <2>3, <2>4, Zenon DEF Ordinary
<1>6. k \in live /\ k \in Inodes BY <1>4, <1>5, ResolveNamed, KFacts DEF KGood
<1>7. data' = ErasedFrom(k, name) BY <1>1, <1>3, <1>4, <1>5, ErasedIs
<1>8. PICK d \in BlocksOf(itab[k]), r \in Slots :
           /\ d \in DataBlocks /\ Ent(d, r).inode = j /\ Ent(d, r).name = name
           /\ \A x \in DataBlocks, s \in Slots :
                data'[x].ent[s] = IF x = d /\ s = r THEN FreeDirent ELSE data[x].ent[s]
           /\ \A x \in DataBlocks : data'[x].val = data[x].val /\ (x # d => data'[x] = data[x])
  BY <1>5, <1>6, <1>7, ErasedHit
<1>9. itab[k].mode = "dir" BY <1>1, <1>2, <1>4, <1>5, Zenon DEF ThroughFile, Ordinary
<1>10. IsLink(k, d, r)
  <2>1. Ent(d, r).name \notin {".", ".."} BY <1>1, <1>3, <1>8, Zenon DEF Ordinary
  <2>. QED BY <1>5, <1>6, <1>8, <1>9, <2>1 DEF IsLink, Used
<1>11. \A b \in DataBlocks, s \in Slots : ~IsLink(j, b, s) BY <1>2, EmptyHasNoLinks
<1>12. Ent(d, r)'.inode = NIL
  <2>1. data'[d].ent[r] = FreeDirent BY <1>8
  <2>2. FreeDirent.inode = NIL BY DEF FreeDirent
  <2>. QED BY <2>1, <2>2 DEF Ent
<1>13. \A b \in DataBlocks, s \in Slots : ~(b = d /\ s = r) => Ent(b, s)' = Ent(b, s)
  BY <1>8 DEF Ent
<1>14. RemovesEntry(k, j, d, r) BY <1>1, <1>8, <1>10, <1>11, <1>12, <1>13 DEF RemovesEntry
<1>. QED BY <1>1, <1>6, <1>8, <1>14

(* What it leaves is whole. *)
LEMMA RemoveEntryGood ==
  ASSUME KTyped, KGood, Sound', dir_remove_entry, NEW j, j = c.ino
  PROVE  KGood' /\ LinksKeptBut(j) /\ (OneName => OneName')
<1>1. PICK k \in live, d \in DataBlocks, r \in Slots : RemovesEntry(k, j, d, r)
  BY RemoveEntryRemoves
<1>2. itab' = itab BY RemoveEntryRemoves
<1>3. /\ pc = "dir_remove_entry" /\ pc' = "flush_metadata" /\ live' = live \ {j}
      /\ UNCHANGED <<ibm, bbm, cwd, c>>
  BY DEF dir_remove_entry
<1>4. j \in live /\ j # cwd /\ Freeing /\ ~Writing
  BY <1>3 DEF KGood, FreeHolds, Freeing, Writing, Removable
<1>5. /\ KTree' /\ LinksKeptBut(j) /\ \A x : Named(x) /\ x # j => Named(x)'
      /\ OneName => OneName'
  BY <1>1, <1>2, <1>4, TreeRemove DEF KGood
<1>6. ~Creating' /\ ~Built' /\ ~Freeing' /\ ~Writing' /\ ~BlockInHand'
  BY <1>3 DEF Creating, Built, Freeing, Writing, BlockInHand
<1>7. Owners' = live' /\ live' \subseteq Owners BY <1>3, <1>6 DEF Owners
<1>8. Apart' BY <1>2, <1>7 DEF KGood, Apart
<1>9. Marked' BY <1>2, <1>3, <1>4, <1>6, <1>7 DEF KGood, Marked
<1>10. Cwd' BY <1>2, <1>3, <1>4, <1>5 DEF KGood, Cwd
<1>11. CreateHolds' /\ BlockHeld' /\ FreeHolds' BY <1>6 DEF CreateHolds, BlockHeld, FreeHolds
<1>12. NewNode' BY <1>3, <1>6 DEF NewNode
<1>13. WriteHolds'
  <2>1. c.ext = <<>> BY <1>3, <1>4 DEF KGood, WriteHolds
  <2>2. BlocksOf(NewFile') = {} BY <1>3, <2>1, NewFileEmptyNext
  <2>. QED BY <1>3, <1>6, <2>2 DEF WriteHolds
<1>. QED BY <1>5, <1>8, <1>9, <1>10, <1>11, <1>12, <1>13 DEF KGood

-----------------------------------------------------------------------------
(* Every step. *)

(* What a step does to the tree: nothing, or it enters one link, or it     *)
(* erases one.                                                             *)
TreeStep ==
  \/ TreeKept /\ ~(dir_add_entry_slot \/ dir_add_extent \/ dir_remove_entry)
  \/ (dir_add_entry_slot \/ dir_add_extent) /\ LinksKept
  \/ dir_remove_entry /\ \E j : j = c.ino /\ LinksKeptBut(j)

(* Commands. *)
LEMMA CommandGood ==
  ASSUME KTyped, KGood, Sound', Command PROVE KGood' /\ TreeKept
<1>0. ~Strays BY NoStray DEF KGood
<1>1. CASE kzeros_open \/ kzeros_close BY <1>1, OpenCloseGood
<1>2. ASSUME NEW p \in Paths,
             \/ kzeros_cd(p) \/ kzeros_mkdir(p) \/ kzeros_touch(p) \/ kzeros_rm(p)
             \/ \E op \in {"mkdir", "touch"} : blind_create(p, op)
             \/ \E v \in Vals, n \in 0 .. MaxLen : kzeros_write_file(p, v, n)
      PROVE  KGood' /\ TreeKept
  <2>0. p \in Path
    <3>1. Paths \subseteq Path BY KernelFacts, Zenon
    <3>. QED BY <3>1
  <2>1. CASE kzeros_cd(p) BY <2>0, <2>1, CdGood
  <2>2. CASE kzeros_mkdir(p) BY <2>0, <2>2, MkdirGood
  <2>3. CASE kzeros_touch(p)
    <3>1. 0 \in 0 .. MaxLen
      <4>1. MaxLen \in Nat BY KernelFacts, Zenon
      <4>. QED BY <4>1
    <3>2. pc = "idle" /\ Create(p, "touch", NoVal, 0) BY <2>3 DEF kzeros_touch
    <3>. QED BY <2>0, <3>1, <3>2, CreateGood
  <2>4. CASE kzeros_rm(p) BY <2>0, <2>4, RmGood
  <2>5. CASE \E op \in {"mkdir", "touch"} : blind_create(p, op) BY <2>0, <2>5, BlindGood
  <2>6. ASSUME NEW v \in Vals, NEW n \in 0 .. MaxLen, kzeros_write_file(p, v, n)
        PROVE  KGood' /\ TreeKept
    <3>1. CASE Create(p, "create", v, n)
      <4>1. pc = "idle" BY <2>6 DEF kzeros_write_file
      <4>. QED BY <2>0, <3>1, <4>1, CreateGood
    <3>2. CASE ~Create(p, "create", v, n)
      <4>1. /\ pc = "idle" /\ Writable(Resolve(p)) /\ StartWrite(p, v, n)
            /\ UNCHANGED <<itab, data, ibm, bbm, live, cwd>>
        BY <2>6, <3>2 DEF kzeros_write_file, diskVars
      <4>. QED BY <2>0, <4>1, StartWriteGood
    <3>. QED BY <3>1, <3>2
  <2>. QED BY <1>2, <2>1, <2>2, <2>3, <2>4, <2>5, <2>6
<1>. QED BY <1>0, <1>1, <1>2 DEF Command, Strays

(* Nothing happens. *)
LEMMA StutterGood ==
  ASSUME KTyped, KGood, UNCHANGED vars, KTree', TreeKept PROVE KGood'
<1>1. UNCHANGED <<itab, data, ibm, bbm, cwd, pc, c, live>> BY DEF vars
<1>2. Creating' = Creating /\ Built' = Built /\ Freeing' = Freeing /\ Writing' = Writing
      /\ BlockInHand' = BlockInHand /\ NewFile' = NewFile /\ NewDirent' = NewDirent
  BY <1>1 DEF Creating, Built, Freeing, Writing, BlockInHand, NewFile, NewDirent
<1>3. Owners' = Owners BY <1>1, <1>2 DEF Owners
<1>4. Apart' /\ Marked' BY <1>1, <1>2, <1>3 DEF KGood, Apart, Marked
<1>5. Cwd' BY <1>1 DEF KGood, Cwd, TreeKept
<1>6. CreateHolds' BY <1>1, <1>2 DEF KGood, CreateHolds, TreeKept
<1>7. BlockHeld' BY <1>1, <1>2, <1>3 DEF KGood, BlockHeld
<1>8. NewNode' BY <1>1, <1>2 DEF KGood, NewNode
<1>9. FreeHolds'
  <2>1. /\ Resolve(c.path)' = Resolve(c.path) /\ (Removable(c.ino)' <=> Removable(c.ino))
        /\ ThroughFile(c.path)' <=> ThroughFile(c.path)
    BY <1>1 DEF Resolve, Removable, ThroughFile, Parent
  <2>2. Named(c.ino)' <=> Named(c.ino) BY <1>1 DEF TreeKept
  <2>. QED BY <1>1, <1>2, <2>1, <2>2 DEF KGood, FreeHolds
<1>10. WriteHolds' BY <1>1, <1>2 DEF KGood, WriteHolds, Ent
<1>. QED BY <1>4, <1>5, <1>6, <1>7, <1>8, <1>9, <1>10 DEF KGood

(* All of them. *)
LEMMA StepGood ==
  ASSUME KTyped, KTyped', KGood, Sound', [Next]_vars PROVE KGood' /\ TreeStep
<1>0. ASSUME KGood' /\ TreeKept, ~(dir_add_entry_slot \/ dir_add_extent \/ dir_remove_entry)
      PROVE  KGood' /\ TreeStep
  BY <1>0 DEF TreeStep
<1>1. CASE dir_add_entry_slot \/ dir_add_extent BY <1>1, LinkGood DEF TreeStep
<1>2. CASE dir_remove_entry BY <1>2, RemoveEntryGood DEF TreeStep
<1>3. CASE ~(dir_add_entry_slot \/ dir_add_extent \/ dir_remove_entry)
  <2>. SUFFICES KGood' /\ TreeKept BY <1>0, <1>3
  <2>1. CASE Command BY <2>1, CommandGood
  <2>2. CASE io_error \/ disk_full BY <2>2, GiveUpGood
  <2>3. CASE PowerLoss BY <2>3, PowerLossGood
  <2>4. CASE UNCHANGED vars
    <3>1. KTree' /\ TreeKept BY <2>4, DiskSame DEF KGood, vars
    <3>2. KGood' BY <2>4, <3>1, StutterGood
    <3>. QED BY <3>1, <3>2
  <2>5. CASE Step /\ ~disk_full
    <3>1. CASE mkdir_block BY <3>1, AllocBlockGood DEF mkdir_block
    <3>2. CASE dir_add_entry_grow BY <3>2, AllocBlockGood DEF dir_add_entry_grow
    <3>3. CASE write_loop BY <3>3, AllocBlockGood DEF write_loop
    <3>4. CASE mkdir_init \/ touch_init BY <3>4, InitGood
    <3>5. CASE dir_add_block BY <3>5, AddBlockGood
    <3>6. CASE free_block BY <3>6, FreeBlockGood
    <3>7. CASE write_data BY <3>7, WriteDataGood
    <3>8. CASE write_inode BY <3>8, WriteInodeGood
    <3>9. CASE free_inode BY <3>9, FreeInodeGood
    <3>10. CASE flush_metadata BY <3>10, FlushGood
    <3>. QED BY <1>3, <2>5, <3>1, <3>2, <3>3, <3>4, <3>5, <3>6, <3>7, <3>8, <3>9, <3>10 DEF Step
  <2>. QED BY <2>1, <2>2, <2>3, <2>4, <2>5 DEF Next
<1>. QED BY <1>1, <1>2, <1>3

(* A formatted disk. *)
LEMMA KInitGood == Init => KGood /\ OneName
<1>. SUFFICES ASSUME Init PROVE KGood /\ OneName OBVIOUS
<1>1. DataStart \in DataBlocks BY GeometryAssumption DEF DataBlocks
<1>2. /\ live = {ROOT} /\ itab[ROOT].mode = "dir" /\ itab[ROOT].extents = <<OneBlock(DataStart)>>
      /\ data[DataStart] = DirBlock(ROOT, ROOT) /\ pc = "off" /\ ibm = {ROOT}
      /\ bbm = MetaBlocks \cup {DataStart} /\ cwd = ROOT /\ c.ext = <<>>
  BY <1>1, RootInodes, NoCallTyped DEF Init
<1>3. /\ BlocksOf(itab[ROOT]) = {DataStart} /\ NoRepeat(itab[ROOT]) BY <1>1, <1>2, SingleBlock
<1>4. itab[ROOT].extents # <<>> /\ FirstBlock(ROOT) = DataStart
  BY <1>2 DEF FirstBlock, OneBlock
<1>5. 0 \in Slots /\ 1 \in Slots BY GeometryAssumption DEF Slots
<1>6. \A s \in Slots :
        /\ s = 0 => Ent(DataStart, s).inode = ROOT /\ Ent(DataStart, s).name = "."
        /\ s = 1 => Ent(DataStart, s).inode = ROOT /\ Ent(DataStart, s).name = ".."
        /\ s \notin {0, 1} => Ent(DataStart, s).inode = NIL
  BY <1>2, RootInodes, DirBlockEntries DEF Ent
<1>7. \A i, b, s : Used(i, b, s) =>
        /\ i = ROOT /\ b = DataStart /\ s \in {0, 1}
        /\ s = 0 => Ent(b, s).name = "."
        /\ s = 1 => Ent(b, s).name = ".."
  BY <1>2, <1>3, <1>6 DEF Used
<1>8. \A i, b, s : ~IsLink(i, b, s) BY <1>7 DEF IsLink
<1>9. Named(ROOT) BY DEF Named
<1>10. KTree
  <2>1. KLinks BY <1>8 DEF KLinks
  <2>2. KDots
    <3>1. Ent(DataStart, 1).inode = ROOT /\ ROOT # NIL BY <1>5, <1>6, RootInodes
    <3>2. /\ Ent(DataStart, 0).inode = ROOT /\ Ent(DataStart, 0).name = "."
          /\ Ent(DataStart, 1).name = ".."
      BY <1>5, <1>6
    <3>. QED BY <1>2, <1>4, <3>1, <3>2 DEF KDots
  <2>. QED BY <1>2, <2>1, <2>2 DEF KTree
<1>11. ~Built /\ ~Creating /\ ~Freeing /\ ~Writing /\ ~BlockInHand
  BY <1>2 DEF Built, Creating, Freeing, Writing, BlockInHand
<1>12. Owners = {ROOT} BY <1>2, <1>11 DEF Owners
<1>13. Apart BY <1>3, <1>12 DEF Apart
<1>14. Marked BY <1>2, <1>3, <1>12 DEF Marked
<1>15. Cwd BY <1>2, <1>9 DEF Cwd
<1>16. CreateHolds /\ BlockHeld /\ FreeHolds BY <1>11 DEF CreateHolds, BlockHeld, FreeHolds
<1>17. NewNode BY <1>2, <1>11 DEF NewNode
<1>18. WriteHolds
  <2>1. BlocksOf(NewFile) = {} BY <1>2, NewFileEmpty
  <2>. QED BY <1>2, <1>11, <2>1 DEF WriteHolds
<1>19. KGood BY <1>10, <1>13, <1>14, <1>15, <1>16, <1>17, <1>18 DEF KGood
<1>20. OneName BY <1>2, <1>4, <1>7, <1>8, <1>9 DEF OneName
<1>. QED BY <1>19, <1>20

(* While no name is created twice, all are different. *)
LEMMA StepOneName ==
  ASSUME KTyped, KTyped', KGood, OneName, Sound', "twin" \notin harm', [Next]_vars
  PROVE  OneName'
<1>1. CASE TreeKept
  <2>1. KTree BY DEF KGood
  <2>. QED BY <1>1, <2>1, OneNameSame
<1>2. CASE dir_add_entry_slot \/ dir_add_extent
  <2>1. PICK k, m : k = c.parent /\ m = Cut[c.path.name] OBVIOUS
  <2>2. Linked /\ Built BY <1>2 DEF dir_add_entry_slot, dir_add_extent, Built
  <2>3. Twin(k, c.path.name) \subseteq harm' BY <2>1, <2>2, Zenon DEF Linked, Return
  <2>4. dir_lookup(itab, data, k, m) = NIL BY <2>1, <2>3 DEF Twin
  <2>5. k \in Inodes BY <2>1, KFacts
  <2>6. \A b \in DataBlocks, s \in Slots : Used(k, b, s) => Ent(b, s).name # m
    BY <2>4, <2>5, LookupHit DEF Used
  <2>. QED BY <1>2, <2>1, <2>6, LinkGood
<1>3. CASE dir_remove_entry BY <1>3, RemoveEntryGood
<1>. QED BY <1>1, <1>2, <1>3, StepGood DEF TreeStep

(* The inductive invariant of this part. *)
KInv == KGoodInv /\ OneNameInv

LEMMA KInitInv == Init => KInv
BY KInitTyped, KInitGood DEF KInv, KGoodInv, OneNameInv

(* Every step keeps it. *)
LEMMA KStepInv == KInv /\ [Next]_vars => KInv'
<1>. SUFFICES ASSUME KInv, [Next]_vars PROVE KInv' OBVIOUS
<1>2. harm \subseteq harm' BY HarmGrows
<1>3. ASSUME Sound' PROVE KTyped /\ KTyped' /\ KGood /\ KGood'
  <2>1. Sound BY <1>2, <1>3 DEF Sound
  <2>2. KTyped /\ KGood BY <2>1 DEF KInv, KGoodInv
  <2>3. ~Strays BY <1>3, <2>2, NoStray DEF KGood
  <2>4. KTyped' BY <2>2, <2>3, KStepTyped
  <2>. QED BY <1>3, <2>2, <2>4, StepGood
<1>4. KGoodInv' BY <1>3 DEF KGoodInv
<1>5. OneNameInv'
  <2>1. SUFFICES ASSUME harm' \cap {"torn", "twin"} = {} PROVE OneName' BY DEF OneNameInv
  <2>2. harm \cap {"torn", "twin"} = {} /\ "twin" \notin harm' /\ Sound'
    BY <1>2, <2>1 DEF Sound
  <2>3. OneName BY <2>2 DEF KInv, OneNameInv
  <2>. QED BY <1>3, <2>2, <2>3, StepOneName
<1>. QED BY <1>4, <1>5 DEF KInv

(* What the invariant says of owners. *)
LEMMA OwnershipMeans == KInv => KOwnership
<1>. SUFFICES ASSUME KInv, Sound PROVE KOwnership BY DEF KOwnership, Sound
<1>1. KGood /\ KTyped BY DEF KInv, KGoodInv
<1>2. Freeing \/ Writing => c.op \in {"write", "rm"} BY <1>1 DEF KGood, FreeHolds
<1>3. \A i \in live : (Freeing \/ Writing) /\ i = c.ino => Busy(i)
  BY <1>2 DEF Busy, Freeing, Writing
<1>4. \A i \in live : /\ i \in ibm \/ (c.op = "rm" /\ Busy(i))
                      /\ Busy(i) \/ BlocksOf(itab[i]) \subseteq bbm
                      /\ NoRepeat(itab[i])
  <2>1. pc = "dir_remove_entry" => c.op = "rm" /\ Freeing BY <1>1 DEF KGood, FreeHolds, Freeing
  <2>. QED BY <1>1, <1>3, <2>1 DEF KGood, Marked, Apart, Owners
<1>5. \A i, j \in live : i # j => BlocksOf(itab[i]) \cap BlocksOf(itab[j]) = {}
  BY <1>1 DEF KGood, Apart, Owners
<1>6. /\ BlocksOf([extents |-> c.ext]) \subseteq bbm
      /\ \A i \in live \ {c.ino} : BlocksOf([extents |-> c.ext]) \cap BlocksOf(itab[i]) = {}
  BY <1>1 DEF KGood, WriteHolds, NewFile
<1>. QED BY <1>4, <1>5, <1>6 DEF KOwnership

(* However many transfers fail and wherever power goes, what the bitmaps   *)
(* on disk say is free belongs to nobody, and no block belongs to two;     *)
(* until a removal or a rewrite, which free before they unlink, is cut     *)
(* short.                                                                  *)
THEOREM KOwnershipHolds == Spec => []KOwnership
<1>. QED BY KInitInv, KStepInv, OwnershipMeans, PTL DEF Spec

(* The specification's links are those the invariant speaks of. *)
LEMMA KLinkOf ==
  ASSUME KTyped
  PROVE  /\ \A h \in M!Links :
              \E i \in live, b \in DataBlocks, s \in Slots :
                /\ h = <<i, b, s>> /\ IsLink(i, b, s) /\ M!At(h) = Ent(b, s)
                /\ M!Target(h) = Ent(b, s).inode /\ h[1] = i
         /\ \A i \in live, b \in DataBlocks, s \in Slots : IsLink(i, b, s) =>
              <<i, b, s>> \in M!Links /\ M!Target(<<i, b, s>>) = Ent(b, s).inode
         /\ \A i \in live : itab[i].mode = "dir" =>
              \A h \in M!Entries(i) :
                \E b \in DataBlocks, s \in Slots :
                  Used(i, b, s) /\ M!At(h) = Ent(b, s) /\ M!Target(h) = Ent(b, s).inode
         /\ M!LiveDirs = {i \in live : itab[i].mode = "dir"}
<1>1. /\ M!Slots = Slots /\ M!NIL = NIL /\ \A n : M!BlocksOf(n) = BlocksOf(n)
  BY DEF M!Slots, Slots, M!NIL, NIL, M!BlocksOf, BlocksOf, M!BlockPos, BlockPos,
         M!BlockAt, BlockAt
<1>2. \A i, b, s : M!At(<<i, b, s>>) = Ent(b, s) /\ M!Target(<<i, b, s>>) = Ent(b, s).inode
  BY DEF M!At, M!Target, Ent
<1>3. \A i \in live : itab[i].mode = "dir" =>
        \A h \in M!Entries(i) :
          \E b \in DataBlocks, s \in Slots :
            /\ h = <<i, b, s>> /\ Used(i, b, s) /\ M!At(h) = Ent(b, s)
            /\ M!Target(h) = Ent(b, s).inode
  <2>1. SUFFICES ASSUME NEW i \in live, itab[i].mode = "dir", NEW h \in M!Entries(i)
                 PROVE  \E b \in DataBlocks, s \in Slots :
                          /\ h = <<i, b, s>> /\ Used(i, b, s) /\ M!At(h) = Ent(b, s)
                          /\ M!Target(h) = Ent(b, s).inode
    OBVIOUS
  <2>2. h \in {i} \X BlocksOf(itab[i]) \X Slots /\ M!Target(h) # NIL BY <1>1 DEF M!Entries
  <2>3. PICK b \in BlocksOf(itab[i]), s \in Slots : h = <<i, b, s>> BY <2>2
  <2>4. b \in DataBlocks BY KFacts
  <2>. QED BY <1>2, <2>1, <2>2, <2>3, <2>4 DEF Used
<1>4. \A i \in live, b \in DataBlocks, s \in Slots : Used(i, b, s) => <<i, b, s>> \in M!Entries(i)
  BY <1>1, <1>2 DEF M!Entries, Used
<1>5. M!LiveDirs = {i \in live : itab[i].mode = "dir"} BY DEF M!LiveDirs
<1>6. ASSUME NEW h \in M!Links
      PROVE  \E i \in live, b \in DataBlocks, s \in Slots :
                /\ h = <<i, b, s>> /\ IsLink(i, b, s) /\ M!At(h) = Ent(b, s)
                /\ M!Target(h) = Ent(b, s).inode /\ h[1] = i
  <2>1. PICK i \in live : /\ itab[i].mode = "dir" /\ h \in M!Entries(i)
                          /\ M!At(h).name \notin {".", ".."}
    BY <1>5 DEF M!Links
  <2>2. PICK b \in DataBlocks, s \in Slots :
            /\ h = <<i, b, s>> /\ Used(i, b, s) /\ M!At(h) = Ent(b, s)
            /\ M!Target(h) = Ent(b, s).inode
    BY <1>3, <2>1
  <2>. QED BY <2>1, <2>2 DEF IsLink
<1>7. ASSUME NEW i \in live, NEW b \in DataBlocks, NEW s \in Slots, IsLink(i, b, s)
      PROVE  <<i, b, s>> \in M!Links
  <2>1. itab[i].mode = "dir" /\ <<i, b, s>> \in M!Entries(i) BY <1>4, <1>7 DEF IsLink, Used
  <2>2. M!At(<<i, b, s>>).name \notin {".", ".."} BY <1>2, <1>7 DEF IsLink
  <2>. QED BY <1>5, <2>1, <2>2 DEF M!Links
<1>. QED BY <1>2, <1>3, <1>5, <1>6, <1>7

(* What the invariant says of the tree. *)
LEMMA KTreeMeans == KInv => KTreeSound
<1>. SUFFICES ASSUME KInv, harm \cap {"torn", "twin"} = {}
              PROVE  /\ M!LinksSound /\ M!DotsSound
                     /\ \A h \in M!Links : M!At(h).type = itab[M!Target(h)].mode
                     /\ \A i \in M!LiveDirs : itab[i].extents # <<>>
  BY DEF KTreeSound
<1>0. KTyped /\ KTree /\ OneName BY DEF KInv, KGoodInv, OneNameInv, Sound, KGood
<1>1. ASSUME NEW h \in M!Links
      PROVE  \E i \in live, b \in DataBlocks, s \in Slots :
               /\ h = <<i, b, s>> /\ IsLink(i, b, s) /\ M!At(h) = Ent(b, s)
               /\ M!Target(h) = Ent(b, s).inode /\ h[1] = i
  BY <1>0, KLinkOf
<1>2. {M!Target(h) : h \in M!Links} = live \ {ROOT}
  <2>1. ASSUME NEW h \in M!Links PROVE M!Target(h) \in live \ {ROOT}
    BY <1>0, <1>1 DEF KTree, KLinks
  <2>2. ASSUME NEW j \in live \ {ROOT} PROVE \E h \in M!Links : M!Target(h) = j
    <3>1. PICK i \in live, b \in DataBlocks, s \in Slots :
            IsLink(i, b, s) /\ Ent(b, s).inode = j
      BY <1>0 DEF OneName, Named, LinkTo
    <3>2. <<i, b, s>> \in M!Links /\ M!Target(<<i, b, s>>) = j BY <1>0, <3>1, KLinkOf
    <3>. QED BY <3>2
  <2>. QED BY <2>1, <2>2
<1>3. ASSUME NEW g \in M!Links, NEW h \in M!Links,
             M!Target(g) = M!Target(h) \/ (g[1] = h[1] /\ M!At(g).name = M!At(h).name)
      PROVE  g = h
  <2>1. PICK i \in live, b \in DataBlocks, s \in Slots :
          /\ g = <<i, b, s>> /\ IsLink(i, b, s) /\ M!At(g) = Ent(b, s)
          /\ M!Target(g) = Ent(b, s).inode /\ g[1] = i
    BY <1>1
  <2>2. PICK k \in live, d \in DataBlocks, r \in Slots :
          /\ h = <<k, d, r>> /\ IsLink(k, d, r) /\ M!At(h) = Ent(d, r)
          /\ M!Target(h) = Ent(d, r).inode /\ h[1] = k
    BY <1>1
  <2>3. \/ Ent(b, s).inode = Ent(d, r).inode
        \/ i = k /\ Ent(b, s).name = Ent(d, r).name
    BY <1>3, <2>1, <2>2
  <2>4. i = k /\ b = d /\ s = r BY <1>0, <2>1, <2>2, <2>3 DEF OneName, KTree, KLinks
  <2>. QED BY <2>1, <2>2, <2>4
<1>4. M!LinksSound
  <2>1. M!ROOT = ROOT BY DEF M!ROOT, ROOT
  <2>. QED BY <1>2, <1>3, <2>1 DEF M!LinksSound
<1>5. ASSUME NEW i \in live, itab[i].mode = "dir", NEW h \in M!Entries(i)
      PROVE  /\ M!At(h).name = "." => M!Target(h) = i
             /\ M!At(h).name = ".." =>
                  IF i = ROOT THEN M!Target(h) = ROOT
                  ELSE \E g \in M!Links : g[1] = M!Target(h) /\ M!Target(g) = i
  <2>1. PICK b \in DataBlocks, s \in Slots :
          Used(i, b, s) /\ M!At(h) = Ent(b, s) /\ M!Target(h) = Ent(b, s).inode
    BY <1>0, <1>5, KLinkOf
  <2>2. /\ Ent(FirstBlock(i), 0).inode = i /\ Named(i)
        /\ IF i = ROOT THEN Ent(FirstBlock(i), 1).inode = ROOT
           ELSE LinkTo(Ent(FirstBlock(i), 1).inode, i)
        /\ Ent(b, s).name = "." => b = FirstBlock(i) /\ s = 0
        /\ Ent(b, s).name = ".." => b = FirstBlock(i) /\ s = 1
    BY <1>0, <1>5, <2>1 DEF KTree, KDots, OneName
  <2>3. PICK u : u = Ent(b, s).inode OBVIOUS
  <2>4. ASSUME i # ROOT, Ent(b, s).name = ".."
        PROVE  \E g \in M!Links : g[1] = u /\ M!Target(g) = i
    <3>1. LinkTo(u, i) BY <2>2, <2>3, <2>4
    <3>2. PICK d \in DataBlocks, r \in Slots : IsLink(u, d, r) /\ Ent(d, r).inode = i
      BY <3>1 DEF LinkTo
    <3>3. u \in live BY <3>2 DEF IsLink, Used
    <3>4. <<u, d, r>> \in M!Links /\ M!Target(<<u, d, r>>) = i /\ <<u, d, r>>[1] = u
      BY <1>0, <3>2, <3>3, KLinkOf
    <3>. QED BY <3>4
  <2>. QED BY <2>1, <2>2, <2>3, <2>4
<1>6. M!DotsSound
  <2>1. M!ROOT = ROOT /\ M!LiveDirs = {i \in live : itab[i].mode = "dir"}
    BY <1>0, KLinkOf DEF M!ROOT, ROOT
  <2>. QED BY <1>5, <2>1 DEF M!DotsSound
<1>7. \A h \in M!Links : M!At(h).type = itab[M!Target(h)].mode
  BY <1>0, <1>1 DEF KTree, KLinks
<1>8. \A i \in M!LiveDirs : itab[i].extents # <<>>
  BY <1>0, KLinkOf DEF KTree, KDots
<1>. QED BY <1>4, <1>6, <1>7, <1>8

(* An entry never shows up before what it leads to: the directories form a *)
(* tree whatever fails or is cut short, with one link to each inode, no    *)
(* name twice and every ".." right.                                        *)
THEOREM KTreeAlwaysSound == Spec => []KTreeSound
<1>. QED BY KInitInv, KStepInv, KTreeMeans, PTL DEF Spec

-----------------------------------------------------------------------------
(* Part 3.  What files hold, what the counters count, what cwd_path means. *)

(* A file nothing touches. *)
LEMMA HoldKept ==
  ASSUME NEW i, KHolds(i), itab'[i] = itab[i], wrote'[i] = wrote[i],
         \A b \in BlocksOf(itab[i]) : data'[b].val = data[b].val
  PROVE  KHolds(i)'
BY DEF KHolds

(* A step that writes no block. *)
LEMMA ReadStill ==
  ASSUME KTyped, KReads, UNCHANGED <<itab, data, wrote, live>>,
         ~Writing \/ BlocksOf(itab[c.ino]) = {},
         pc' \in {"write_loop", "write_data", "free_blocks"} =>
           c'.ext = <<>> /\ c'.left = c'.len /\ c'.left \in Nat
  PROVE  KReads'
<1>1. \A i \in live : KHolds(i)' BY HoldKept DEF KReads
<1>2. ASSUME Writing' PROVE /\ Cardinality(BlockPos(NewFile')) + c'.left = c'.len
                            /\ \A b \in BlocksOf(NewFile') : data'[b].val = c'.val
  <2>1. c'.ext = <<>> /\ c'.left = c'.len /\ c'.left \in Nat BY <1>2 DEF Writing
  <2>2. BlocksOf(NewFile') = {} BY <2>1, NewFileEmptyNext
  <2>3. BlockPos(NewFile') = {}
    <3>1. NewFile'.extents = <<>> BY <2>1 DEF NewFile
    <3>. QED BY <3>1 DEF BlockPos
  <2>4. Cardinality(BlockPos(NewFile')) = 0 BY <2>3, FS_EmptySet
  <2>. QED BY <2>1, <2>2, <2>4
<1>. QED BY <1>1, <1>2 DEF KReads

(* A command that stops where it tears nothing. *)
LEMMA StopHolds ==
  ASSUME KGood, "torn" \notin GaveUp
  PROVE  ~Writing \/ BlocksOf(itab[c.ino]) = {}
<1>1. SUFFICES ASSUME Writing PROVE BlocksOf(itab[c.ino]) = {} OBVIOUS
<1>2. c.op = "write" /\ c.todo = {} BY <1>1 DEF KGood, FreeHolds, Writing
<1>3. ~Emptying BY DEF GaveUp
<1>. QED BY <1>1, <1>2, <1>3 DEF Emptying, Freed, Writing

(* Commands write no block. *)
LEMMA CommandReads ==
  ASSUME KTyped, KReads, Command, ~Strays PROVE KReads'
<1>0. MaxLen \in Nat BY KernelFacts, Zenon
<1>1. CASE kzeros_open \/ kzeros_close
  <2>1. ~Writing /\ pc' \in {"idle", "flush_metadata"} BY <1>1 DEF kzeros_open, kzeros_close, Writing
  <2>. QED BY <1>1, <2>1, ReadStill DEF kzeros_open, kzeros_close, diskVars
<1>2. ASSUME NEW p \in Paths, kzeros_cd(p) \/ kzeros_mkdir(p) \/ kzeros_touch(p)
                              \/ \E op \in {"mkdir", "touch"} : blind_create(p, op)
      PROVE  KReads'
  <2>1. pc = "idle" BY <1>2 DEF kzeros_cd, kzeros_mkdir, kzeros_touch, blind_create
  <2>2. pc' \in {"idle", "mkdir_block", "touch_init"}
    BY <1>2, Zenon DEF kzeros_cd, kzeros_mkdir, kzeros_touch, blind_create, Create, alloc_inode,
       Return
  <2>3. UNCHANGED <<itab, data, wrote, live>>
    BY <1>2, Zenon DEF kzeros_cd, kzeros_mkdir, kzeros_touch, blind_create, Create, diskVars
  <2>4. ~Writing BY <2>1 DEF Writing
  <2>. QED BY <2>2, <2>3, <2>4, ReadStill
<1>3. ASSUME NEW p \in Paths, kzeros_rm(p) PROVE KReads'
  <2>1. pc = "idle" /\ UNCHANGED <<itab, data, wrote, live>> BY <1>3 DEF kzeros_rm, diskVars
  <2>2. c'.ext = <<>> /\ c'.left = 0 /\ c'.len = 0 BY <1>3 DEF kzeros_rm, StartFree, NoCall
  <2>3. ~Writing BY <2>1 DEF Writing
  <2>. QED BY <2>1, <2>2, <2>3, ReadStill
<1>4. ASSUME NEW p \in Paths, NEW v \in Vals, NEW n \in 0 .. MaxLen, kzeros_write_file(p, v, n)
      PROVE  KReads'
  <2>1. pc = "idle" /\ UNCHANGED <<itab, data, wrote, live>>
    BY <1>4, Zenon DEF kzeros_write_file, Create, diskVars
  <2>2. ~Writing BY <2>1 DEF Writing
  <2>3. CASE Create(p, "create", v, n)
    <3>1. pc' \in {"idle", "touch_init"} BY <2>3, Zenon DEF Create, alloc_inode, Return
    <3>. QED BY <2>1, <2>2, <3>1, ReadStill
  <2>4. CASE StartWrite(p, v, n)
    <3>1. c'.ext = <<>> /\ c'.left = n /\ c'.len = n BY <2>4 DEF StartWrite, StartFree, NoCall
    <3>2. n \in Nat BY <1>0
    <3>. QED BY <2>1, <2>2, <3>1, <3>2, ReadStill
  <2>. QED BY <1>4, <2>3, <2>4 DEF kzeros_write_file
<1>. QED BY <1>1, <1>2, <1>3, <1>4 DEF Command, Strays

(* Creating writes no file. *)
LEMMA InitReads ==
  ASSUME KTyped, KGood, KReads, mkdir_init \/ touch_init \/ dir_add_block PROVE KReads'
<1>0. /\ c.ino \in Inodes /\ data \in [DataBlocks -> Block] /\ itab \in [Inodes -> Inode]
      /\ live \subseteq Inodes
  BY KFacts
<1>1. /\ pc \in {"mkdir_init", "touch_init", "dir_add_block"}
      /\ pc' \in {"dir_add_entry", "dir_add_extent"} /\ UNCHANGED <<live, wrote>>
      /\ itab' = itab \/ ~Built
      /\ \A i \in Inodes : i # c.ino => itab'[i] = itab[i]
      /\ \A b \in DataBlocks : b # c.blk => data'[b] = data[b]
      /\ data' = data \/ BlockInHand
  BY <1>0 DEF mkdir_init, touch_init, dir_add_block, Built, BlockInHand
<1>2. Creating /\ ~Writing /\ ~Writing' BY <1>1 DEF Creating, Built, Writing
<1>3. c.ino \notin live BY <1>2 DEF KGood, CreateHolds
<1>4. ASSUME NEW i \in live PROVE KHolds(i)'
  <2>1. KHolds(i) /\ itab'[i] = itab[i] BY <1>0, <1>1, <1>2, <1>3 DEF KReads
  <2>2. BlockInHand => c.blk \notin BlocksOf(itab[i]) BY <1>2 DEF KGood, BlockHeld, Owners
  <2>3. \A b \in BlocksOf(itab[i]) : data'[b] = data[b] BY <1>0, <1>1, <2>2, KFacts
  <2>. QED BY <1>1, <2>1, <2>3, HoldKept
<1>. QED BY <1>1, <1>2, <1>4 DEF KReads

(* A new file reads as empty. *)
LEMMA LinkReads ==
  ASSUME KTyped, KGood, Sound', KReads, dir_add_entry_slot \/ dir_add_extent PROVE KReads'
<1>0. /\ c.ino \in Inodes /\ data \in [DataBlocks -> Block] /\ itab \in [Inodes -> Inode]
      /\ live \subseteq Inodes /\ wrote \in [Inodes -> [val : Vals \cup {NoVal}, len : 0 .. MaxLen]]
  BY KFacts DEF KTyped, CallTyped
<1>1. PICK j, k : j = c.ino /\ k = c.parent OBVIOUS
<1>2. /\ Linked /\ Built /\ wrote' = [wrote EXCEPT ![j] = [val |-> NoVal, len |-> 0]]
      /\ pc' \in {"flush_metadata", "idle"}
  BY <1>1 DEF dir_add_entry_slot, dir_add_extent, Linked, Return, Built
<1>3. live' = live \cup {j} /\ itab[k].mode = "dir" BY <1>1, <1>2, LinkedIn
<1>4. ~Writing /\ ~Writing' BY <1>2 DEF Built, Writing
<1>5. j \in Inodes \ live /\ k \in live /\ k \in Inodes BY <1>1, <1>2, BuiltFacts
<1>6. \A i \in Inodes : i # k => itab'[i] = itab[i]
  BY <1>0, <1>1, <1>5 DEF dir_add_entry_slot, dir_add_extent
<1>7. \A b \in DataBlocks : data'[b].val = data[b].val
  <2>1. PICK d, r, e : data' \in {data, [data EXCEPT ![d].ent[r] = e]}
    BY DEF dir_add_entry_slot, dir_add_extent
  <2>. QED BY <1>0, <2>1 DEF Block
<1>8. ASSUME NEW i \in live PROVE KHolds(i)'
  <2>1. KHolds(i) /\ wrote'[i] = wrote[i] /\ BlocksOf(itab[i]) \subseteq DataBlocks
    BY <1>0, <1>2, <1>4, <1>5, KFacts DEF KReads
  <2>2. CASE i = k
    <3>1. itab'[k].mode = "dir"
      <4>1. PICK new : itab' \in {itab, [itab EXCEPT ![k].extents = new]}
        BY <1>1 DEF dir_add_entry_slot, dir_add_extent
      <4>. QED BY <1>0, <1>3, <1>5, <4>1 DEF Inode
    <3>. QED BY <2>2, <3>1 DEF KHolds
  <2>3. CASE i # k
    <3>1. itab'[i] = itab[i] BY <1>0, <1>6, <2>3
    <3>. QED BY <1>7, <2>1, <3>1, HoldKept
  <2>. QED BY <2>2, <2>3
<1>9. KHolds(j)'
  <2>1. itab'[j] = itab[j] BY <1>5, <1>6
  <2>2. wrote'[j].len = 0 BY <1>0, <1>2, <1>5
  <2>3. itab[j].mode = "reg" => itab[j].extents = <<>>
    <3>0. NewNode /\ Built BY <1>2 DEF KGood
    <3>1. CASE c.op = "mkdir"
      <4>1. PICK b \in DataBlocks : itab[c.ino] = [mode |-> "dir", extents |-> <<OneBlock(b)>>]
        BY <3>0, <3>1, Zenon DEF NewNode
      <4>2. itab[j].mode = "dir" BY <1>1, <4>1
      <4>. QED BY <4>2
    <3>2. CASE c.op # "mkdir"
      <4>1. itab[j].extents = <<>> BY <1>1, <3>0, <3>2 DEF NewNode
      <4>. QED BY <4>1
    <3>. QED BY <3>1, <3>2
  <2>4. itab[j].mode = "reg" => BlockPos(itab[j]) = {} /\ BlocksOf(itab[j]) = {}
    BY <2>3, NoBlocks DEF BlockPos
  <2>5. Cardinality({}) = 0 BY FS_EmptySet
  <2>. QED BY <2>1, <2>2, <2>4, <2>5 DEF KHolds
<1>10. pc' # "free_blocks" BY <1>2
<1>. QED BY <1>3, <1>4, <1>8, <1>9, <1>10 DEF KReads

(* What has been written of a file can be counted. *)
LEMMA NewFileFinite ==
  ASSUME KTyped
  PROVE  IsFiniteSet(BlockPos(NewFile)) /\ Cardinality(BlockPos(NewFile)) \in Nat
<1>1. PICK n : n = [mode |-> "none", extents |-> c.ext] OBVIOUS
<1>2. n \in Inode BY <1>1, KFacts DEF Inode, Types
<1>3. NewFile.extents = n.extents BY <1>1 DEF NewFile
<1>. QED BY <1>2, <1>3, BlockPosFinite, SameExtents

(* One block more of it is on disk. *)
LEMMA WriteDataReads ==
  ASSUME KTyped, KGood, KReads, write_data PROVE KReads'
<1>0. /\ c \in KCall /\ c.ino \in Inodes /\ data \in [DataBlocks -> Block] /\ live \subseteq Inodes
      /\ c.ext \in Seq(Extent) /\ ExtentsInData(c.ext) /\ c.left \in Nat /\ c.len \in Nat
  <2>1. MaxLen \in Nat BY KernelFacts, Zenon
  <2>. QED BY <2>1, KFacts DEF KTyped, CallTyped, KCall
<1>1. /\ pc = "write_data" /\ pc' = "write_loop" /\ BlockInHand /\ Writing
      /\ UNCHANGED <<itab, live, wrote>>
      /\ data' = [data EXCEPT ![c.blk] = FileBlock(c.val)]
  BY DEF write_data, BlockInHand, Writing
<1>2. /\ c'.ino = c.ino /\ c'.val = c.val /\ c'.len = c.len /\ c'.left = c.left - 1
      /\ c'.ext = GrowExtents(c.ext, c.blk)
  BY <1>0 DEF write_data, KCall
<1>3. c.blk \in DataBlocks /\ Len(c.ext) < MaxExtents BY <1>1 DEF KTyped, CallTyped
<1>4. \A i \in live : i # c.ino => c.blk \notin BlocksOf(itab[i])
  BY <1>1 DEF KGood, BlockHeld, Owners
<1>5. PICK old, new, blk : old = NewFile /\ new = NewFile' /\ blk = c.blk OBVIOUS
<1>6. GrowsBy(old, new, blk)
  <2>1. old.extents = c.ext /\ new.extents = GrowExtents(c.ext, blk) BY <1>2, <1>5 DEF NewFile
  <2>. QED BY <1>0, <1>3, <1>5, <2>1, GrowPos
<1>7. BlocksOf(new) = BlocksOf(old) \cup {blk} BY <1>6, OneMoreBlock
<1>8. PICK q : q \notin BlockPos(old) /\ BlockPos(new) = BlockPos(old) \cup {q} BY <1>6 DEF GrowsBy
<1>9. IsFiniteSet(BlockPos(old)) /\ Cardinality(BlockPos(old)) \in Nat BY <1>5, NewFileFinite
<1>10. Cardinality(BlockPos(new)) = Cardinality(BlockPos(old)) + 1
  BY <1>8, <1>9, FS_AddElement
<1>11. /\ Cardinality(BlockPos(old)) + c.left = c.len
       /\ \A b \in BlocksOf(old) : data[b].val = c.val
  BY <1>1, <1>5 DEF KReads
<1>12. Cardinality(BlockPos(new)) + c'.left = c'.len BY <1>0, <1>2, <1>9, <1>10, <1>11
<1>13. /\ \A b \in DataBlocks : b # blk => data'[b] = data[b]
       /\ data'[blk].val = c.val
  BY <1>0, <1>1, <1>3, <1>5 DEF FileBlock
<1>14. \A b \in BlocksOf(new) : data'[b].val = c'.val
  <2>1. BlocksOf(old) \subseteq DataBlocks BY <1>5, NewFileInData
  <2>. QED BY <1>2, <1>7, <1>11, <1>13, <2>1
<1>15. ASSUME NEW i \in live, ~(i = c.ino /\ BlocksOf(itab[i]) # {}) PROVE KHolds(i)'
  <2>1. KHolds(i) /\ BlocksOf(itab[i]) \subseteq DataBlocks BY <1>0, <1>15, KFacts DEF KReads
  <2>2. blk \notin BlocksOf(itab[i]) BY <1>4, <1>5, <1>15
  <2>3. \A b \in BlocksOf(itab[i]) : data'[b] = data[b] BY <1>13, <2>1, <2>2
  <2>. QED BY <1>1, <2>1, <2>3, HoldKept
<1>16. Writing' /\ pc' # "free_blocks" BY <1>1 DEF Writing
<1>. QED BY <1>1, <1>2, <1>5, <1>12, <1>14, <1>15, <1>16 DEF KReads

(* The inode is written: the file is what was to be written. *)
LEMMA WriteInodeReads ==
  ASSUME KTyped, KReads, write_inode PROVE KReads'
<1>0. /\ c.ino \in Inodes /\ live \subseteq Inodes /\ itab \in [Inodes -> Inode]
      /\ wrote \in [Inodes -> [val : Vals \cup {NoVal}, len : 0 .. MaxLen]]
  BY KFacts DEF KTyped, CallTyped
<1>1. PICK j, new, v, n : j = c.ino /\ new = c.ext /\ v = c.val /\ n = c.len OBVIOUS
<1>2. /\ pc = "write_loop" /\ pc' \in {"flush_metadata", "idle"} /\ c.left = 0
      /\ UNCHANGED <<data, live>>
      /\ itab' = [itab EXCEPT ![j].extents = new]
      /\ wrote' = [wrote EXCEPT ![j] = [val |-> v, len |-> n]]
  BY <1>1 DEF write_inode, Return
<1>3. /\ itab'[j].extents = new /\ wrote'[j].val = v /\ wrote'[j].len = n
      /\ \A i \in Inodes : i # j => itab'[i] = itab[i] /\ wrote'[i] = wrote[i]
  BY <1>0, <1>1, <1>2 DEF Inode
<1>4. Writing /\ ~Writing' BY <1>2 DEF Writing
<1>5. /\ Cardinality(BlockPos(NewFile)) = n /\ \A b \in BlocksOf(NewFile) : data[b].val = v
  <2>1. Cardinality(BlockPos(NewFile)) \in Nat BY NewFileFinite
  <2>. QED BY <1>1, <1>2, <1>4, <2>1 DEF KReads
<1>6. KHolds(j)'
  <2>1. NewFile.extents = itab'[j].extents BY <1>1, <1>3 DEF NewFile
  <2>2. BlockPos(itab'[j]) = BlockPos(NewFile) /\ BlocksOf(itab'[j]) = BlocksOf(NewFile)
    BY <2>1, SameExtents
  <2>. QED BY <1>2, <1>3, <1>5, <2>2 DEF KHolds
<1>7. ASSUME NEW i \in live, i # j PROVE KHolds(i)'
  <2>1. KHolds(i) BY <1>1, <1>7 DEF KReads
  <2>. QED BY <1>0, <1>2, <1>3, <1>7, <2>1, HoldKept
<1>. QED BY <1>2, <1>4, <1>6, <1>7 DEF KReads

(* Removing an entry changes no file. *)
LEMMA RemoveReads ==
  ASSUME KTyped, KGood, Sound', KReads, dir_remove_entry PROVE KReads'
<1>0. live \subseteq Inodes /\ wrote \in [Inodes -> [val : Vals \cup {NoVal}, len : 0 .. MaxLen]]
  BY KFacts DEF KTyped, CallTyped
<1>1. PICK j : j = c.ino OBVIOUS
<1>2. /\ pc = "dir_remove_entry" /\ pc' = "flush_metadata" /\ live' = live \ {j}
      /\ wrote' = [wrote EXCEPT ![j] = [val |-> NoVal, len |-> 0]]
  BY <1>1 DEF dir_remove_entry
<1>3. itab' = itab /\ \A b \in DataBlocks : data'[b].val = data[b].val
  BY <1>1, RemoveEntryRemoves
<1>4. ~Writing /\ ~Writing' BY <1>2 DEF Writing
<1>5. ASSUME NEW i \in live' PROVE KHolds(i)'
  <2>1. i \in live /\ wrote'[i] = wrote[i] BY <1>0, <1>2
  <2>2. KHolds(i) /\ BlocksOf(itab[i]) \subseteq DataBlocks BY <1>0, <1>4, <2>1, KFacts DEF KReads
  <2>. QED BY <1>3, <2>1, <2>2, HoldKept
<1>. QED BY <1>2, <1>4, <1>5 DEF KReads

(* The steps of a command. *)
LEMMA StepReads ==
  ASSUME KTyped, KGood, Sound', KReads, Step PROVE KReads'
<1>0. MaxLen \in Nat BY KernelFacts, Zenon
<1>1. CASE mkdir_init \/ touch_init \/ dir_add_block BY <1>1, InitReads
<1>2. CASE dir_add_entry_slot \/ dir_add_extent BY <1>2, LinkReads
<1>3. CASE write_data BY <1>3, WriteDataReads
<1>4. CASE write_inode BY <1>4, WriteInodeReads
<1>5. CASE dir_remove_entry BY <1>5, RemoveReads
<1>6. CASE mkdir_block \/ dir_add_entry_grow
  <2>1. /\ ~Writing /\ pc' \in {"mkdir_init", "dir_add_block", "idle"}
        /\ UNCHANGED <<itab, data, wrote, live>>
    BY <1>6 DEF mkdir_block, dir_add_entry_grow, alloc_block, Return, Writing
  <2>. QED BY <2>1, ReadStill
<1>7. CASE write_loop
  <2>1. /\ pc = "write_loop" /\ Writing /\ UNCHANGED <<itab, data, wrote, live>>
        /\ \/ /\ pc' = "write_data" /\ c'.ino = c.ino /\ c'.ext = c.ext /\ c'.left = c.left
              /\ c'.len = c.len /\ c'.val = c.val
           \/ Return({"lost", "drift"} \cup GaveUp)
    BY <1>7, KFacts DEF write_loop, alloc_block, Writing, KCall
  <2>2. CASE pc' = "write_data" /\ c'.ino = c.ino /\ c'.ext = c.ext /\ c'.left = c.left
             /\ c'.len = c.len /\ c'.val = c.val
    <3>1. NewFile' = NewFile BY <2>2 DEF NewFile
    <3>2. \A i \in live : KHolds(i)' <=> KHolds(i) BY <2>1 DEF KHolds
    <3>3. Writing' /\ pc' # "free_blocks" BY <2>2 DEF Writing
    <3>. QED BY <2>1, <2>2, <3>1, <3>2, <3>3 DEF KReads
  <2>3. CASE Return({"lost", "drift"} \cup GaveUp)
    <3>1. "torn" \notin GaveUp /\ pc' = "idle" BY <2>3 DEF Return, Sound
    <3>. QED BY <2>1, <3>1, StopHolds, ReadStill
  <2>. QED BY <2>1, <2>2, <2>3
<1>8. CASE free_block
  <2>1. /\ pc = "free_blocks" /\ UNCHANGED <<itab, data, wrote, live>>
        /\ c'.ext = c.ext /\ c'.left = c.left /\ c'.len = c.len
    BY <1>8, KFacts DEF free_block, StartFree, KCall
  <2>2. c.left = c.len /\ c.left \in Nat BY <1>0, <2>1, KFacts DEF KReads, KCall
  <2>3. ~Writing /\ c.ext = <<>>
    <3>1. ~Writing /\ pc # "flush_metadata" BY <2>1 DEF Writing
    <3>. QED BY <3>1 DEF KGood, WriteHolds
  <2>. QED BY <2>1, <2>2, <2>3, ReadStill
<1>9. CASE free_inode
  <2>1. ~Writing /\ pc' = "dir_remove_entry" /\ UNCHANGED <<itab, data, wrote, live>>
    BY <1>9 DEF free_inode, Writing
  <2>. QED BY <2>1, ReadStill
<1>10. CASE flush_metadata
  <2>1. ~Writing /\ UNCHANGED <<itab, data, wrote, live>> BY <1>10 DEF flush_metadata, Writing
  <2>2. \/ c'.ext = <<>> /\ c'.left = c.len /\ c'.len = c.len
        \/ pc' \in {"idle", "off"}
    BY <1>10 DEF flush_metadata, Return, StartWrite, StartFree, NoCall
  <2>3. c.len \in Nat BY <1>0, KFacts DEF KCall
  <2>. QED BY <2>1, <2>2, <2>3, ReadStill
<1>11. CASE disk_full
  <2>1. /\ "torn" \notin GaveUp /\ pc' = "idle" /\ UNCHANGED <<itab, data, wrote, live>>
    BY <1>11 DEF disk_full, Return, Sound, diskVars
  <2>. QED BY <2>1, StopHolds, ReadStill
<1>. QED BY <1>1, <1>2, <1>3, <1>4, <1>5, <1>6, <1>7, <1>8, <1>9, <1>10, <1>11 DEF Step

(* Every step. *)
LEMMA KStepReads == KInv /\ KReadInv /\ [Next]_vars => KReadInv'
<1>. SUFFICES ASSUME KInv, KReadInv, [Next]_vars, Sound' PROVE KReads' BY DEF KReadInv, Sound
<1>1. harm \subseteq harm' BY HarmGrows
<1>2. KTyped /\ KGood /\ KReads BY <1>1 DEF KInv, KGoodInv, KReadInv, Sound
<1>3. CASE Command
  <2>1. ~Strays BY <1>2, NoStray DEF KGood
  <2>. QED BY <1>2, <1>3, <2>1, CommandReads
<1>4. CASE Step BY <1>2, <1>4, StepReads
<1>5. CASE io_error \/ PowerLoss
  <2>1. /\ "torn" \notin GaveUp /\ pc' \in {"idle", "off"} /\ UNCHANGED <<itab, data, wrote, live>>
    BY <1>5 DEF io_error, PowerLoss, Return, Sound, diskVars
  <2>. QED BY <1>2, <2>1, StopHolds, ReadStill
<1>6. CASE UNCHANGED vars
  <2>1. NewFile' = NewFile /\ Writing' = Writing BY <1>6 DEF vars, NewFile, Writing
  <2>2. \A i \in live : KHolds(i)' <=> KHolds(i) BY <1>6 DEF vars, KHolds
  <2>. QED BY <1>2, <1>6, <2>1, <2>2 DEF vars, KReads
<1>. QED BY <1>3, <1>4, <1>5, <1>6 DEF Next

(* A formatted disk holds no file. *)
LEMMA KInitReads == Init => KReadInv
<1>. SUFFICES ASSUME Init PROVE KReads BY DEF KReadInv
<1>1. live = {ROOT} /\ itab[ROOT].mode = "dir" /\ pc = "off" BY RootInodes DEF Init
<1>. QED BY <1>1 DEF KReads, KHolds, Writing

(* A file holds what it was last written with, until it is written again   *)
(* or removed: no command on another file, no failed transfer and no loss  *)
(* of power changes it, unless a removal or a rewrite is cut short.        *)
THEOREM KAlwaysReadsBack == Spec => []KReadBack
<1>1. KInv /\ KReadInv => KReadBack
  <2>. SUFFICES ASSUME KInv, KReadInv, "torn" \notin harm,
                       NEW i \in live, itab[i].mode = "reg", ~Busy(i)
                PROVE  /\ Cardinality(BlockPos(itab[i])) = wrote[i].len
                       /\ \A b \in BlocksOf(itab[i]) : data[b].val = wrote[i].val
    BY DEF KReadBack
  <2>1. KGood /\ KReads BY DEF KInv, KGoodInv, KReadInv, Sound
  <2>2. ~(Writing /\ i = c.ino) BY <2>1 DEF KGood, FreeHolds, Busy, Writing
  <2>. QED BY <2>1, <2>2 DEF KReads, KHolds
<1>. QED BY <1>1, KInitInv, KStepInv, KInitReads, KStepReads, PTL DEF Spec

-----------------------------------------------------------------------------
(* The counters. *)

(* They agree with the bitmaps. *)
Counted ==
  /\ sb.free_inodes = Cardinality(FreeInodes)
  /\ sb.free_blocks = Cardinality(FreeBlocks)

KCountInv == harm \cap {"torn", "drift"} = {} => Counted

(* The bitmaps are finite and the counters cannot wrap. *)
LEMMA KDiskSize ==
  /\ IsFiniteSet(Inodes) /\ Cardinality(Inodes) = TotalInodes
  /\ IsFiniteSet(DataBlocks) /\ Cardinality(DataBlocks) = TotalBlocks - DataStart
  /\ U32 \in Nat \ {0} /\ TotalInodes \in Nat /\ TotalInodes < U32
  /\ TotalBlocks - DataStart \in Nat /\ TotalBlocks - DataStart < U32
<1>0. /\ TotalInodes \in Nat \ {0} /\ TotalBlocks \in Nat /\ DataStart \in Nat
      /\ DataStart < TotalBlocks
  BY GeometryAssumption
<1>1. U32 \in Nat /\ U32 > TotalBlocks /\ U32 > TotalInodes BY KernelFacts, Zenon
<1>2. IsFiniteSet(Inodes) /\ Cardinality(Inodes) = TotalInodes
  <2>1. 0 \in Int /\ TotalInodes - 1 \in Int BY <1>0
  <2>2. /\ IsFiniteSet(0 .. TotalInodes - 1)
        /\ Cardinality(0 .. TotalInodes - 1) =
             IF 0 > TotalInodes - 1 THEN 0 ELSE (TotalInodes - 1) - 0 + 1
    BY <2>1, FS_Interval, Zenon
  <2>. QED BY <1>0, <2>2 DEF Inodes
<1>3. IsFiniteSet(DataBlocks) /\ Cardinality(DataBlocks) = TotalBlocks - DataStart
  <2>1. DataStart \in Int /\ TotalBlocks - 1 \in Int BY <1>0
  <2>2. /\ IsFiniteSet(DataStart .. TotalBlocks - 1)
        /\ Cardinality(DataStart .. TotalBlocks - 1) =
             IF DataStart > TotalBlocks - 1 THEN 0 ELSE (TotalBlocks - 1) - DataStart + 1
    BY <2>1, FS_Interval, Zenon
  <2>. QED BY <1>0, <2>2 DEF DataBlocks
<1>. QED BY <1>0, <1>1, <1>2, <1>3

(* One bit set is one less to give. *)
LEMMA TakeOne ==
  ASSUME NEW U, IsFiniteSet(U), NEW N \in Nat, Cardinality(U) = N, N < U32,
         NEW B, NEW x \in U \ B
  PROVE  M!Dec(Cardinality(U \ B)) = Cardinality(U \ (B \cup {x}))
<1>1. /\ Cardinality(U \ (B \cup {x})) = Cardinality(U \ B) - 1
      /\ Cardinality(U \ B) \in Nat \ {0}
  BY MarkOne
<1>2. Cardinality(U \ B) <= N BY FS_Subset
<1>3. PICK n \in Nat : n = Cardinality(U \ B) BY <1>1
<1>4. U32 \in Nat \ {0} BY KDiskSize
<1>5. n - 1 \in Int /\ 0 <= n - 1 /\ n - 1 < U32 BY <1>1, <1>2, <1>3, <1>4
<1>6. (n - 1) % U32 = n - 1 BY <1>4, <1>5, ModFacts
<1>. QED BY <1>1, <1>3, <1>6, SharedOps

(* One bit cleared that was set is one more. *)
LEMMA GiveOne ==
  ASSUME NEW U, IsFiniteSet(U), NEW N \in Nat, Cardinality(U) = N, N < U32,
         NEW B, NEW x \in U, x \in B
  PROVE  M!Add(Cardinality(U \ B), 1) = Cardinality(U \ (B \ {x}))
<1>. DEFINE C == B \ {x}
<1>1. x \in U \ C /\ U \ (C \cup {x}) = U \ B OBVIOUS
<1>2. /\ Cardinality(U \ (C \cup {x})) = Cardinality(U \ C) - 1
      /\ Cardinality(U \ C) \in Nat \ {0}
  BY <1>1, MarkOne
<1>3. Cardinality(U \ C) <= N BY FS_Subset
<1>. HIDE DEF C
<1>4. PICK n \in Nat \ {0} : n = Cardinality(U \ C) BY <1>2
<1>5. Cardinality(U \ B) = n - 1 BY <1>1, <1>2, <1>4
<1>6. U32 \in Nat \ {0} BY KDiskSize
<1>7. (n - 1) + 1 = n /\ n \in Int /\ 0 <= n /\ n < U32 BY <1>3, <1>4, <1>6
<1>8. n % U32 = n BY <1>6, <1>7, ModFacts
<1>9. M!Add(n - 1, 1) = ((n - 1) + 1) % U32 BY SharedOps
<1>10. M!Add(Cardinality(U \ B), 1) = Cardinality(U \ C) BY <1>4, <1>5, <1>7, <1>8, <1>9
<1>. QED BY <1>10 DEF C

(* Adding nothing changes nothing. *)
LEMMA GiveNone ==
  ASSUME KTyped
  PROVE  /\ M!Add(sb.free_inodes, 0) = sb.free_inodes
         /\ M!Add(sb.free_blocks, 0) = sb.free_blocks
<1>1. U32 \in Nat \ {0} BY KDiskSize
<1>2. sb \in M!Counters BY DEF KTyped, TypeOK
<1>3. sb.free_inodes \in 0 .. U32 - 1 /\ sb.free_blocks \in 0 .. U32 - 1 BY <1>2, SharedOps
<1>4. \A x \in 0 .. U32 - 1 : M!Add(x, 0) = x
  <2>1. SUFFICES ASSUME NEW x \in 0 .. U32 - 1 PROVE M!Add(x, 0) = x OBVIOUS
  <2>2. x + 0 = x /\ x \in Int /\ 0 <= x /\ x < U32 BY <1>1
  <2>3. x % U32 = x BY <1>1, <2>2, ModFacts
  <2>4. M!Add(x, 0) = (x + 0) % U32 BY SharedOps
  <2>. QED BY <2>2, <2>3, <2>4
<1>. QED BY <1>3, <1>4

(* Nothing is allocated or freed. *)
LEMMA CountSame ==
  ASSUME Counted, ibm' = ibm, bbm' = bbm, sb' = sb PROVE Counted'
BY DEF Counted, FreeInodes, FreeBlocks

(* alloc_inode. *)
LEMMA CountInode ==
  ASSUME KTyped, Counted, FreeInodes # {}, ibm' = ibm \cup {LowestClear(FreeInodes)},
         bbm' = bbm, sb' = [sb EXCEPT !.free_inodes = M!Dec(@)]
  PROVE  Counted'
<1>1. PICK i : i = LowestClear(FreeInodes) OBVIOUS
<1>2. i \in Inodes \ ibm BY <1>1, KFreeFacts
<1>3. M!Dec(Cardinality(Inodes \ ibm)) = Cardinality(Inodes \ (ibm \cup {i}))
  BY <1>2, KDiskSize, TakeOne
<1>4. sb \in M!Counters BY DEF KTyped, TypeOK
<1>5. sb'.free_inodes = M!Dec(sb.free_inodes) /\ sb'.free_blocks = sb.free_blocks
  BY <1>4, SharedOps
<1>. QED BY <1>1, <1>3, <1>5 DEF Counted, FreeInodes, FreeBlocks

(* alloc_block. *)
LEMMA CountBlock ==
  ASSUME KTyped, Counted, FreeBlocks # {}, bbm' = bbm \cup {LowestClear(FreeBlocks)},
         ibm' = ibm, sb' = [sb EXCEPT !.free_blocks = M!Dec(@)]
  PROVE  Counted'
<1>1. PICK b : b = LowestClear(FreeBlocks) OBVIOUS
<1>2. b \in DataBlocks \ bbm BY <1>1, KFreeFacts
<1>3. M!Dec(Cardinality(DataBlocks \ bbm)) = Cardinality(DataBlocks \ (bbm \cup {b}))
  BY <1>2, KDiskSize, TakeOne
<1>4. sb \in M!Counters BY DEF KTyped, TypeOK
<1>5. sb'.free_blocks = M!Dec(sb.free_blocks) /\ sb'.free_inodes = sb.free_inodes
  BY <1>4, SharedOps
<1>. QED BY <1>1, <1>3, <1>5 DEF Counted, FreeInodes, FreeBlocks

(* free_block: the bit it clears was set, so no block is counted twice. *)
LEMMA CountFreeBlock ==
  ASSUME KTyped, KGood, Counted, harm' \cap {"torn", "drift"} = {}, free_block PROVE Counted'
<1>1. PICK b \in c.todo, bit \in {"set", "cleared"}, k \in 0 .. 1 :
        /\ FreeOutcome(bit, k)
        /\ bbm' = IF bit = "cleared" THEN bbm \ {b} ELSE bbm
        /\ sb' = [sb EXCEPT !.free_blocks = M!Add(@, k)]
  BY DEF free_block
<1>2. pc = "free_blocks" /\ ibm' = ibm BY DEF free_block
<1>3. b \in DataBlocks /\ b \in bbm
  BY <1>2, KFacts DEF KGood, FreeHolds, Freeing, KCall
<1>4. sb \in M!Counters BY DEF KTyped, TypeOK
<1>5. sb'.free_blocks = M!Add(sb.free_blocks, k) /\ sb'.free_inodes = sb.free_inodes
  BY <1>1, <1>4, SharedOps
<1>6. CASE bit = "cleared"
  <2>1. k = 1 /\ bbm' = bbm \ {b} BY <1>1, <1>6 DEF FreeOutcome
  <2>2. M!Add(Cardinality(DataBlocks \ bbm), 1) = Cardinality(DataBlocks \ (bbm \ {b}))
    BY <1>3, KDiskSize, GiveOne
  <2>. QED BY <1>2, <1>5, <2>1, <2>2 DEF Counted, FreeInodes, FreeBlocks
<1>7. CASE bit = "set"
  <2>1. k = 0 /\ bbm' = bbm BY <1>1, <1>7 DEF FreeOutcome
  <2>. QED BY <1>2, <1>5, <2>1, GiveNone DEF Counted, FreeInodes, FreeBlocks
<1>. QED BY <1>1, <1>6, <1>7

(* free_inode, likewise. *)
LEMMA CountFreeInode ==
  ASSUME KTyped, KGood, Counted, harm' \cap {"torn", "drift"} = {}, free_inode PROVE Counted'
<1>1. PICK bit \in {"set", "cleared"}, k \in 0 .. 1 :
        /\ FreeOutcome(bit, k)
        /\ ibm' = IF bit = "cleared" THEN ibm \ {c.ino} ELSE ibm
        /\ sb' = [sb EXCEPT !.free_inodes = M!Add(@, k)]
  BY DEF free_inode
<1>2. pc = "free_inode" /\ bbm' = bbm BY DEF free_inode
<1>3. c.ino \in Inodes /\ c.ino \in ibm
  BY <1>2, KFacts DEF KGood, FreeHolds, Freeing, Marked
<1>4. sb \in M!Counters BY DEF KTyped, TypeOK
<1>5. sb'.free_inodes = M!Add(sb.free_inodes, k) /\ sb'.free_blocks = sb.free_blocks
  BY <1>1, <1>4, SharedOps
<1>6. CASE bit = "cleared"
  <2>1. k = 1 /\ ibm' = ibm \ {c.ino} BY <1>1, <1>6 DEF FreeOutcome
  <2>2. M!Add(Cardinality(Inodes \ ibm), 1) = Cardinality(Inodes \ (ibm \ {c.ino}))
    BY <1>3, KDiskSize, GiveOne
  <2>. QED BY <1>2, <1>5, <2>1, <2>2 DEF Counted, FreeInodes, FreeBlocks
<1>7. CASE bit = "set"
  <2>1. k = 0 /\ ibm' = ibm BY <1>1, <1>7 DEF FreeOutcome
  <2>. QED BY <1>2, <1>5, <2>1, GiveNone DEF Counted, FreeInodes, FreeBlocks
<1>. QED BY <1>1, <1>6, <1>7

(* What a command that creates does to them. *)
LEMMA AllocCounts ==
  ASSUME KTyped, Counted, harm' \cap {"torn", "drift"} = {}, bbm' = bbm,
         NEW next, NEW call, alloc_inode(next, call)
  PROVE  Counted'
<1>1. "drift" \notin harm' OBVIOUS
<1>2. /\ FreeInodes # {} /\ ibm' = ibm \cup {LowestClear(FreeInodes)}
      /\ sb' = [sb EXCEPT !.free_inodes = M!Dec(@)]
  BY <1>1 DEF alloc_inode, Return
<1>. QED BY <1>2, CountInode

(* Commands. *)
LEMMA CommandCounts ==
  ASSUME KTyped, Counted, harm' \cap {"torn", "drift"} = {}, Command, ~Strays PROVE Counted'
<1>1. CASE kzeros_open
  <2>1. sb' = sb /\ ibm' = ibm /\ bbm' = bbm
    BY <1>1 DEF kzeros_open, diskVars, KTyped, CallTyped
  <2>. QED BY <2>1, CountSame
<1>2. CASE kzeros_close
  <2>1. sb' = sb /\ ibm' = ibm /\ bbm' = bbm BY <1>2 DEF kzeros_close, diskVars
  <2>. QED BY <2>1, CountSame
<1>3. ASSUME NEW p \in Paths, kzeros_cd(p) \/ kzeros_rm(p) PROVE Counted'
  <2>1. sb' = sb /\ ibm' = ibm /\ bbm' = bbm BY <1>3 DEF kzeros_cd, kzeros_rm, diskVars
  <2>. QED BY <2>1, CountSame
<1>4. ASSUME NEW p \in Paths, NEW op, NEW v, NEW n, Create(p, op, v, n) PROVE Counted'
  <2>1. PICK call : alloc_inode("touch_init", call) /\ bbm' = bbm BY <1>4, Zenon DEF Create
  <2>. QED BY <2>1, AllocCounts
<1>5. ASSUME NEW p \in Paths, kzeros_mkdir(p) PROVE Counted'
  <2>1. PICK call : alloc_inode("mkdir_block", call) /\ bbm' = bbm BY <1>5, Zenon DEF kzeros_mkdir
  <2>. QED BY <2>1, AllocCounts
<1>6. ASSUME NEW p \in Paths, \E op \in {"mkdir", "touch"} : blind_create(p, op) PROVE Counted'
  <2>1. /\ FreeInodes # {} /\ ibm' = ibm \cup {LowestClear(FreeInodes)} /\ bbm' = bbm
        /\ sb' = [sb EXCEPT !.free_inodes = M!Dec(@)]
    BY <1>6, Zenon DEF blind_create
  <2>. QED BY <2>1, CountInode
<1>7. ASSUME NEW p \in Paths, NEW v \in Vals, NEW n \in 0 .. MaxLen, kzeros_write_file(p, v, n)
      PROVE  Counted'
  <2>1. CASE Create(p, "create", v, n) BY <1>4, <2>1
  <2>2. CASE UNCHANGED <<diskVars, sb>>
    <3>1. sb' = sb /\ ibm' = ibm /\ bbm' = bbm BY <2>2 DEF diskVars
    <3>. QED BY <3>1, CountSame
  <2>. QED BY <1>7, <2>1, <2>2 DEF kzeros_write_file
<1>8. ASSUME NEW p \in Paths, kzeros_touch(p) PROVE Counted' BY <1>4, <1>8 DEF kzeros_touch
<1>. QED BY <1>1, <1>2, <1>3, <1>5, <1>6, <1>7, <1>8 DEF Command, Strays

(* Steps of a command. *)
LEMMA StepCounts ==
  ASSUME KTyped, KGood, Counted, harm' \cap {"torn", "drift"} = {}, Step PROVE Counted'
<1>1. CASE mkdir_block \/ dir_add_entry_grow \/ write_loop
  <2>1. PICK next : alloc_block(next) BY <1>1 DEF mkdir_block, dir_add_entry_grow, write_loop
  <2>2. "drift" \notin harm' OBVIOUS
  <2>3. /\ FreeBlocks # {} /\ bbm' = bbm \cup {LowestClear(FreeBlocks)} /\ ibm' = ibm
        /\ sb' = [sb EXCEPT !.free_blocks = M!Dec(@)]
    BY <2>1, <2>2 DEF alloc_block, Return
  <2>. QED BY <2>3, CountBlock
<1>2. CASE free_block BY <1>2, CountFreeBlock
<1>3. CASE free_inode BY <1>3, CountFreeInode
<1>4. CASE \/ mkdir_init \/ touch_init \/ dir_add_entry_slot \/ dir_add_block \/ dir_add_extent
           \/ write_data \/ write_inode \/ dir_remove_entry \/ flush_metadata \/ disk_full
  <2>1. sb' = sb /\ ibm' = ibm /\ bbm' = bbm
    BY <1>4 DEF mkdir_init, touch_init, dir_add_entry_slot, dir_add_block, dir_add_extent,
       write_data, write_inode, dir_remove_entry, flush_metadata, disk_full, diskVars
  <2>. QED BY <2>1, CountSame
<1>. QED BY <1>1, <1>2, <1>3, <1>4 DEF Step

(* Every step. *)
LEMMA KStepCounts == KInv /\ KCountInv /\ [Next]_vars => KCountInv'
<1>. SUFFICES ASSUME KInv, KCountInv, [Next]_vars, harm' \cap {"torn", "drift"} = {}
              PROVE  Counted'
  BY DEF KCountInv
<1>1. harm \subseteq harm' BY HarmGrows
<1>2. KTyped /\ KGood /\ Counted BY <1>1 DEF KInv, KGoodInv, KCountInv, Sound
<1>3. CASE Command
  <2>1. Sound' BY DEF Sound
  <2>2. ~Strays BY <1>2, <2>1, NoStray DEF KGood
  <2>. QED BY <1>2, <1>3, <2>2, CommandCounts
<1>4. CASE Step BY <1>2, <1>4, StepCounts
<1>5. CASE io_error
  <2>1. sb' = sb /\ ibm' = ibm /\ bbm' = bbm BY <1>5 DEF io_error, diskVars
  <2>. QED BY <1>2, <2>1, CountSame
<1>6. CASE PowerLoss
  <2>1. "drift" \notin harm' OBVIOUS
  <2>2. sb' = sb /\ ibm' = ibm /\ bbm' = bbm BY <1>6, <2>1 DEF PowerLoss, diskVars
  <2>. QED BY <1>2, <2>2, CountSame
<1>7. CASE UNCHANGED vars
  <2>1. sb' = sb /\ ibm' = ibm /\ bbm' = bbm BY <1>7 DEF vars
  <2>. QED BY <1>2, <2>1, CountSame
<1>. QED BY <1>3, <1>4, <1>5, <1>6, <1>7 DEF Next

(* A formatted disk is counted. *)
LEMMA KInitCounts == Init => KCountInv
<1>. SUFFICES ASSUME Init PROVE Counted BY DEF KCountInv
<1>1. DataStart \in DataBlocks \ MetaBlocks /\ ROOT \in Inodes \ {}
  BY GeometryAssumption, RootInodes DEF DataBlocks, MetaBlocks
<1>2. /\ ibm = {} \cup {ROOT} /\ bbm = MetaBlocks \cup {DataStart}
      /\ sb.free_inodes = TotalInodes - 1 /\ sb.free_blocks = TotalBlocks - DataStart - 1
  BY DEF Init
<1>3. Cardinality(Inodes \ ({} \cup {ROOT})) = Cardinality(Inodes \ {}) - 1
  BY <1>1, KDiskSize, MarkOne
<1>4. Cardinality(DataBlocks \ (MetaBlocks \cup {DataStart})) = Cardinality(DataBlocks \ MetaBlocks) - 1
  BY <1>1, KDiskSize, MarkOne
<1>5. Inodes \ {} = Inodes /\ DataBlocks \ MetaBlocks = DataBlocks
  BY GeometryAssumption DEF DataBlocks, MetaBlocks
<1>. QED BY <1>2, <1>3, <1>4, <1>5, KDiskSize DEF Counted, FreeInodes, FreeBlocks

(* The counters in memory count the bitmaps on disk through every command, *)
(* also one that stops half way: they drift only when a bitmap write fails *)
(* or the power goes before the superblock has been written.               *)
THEOREM KCountersExact == Spec => []KCountersMatch
<1>1. KCountInv => KCountersMatch BY DEF KCountInv, Counted, KCountersMatch
<1>. QED BY <1>1, KInitInv, KStepInv, KInitCounts, KStepCounts, PTL DEF Spec

-----------------------------------------------------------------------------
(* The path of the working directory. *)

(* The links a path names lead from the root, through at, to directory j.  *)
ChainAt(at, path, j) ==
  /\ at[0] = ROOT /\ at[Len(path)] = j
  /\ \A n \in 0 .. Len(path) : at[n] \in live
  /\ \A n \in 1 .. Len(path) : LinkNamed(at[n - 1], path[n], at[n])

Chain(path, j) == \E at : ChainAt(at, path, j)

KPwdInv == harm \cap {"torn", "twin", "text"} = {} => Chain(cwd_path, cwd)

(* The root needs no names. *)
LEMMA ChainEmpty == ASSUME KTree PROVE Chain(<<>>, ROOT)
<1>. DEFINE at == [n \in 0 .. 0 |-> ROOT]
<1>1. at[0] = ROOT /\ Len(<<>>) = 0 OBVIOUS
<1>2. ROOT \in live BY DEF KTree
<1>3. ChainAt(at, <<>>, ROOT) BY <1>1, <1>2 DEF ChainAt
<1>. QED BY <1>3 DEF Chain

(* One name more leads one link further. *)
LEMMA ChainMore ==
  ASSUME NEW path, path \in Seq(Components), NEW i, Chain(path, i),
         NEW name, name \in Components, NEW j \in live, LinkNamed(i, name, j)
  PROVE  Chain(path \o <<name>>, j)
<1>. DEFINE L == Len(path)  longer == path \o <<name>>
<1>1. PICK at : ChainAt(at, path, i) BY DEF Chain
<1>. DEFINE on == [n \in 0 .. L + 1 |-> IF n = L + 1 THEN j ELSE at[n]]
<1>2. L \in Nat OBVIOUS
<1>3. /\ Len(longer) = L + 1 /\ longer[L + 1] = name
      /\ \A n \in 1 .. L : longer[n] = path[n]
  OBVIOUS
<1>4. on[L + 1] = j /\ \A n \in 0 .. L : on[n] = at[n] BY <1>2
<1>. HIDE DEF on, longer, L
<1>5. /\ at[0] = ROOT /\ at[L] = i /\ \A n \in 0 .. L : at[n] \in live
      /\ \A n \in 1 .. L : LinkNamed(at[n - 1], path[n], at[n])
  BY <1>1 DEF ChainAt, L
<1>6. on[0] = ROOT BY <1>2, <1>4, <1>5
<1>7. \A n \in 0 .. L + 1 : on[n] \in live
  <2>1. ASSUME NEW n \in 0 .. L + 1 PROVE on[n] \in live
    <3>1. n = L + 1 \/ n \in 0 .. L BY <1>2
    <3>. QED BY <1>4, <1>5, <3>1
  <2>. QED BY <2>1
<1>8. \A n \in 1 .. L + 1 : LinkNamed(on[n - 1], longer[n], on[n])
  <2>. SUFFICES ASSUME NEW n \in 1 .. L + 1 PROVE LinkNamed(on[n - 1], longer[n], on[n])
    OBVIOUS
  <2>1. CASE n = L + 1
    <3>1. n - 1 = L /\ L \in 0 .. L BY <1>2, <2>1
    <3>2. on[n - 1] = i /\ on[n] = j /\ longer[n] = name BY <1>3, <1>4, <1>5, <2>1, <3>1
    <3>. QED BY <3>2
  <2>2. CASE n # L + 1
    <3>1. n \in 1 .. L /\ n \in 0 .. L /\ n - 1 \in 0 .. L BY <1>2, <2>2
    <3>2. on[n - 1] = at[n - 1] /\ on[n] = at[n] /\ longer[n] = path[n]
      BY <1>3, <1>4, <3>1
    <3>. QED BY <1>5, <3>1, <3>2
  <2>. QED BY <2>1, <2>2
<1>9. ChainAt(on, longer, j) BY <1>3, <1>4, <1>6, <1>7, <1>8 DEF ChainAt
<1>10. Chain(longer, j) BY <1>9 DEF Chain
<1>. QED BY <1>10 DEF longer

(* All names but the last. *)
LEMMA ButLast ==
  ASSUME NEW path, path \in Seq(Components), Len(path) # 0
  PROVE  /\ Len(SubSeq(path, 1, Len(path) - 1)) = Len(path) - 1
         /\ \A n \in 1 .. Len(path) - 1 : SubSeq(path, 1, Len(path) - 1)[n] = path[n]
<1>. DEFINE n == Len(path) - 1  up == SubSeq(path, 1, n)
<1>1. Len(path) \in Nat \ {0} OBVIOUS
<1>2. 1 \in Int /\ n \in Int /\ \A i \in 1 .. n : path[i] \in Components BY <1>1
<1>4. n \in Nat /\ n - 1 + 1 = n /\ (~(1 <= n) => n = 0)
  <2>1. PICK x \in Nat \ {0} : x = Len(path) BY <1>1
  <2>2. x - 1 \in Nat /\ x - 1 - 1 + 1 = x - 1 /\ (~(1 <= x - 1) => x - 1 = 0) BY <2>1
  <2>. QED BY <2>1, <2>2
<1>3. /\ Len(up) = IF 1 <= n THEN n - 1 + 1 ELSE 0
      /\ \A i \in 1 .. n - 1 + 1 : up[i] = path[1 + i - 1]
  <2>. HIDE DEF n
  <2>. QED BY <1>2, SubSeqProperties
<1>. HIDE DEF up, n
<1>5. Len(up) = n BY <1>3, <1>4
<1>6. \A i \in 1 .. n : up[i] = path[i]
  <2>1. \A i \in 1 .. n : 1 + i - 1 = i BY <1>4
  <2>. QED BY <1>3, <1>4, <2>1
<1>. QED BY <1>5, <1>6 DEF up, n

(* The path of the root is empty, and no other directory's is; one name    *)
(* less is the path of the directory that links to it, which is the only   *)
(* one.                                                                    *)
LEMMA ChainUp ==
  ASSUME KTree, NEW path, path \in Seq(Components), NEW j \in live, Chain(path, j)
  PROVE  /\ j = ROOT => path = <<>>
         /\ path = <<>> => j = ROOT
         /\ \A k : j # ROOT /\ LinkTo(k, j) => Chain(SubSeq(path, 1, Len(path) - 1), k)
<1>. DEFINE L == Len(path)
<1>1. PICK at : ChainAt(at, path, j) BY DEF Chain
<1>2. L \in Nat /\ (L = 0 <=> path = <<>>) OBVIOUS
<1>3. /\ at[0] = ROOT /\ at[L] = j /\ \A n \in 0 .. L : at[n] \in live
      /\ \A n \in 1 .. L : LinkNamed(at[n - 1], path[n], at[n])
  BY <1>1 DEF ChainAt
<1>. HIDE DEF L
<1>4. ASSUME L # 0
      PROVE  /\ L \in 1 .. L /\ L - 1 \in 0 .. L /\ at[L - 1] \in live
             /\ \E b \in DataBlocks, s \in Slots :
                  IsLink(at[L - 1], b, s) /\ Ent(b, s).inode = j
  <2>1. L \in 1 .. L /\ L - 1 \in 0 .. L BY <1>2, <1>4
  <2>2. LinkNamed(at[L - 1], path[L], at[L]) BY <1>3, <2>1
  <2>. QED BY <1>3, <2>1, <2>2 DEF LinkNamed
<1>5. j = ROOT => L = 0
  <2>1. ASSUME L # 0 PROVE j # ROOT
    <3>1. PICK i : i = at[L - 1] OBVIOUS
    <3>2. i \in live /\ \E b \in DataBlocks, s \in Slots : IsLink(i, b, s) /\ Ent(b, s).inode = j
      BY <1>4, <2>1, <3>1
    <3>. QED BY <3>2 DEF KTree, KLinks
  <2>. QED BY <2>1
<1>6. ASSUME NEW k, j # ROOT, LinkTo(k, j) PROVE Chain(SubSeq(path, 1, L - 1), k)
  <2>1. L # 0 BY <1>3, <1>6
  <2>2. PICK d \in DataBlocks, r \in Slots : IsLink(k, d, r) /\ Ent(d, r).inode = j
    BY <1>6 DEF LinkTo
  <2>3. k \in live BY <2>2 DEF IsLink, Used
  <2>4. at[L - 1] = k
    <3>1. PICK i : i = at[L - 1] OBVIOUS
    <3>2. PICK b \in DataBlocks, s \in Slots : IsLink(i, b, s) /\ Ent(b, s).inode = j
      BY <1>4, <2>1, <3>1
    <3>3. i \in live BY <1>4, <2>1, <3>1
    <3>4. i = k BY <2>2, <2>3, <3>2, <3>3 DEF KTree, KLinks
    <3>. QED BY <3>1, <3>4
  <2>. DEFINE up == SubSeq(path, 1, L - 1)
  <2>5. Len(up) = L - 1 /\ \A n \in 1 .. L - 1 : up[n] = path[n]
    <3>1. Len(path) # 0 BY <2>1 DEF L
    <3>. QED BY <3>1, ButLast DEF L
  <2>. HIDE DEF up
  <2>6. \A n \in 0 .. L - 1 : at[n] \in live BY <1>2, <1>3
  <2>7. \A n \in 1 .. L - 1 : LinkNamed(at[n - 1], up[n], at[n]) BY <1>2, <1>3, <2>5
  <2>8. ChainAt(at, up, k) BY <1>3, <2>4, <2>5, <2>6, <2>7 DEF ChainAt
  <2>. QED BY <2>8 DEF Chain, up
<1>7. path = <<>> => j = ROOT BY <1>2, <1>3
<1>. QED BY <1>2, <1>5, <1>6, <1>7 DEF L

(* A chain stays one while its links stay. *)
LEMMA ChainKept ==
  ASSUME NEW path, NEW j, NEW at, ChainAt(at, path, j), Len(path) \in Nat,
         \A n \in 0 .. Len(path) : at[n] \in live',
         \A n \in 1 .. Len(path), b \in DataBlocks, s \in Slots :
           IsLink(at[n - 1], b, s) /\ Ent(b, s).inode = at[n] =>
             IsLink(at[n - 1], b, s)' /\ Ent(b, s)' = Ent(b, s)
  PROVE  Chain(path, j)'
<1>1. at[0] = ROOT /\ at[Len(path)] = j BY DEF ChainAt
<1>2. ASSUME NEW n \in 1 .. Len(path) PROVE LinkNamed(at[n - 1], path[n], at[n])'
  <2>1. PICK i, k, m : i = at[n - 1] /\ k = at[n] /\ m = path[n] OBVIOUS
  <2>2. LinkNamed(i, m, k) BY <2>1 DEF ChainAt
  <2>3. PICK b \in DataBlocks, s \in Slots :
             IsLink(i, b, s) /\ Ent(b, s).name = m /\ Ent(b, s).inode = k
    BY <2>2 DEF LinkNamed
  <2>4. IsLink(i, b, s)' /\ Ent(b, s)' = Ent(b, s) BY <2>1, <2>3
  <2>5. LinkNamed(i, m, k)' BY <2>3, <2>4 DEF LinkNamed
  <2>. QED BY <2>1, <2>5
<1>3. ChainAt(at, path, j)' BY <1>1, <1>2 DEF ChainAt
<1>. QED BY <1>3 DEF Chain

(* No step breaks the path of the working directory: what is removed is    *)
(* neither on the way to it nor the directory itself.                      *)
LEMMA ChainStep ==
  ASSUME KTyped, KGood, TreeStep, Sound', NEW path, path \in Seq(Components), NEW j, j = cwd, Chain(path, j)
  PROVE  Chain(path, j)'
<1>1. PICK at : ChainAt(at, path, j) BY DEF Chain
<1>2. Len(path) \in Nat OBVIOUS
<1>3. /\ at[0] = ROOT /\ at[Len(path)] = j /\ \A n \in 0 .. Len(path) : at[n] \in live
      /\ \A n \in 1 .. Len(path) : LinkNamed(at[n - 1], path[n], at[n])
  BY <1>1 DEF ChainAt
<1>4. \A n \in 1 .. Len(path) : n \in 0 .. Len(path) /\ n - 1 \in 0 .. Len(path) BY <1>2
<1>5. CASE TreeKept BY <1>1, <1>2, <1>3, <1>4, <1>5, ChainKept DEF TreeKept, IsLink
<1>6. CASE LinksKept BY <1>1, <1>2, <1>3, <1>4, <1>6, ChainKept DEF LinksKept
<1>7. CASE dir_remove_entry /\ \E x : x = c.ino /\ LinksKeptBut(x)
  <2>1. PICK x : x = c.ino /\ LinksKeptBut(x) BY <1>7
  <2>2. /\ Removable(x) /\ x # ROOT /\ x # j /\ x \in Inodes /\ live' = live \ {x}
    BY <1>7, <2>1, KFacts DEF KGood, FreeHolds, Freeing, dir_remove_entry, Removable
  <2>3. \A n \in 0 .. Len(path) : at[n] # x
    <3>. SUFFICES ASSUME NEW n \in 0 .. Len(path), at[n] = x PROVE FALSE OBVIOUS
    <3>1. n # Len(path) BY <1>3, <2>2
    <3>2. n + 1 \in 1 .. Len(path) /\ (n + 1) - 1 = n BY <1>2, <3>1
    <3>3. PICK k, m : k = at[n + 1] /\ m = path[n + 1] OBVIOUS
    <3>4. LinkNamed(at[n], m, k) BY <1>3, <3>2, <3>3
    <3>5. PICK b \in DataBlocks, s \in Slots : IsLink(x, b, s) BY <3>4 DEF LinkNamed
    <3>. QED BY <2>2, <3>5, EmptyHasNoLinks
  <2>4. \A n \in 0 .. Len(path) : at[n] \in live' BY <1>3, <2>2, <2>3
  <2>5. \A n \in 1 .. Len(path), b \in DataBlocks, s \in Slots :
          IsLink(at[n - 1], b, s) /\ Ent(b, s).inode = at[n] =>
            IsLink(at[n - 1], b, s)' /\ Ent(b, s)' = Ent(b, s)
    BY <1>3, <1>4, <2>1, <2>3 DEF LinksKeptBut
  <2>. QED BY <1>1, <1>2, <2>4, <2>5, ChainKept
<1>. QED BY <1>5, <1>6, <1>7 DEF TreeStep

(* What a component of a path may be. *)
MaybeName(n) == n \in Components \cup {""}

(* A name, or nothing, added to a path. *)
LEMMA ChainPart ==
  ASSUME KTyped, KTree, NEW path, path \in Seq(Components), NEW i \in live, Chain(path, i),
         NEW n, MaybeName(n), n \notin Dots, Sought(n) => itab[i].mode = "dir",
         NEW j, j = IF Sought(n) THEN dir_lookup(itab, data, i, n) ELSE i, j # NIL
  PROVE  Chain(path \o Part(n), j) /\ path \o Part(n) \in Seq(Components) /\ j \in live
<1>1. CASE ~Sought(n)
  <2>1. Part(n) = <<>> BY <1>1, Zenon DEF Part, Sought
  <2>2. path \o <<>> = path OBVIOUS
  <2>3. j = i BY <1>1
  <2>. QED BY <2>1, <2>2, <2>3
<1>2. CASE Sought(n)
  <2>1. Part(n) = <<n>> /\ Ordinary(n) /\ n \in Components
    BY <1>2, Zenon DEF Part, Sought, Ordinary, Dots, MaybeName
  <2>2. j = dir_lookup(itab, data, i, n) BY <1>2
  <2>3. LinkNamed(i, n, j) BY <1>2, <2>1, <2>2, LookupLink
  <2>4. j \in live
    <3>1. PICK b \in DataBlocks, s \in Slots : IsLink(i, b, s) /\ Ent(b, s).inode = j
      BY <2>3 DEF LinkNamed
    <3>. QED BY <3>1 DEF KTree, KLinks
  <2>5. Chain(path \o <<n>>, j) BY <2>1, <2>3, <2>4, ChainMore
  <2>6. path \o <<n>> \in Seq(Components) BY <2>1
  <2>. QED BY <2>1, <2>4, <2>5, <2>6
<1>. QED BY <1>1, <1>2

(* What a component adds to the path. *)
LEMMA PartIs ==
  ASSUME NEW n
  PROVE  /\ ~Sought(n) => Part(n) = <<>>
         /\ Sought(n) => Part(n) = <<n>>
BY Zenon DEF Part, Sought

(* It is part of a path. *)
LEMMA PartIn ==
  ASSUME NEW n, Sought(n) => n \in Components
  PROVE  Part(n) \in Seq(Components)
<1>1. <<>> \in Seq(Components) OBVIOUS
<1>2. \A m \in Components : <<m>> \in Seq(Components) OBVIOUS
<1>3. CASE Sought(n)
  <2>1. Part(n) = <<n>> /\ n \in Components BY <1>3, PartIs, Zenon
  <2>. QED BY <1>2, <2>1, Zenon
<1>4. CASE ~Sought(n)
  <2>1. Part(n) = <<>> BY <1>4, PartIs, Zenon
  <2>. QED BY <1>1, <2>1, Zenon
<1>. QED BY <1>3, <1>4

(* The names of a path that cwd_path follows. *)
LEMMA PartsOf ==
  ASSUME NEW base, base \in Seq(Components), NEW d, NEW n, MaybeName(d), MaybeName(n),
         d \notin Dots, n \notin Dots
  PROVE  /\ base \o (Part(d) \o Part(n)) = (base \o Part(d)) \o Part(n)
         /\ Part(d) \o Part(n) # <<".">> /\ Part(d) \o Part(n) # <<"..">>
<1>1. d # "." /\ d # ".." /\ n # "." /\ n # ".." BY DEF Dots
<1>2. /\ Sought(d) => d \in Components
      /\ Sought(n) => n \in Components
  BY Zenon DEF Sought, MaybeName
<1>3. /\ Part(d) = <<>> \/ (Part(d) = <<d>> /\ d \in Components)
      /\ Part(n) = <<>> \/ (Part(n) = <<n>> /\ n \in Components)
  BY <1>2, PartIs
<1>4. PICK x, y : x = Part(d) /\ y = Part(n) OBVIOUS
<1>5. x \in Seq(Components) /\ y \in Seq(Components) BY <1>2, <1>4, PartIn
<1>6. base \o (x \o y) = (base \o x) \o y BY <1>5, ConcatAssociative
<1>7. x \o y # <<".">> /\ x \o y # <<"..">>
  <2>1. CASE Len(x \o y) # 1
    <3>1. Len(<<".">>) = 1 /\ Len(<<"..">>) = 1 OBVIOUS
    <3>. QED BY <2>1, <3>1
  <2>2. CASE Len(x \o y) = 1
    <3>1. Len(x) + Len(y) = 1 BY <1>5, <2>2
    <3>2. (x = <<>> => Len(x) = 0) /\ (y = <<>> => Len(y) = 0)
          /\ (x = <<d>> => Len(x) = 1) /\ (y = <<n>> => Len(y) = 1)
      OBVIOUS
    <3>3. \/ x = <<d>> /\ y = <<>>
          \/ x = <<>> /\ y = <<n>>
      BY <1>3, <1>4, <3>1, <3>2
    <3>4. x \o y = <<d>> \/ x \o y = <<n>>
      <4>1. CASE x = <<d>> /\ y = <<>> BY <1>5, <4>1, ConcatEmptySeq
      <4>2. CASE x = <<>> /\ y = <<n>> BY <1>5, <4>2, ConcatEmptySeq
      <4>. QED BY <3>3, <4>1, <4>2
    <3>5. (x \o y)[1] = d \/ (x \o y)[1] = n
      <4>1. <<d>>[1] = d /\ <<n>>[1] = n OBVIOUS
      <4>. QED BY <3>4, <4>1
    <3>6. <<".">>[1] = "." /\ <<"..">>[1] = ".." OBVIOUS
    <3>. QED BY <1>1, <3>5, <3>6
  <2>. QED BY <2>1, <2>2
<1>. QED BY <1>4, <1>6, <1>7

(* cd keeps cwd_path the path of cwd, as long as "." and ".." come alone.  *)
LEMMA CdChain ==
  ASSUME KTyped, KGood, Sound', NEW p \in Path, kzeros_cd(p), "text" \notin harm',
         NEW here, here = cwd_path, NEW i, i = cwd, Chain(here, i),
         NEW q, q = NewPath(p), NEW j, j = Resolve(p)
  PROVE  Chain(q, j)
<1>0. /\ KTree /\ i \in live /\ itab[i].mode = "dir" /\ Named(i)
      /\ ROOT \in live /\ itab[ROOT].mode = "dir" /\ here \in Seq(Components) /\ j # NIL
      /\ Readable(itab, j) /\ ~ThroughFile(p)
  <2>1. /\ KTree /\ i \in live /\ itab[i].mode = "dir" /\ Named(i)
        /\ ROOT \in live /\ itab[ROOT].mode = "dir" /\ here \in Seq(Components)
        /\ Readable(itab, j) /\ PathHarm(p) \subseteq harm'
    BY DEF KGood, KTree, Cwd, KTyped, TypeOK, kzeros_cd
  <2>. QED BY <2>1, RootInodes, NotThroughFile DEF Readable
<1>1. /\ p.dir \notin Dots
      /\ p.name \in Dots => ~p.abs /\ ~Sought(p.dir)
  BY Zenon DEF kzeros_cd, Sought
<1>2. MaybeName(p.dir) /\ MaybeName(p.name) BY Zenon DEF Path, MaybeName
<1>3. PICK start, base : /\ start = IF p.abs THEN ROOT ELSE i
                         /\ base = IF p.abs THEN <<>> ELSE here
  OBVIOUS
<1>4. /\ start \in live /\ itab[start].mode = "dir" /\ Chain(base, start)
      /\ base \in Seq(Components)
  BY <1>0, <1>3, ChainEmpty
<1>5. PICK k : k = Parent(p) OBVIOUS
<1>6. k = IF Sought(p.dir) THEN dir_lookup(itab, data, start, p.dir) ELSE start
  <2>1. k = IF p.dir = "" THEN start ELSE dir_lookup(itab, data, start, p.dir)
    BY <1>3, <1>5, Zenon DEF Parent, resolve_parent
  <2>. QED BY <2>1, Zenon DEF Sought
<1>7. /\ j = IF ~Sought(p.name) THEN k ELSE dir_lookup(itab, data, k, p.name)
      /\ Sought(p.name) => itab[k].mode = "dir"
      /\ Readable(itab, k)
  <2>1. j = IF p.name = "" \/ ~Readable(itab, k) THEN k ELSE dir_lookup(itab, data, k, p.name)
    BY <1>5, Zenon DEF Resolve, resolve_path, Parent
  <2>2. Readable(itab, k) BY <1>0, <2>1, Zenon
  <2>3. Sought(p.name) => itab[k].mode = "dir"
    BY <1>0, <1>5, <2>2, Zenon DEF Sought, ThroughFile
  <2>. QED BY <2>1, <2>2, <2>3, Zenon DEF Sought
<1>8. PICK parts : parts = Part(p.dir) \o Part(p.name) OBVIOUS
<1>9. q = IF p.abs THEN parts
          ELSE IF parts = <<".">> THEN here
          ELSE IF parts = <<"..">>
          THEN IF here = <<>> THEN <<>> ELSE SubSeq(here, 1, Len(here) - 1)
          ELSE here \o parts
  BY <1>8, Zenon DEF NewPath
<1>10. CASE p.name \notin Dots
  <2>1. k # NIL BY <1>7, RootInodes DEF Readable
  <2>2. Chain(base \o Part(p.dir), k) /\ base \o Part(p.dir) \in Seq(Components) /\ k \in live
    BY <1>0, <1>1, <1>2, <1>4, <1>6, <2>1, ChainPart
  <2>3. j = IF Sought(p.name) THEN dir_lookup(itab, data, k, p.name) ELSE k BY <1>7, <2>1
  <2>4. Chain((base \o Part(p.dir)) \o Part(p.name), j)
    BY <1>0, <1>2, <1>7, <1>10, <2>2, <2>3, ChainPart
  <2>5. /\ base \o parts = (base \o Part(p.dir)) \o Part(p.name)
        /\ parts # <<".">> /\ parts # <<"..">>
        /\ <<>> \o parts = (<<>> \o Part(p.dir)) \o Part(p.name)
    BY <1>1, <1>2, <1>4, <1>8, <1>10, PartsOf
  <2>6. parts \in Seq(Components)
    <3>1. /\ Sought(p.dir) => p.dir \in Components
          /\ Sought(p.name) => p.name \in Components
      BY <1>2, Zenon DEF Sought, MaybeName
    <3>2. PICK x, y : x = Part(p.dir) /\ y = Part(p.name) OBVIOUS
    <3>3. x \in Seq(Components) /\ y \in Seq(Components) BY <3>1, <3>2, PartIn
    <3>. QED BY <1>8, <3>2, <3>3
  <2>7. <<>> \o parts = parts BY <2>6
  <2>8. q = base \o parts BY <1>3, <1>9, <2>5, <2>7
  <2>. QED BY <2>4, <2>5, <2>8
<1>11. CASE p.name \in Dots
  <2>1. ~p.abs /\ ~Sought(p.dir) /\ Sought(p.name) BY <1>1, <1>11, Zenon DEF Dots, Sought
  <2>2. k = i BY <1>3, <1>6, <2>1
  <2>3. i # NIL BY <1>0, KFacts, RootInodes
  <2>4. j = dir_lookup(itab, data, i, p.name) BY <1>7, <2>1, <2>2, <2>3
  <2>5. parts = <<p.name>>
    <3>1. parts = <<>> \o <<p.name>> BY <1>8, <2>1, PartIs, Zenon
    <3>2. p.name \in Components BY <1>11, Zenon DEF Dots, Components
    <3>3. <<p.name>> \in Seq(Components) BY <3>2
    <3>. QED BY <3>1, <3>3, ConcatEmptySeq
  <2>7. /\ dir_lookup(itab, data, i, ".") = i
        /\ dir_lookup(itab, data, i, "..") = Ent(FirstBlock(i), 1).inode
    BY <1>0, DotLookups DEF KTree
  <2>8. CASE p.name = "."
    <3>1. q = here /\ j = i BY <1>9, <2>1, <2>4, <2>5, <2>7, <2>8
    <3>. QED BY <3>1
  <2>9. CASE p.name = ".."
    <3>1. q = IF here = <<>> THEN <<>> ELSE SubSeq(here, 1, Len(here) - 1)
      <4>1. parts # <<".">> /\ parts = <<"..">> BY <2>5, <2>9
      <4>. QED BY <1>9, <2>1, <4>1
    <3>2. j = Ent(FirstBlock(i), 1).inode BY <2>4, <2>7, <2>9
    <3>3. IF i = ROOT THEN j = ROOT ELSE LinkTo(j, i) BY <1>0, <3>2 DEF KTree, KDots
    <3>4. /\ i = ROOT <=> here = <<>>
          /\ i # ROOT => Chain(SubSeq(here, 1, Len(here) - 1), j)
      BY <1>0, <3>3, ChainUp
    <3>. QED BY <1>0, <3>1, <3>3, <3>4, ChainEmpty
  <2>. QED BY <1>11, <2>8, <2>9 DEF Dots
<1>. QED BY <1>10, <1>11

(* Every step. *)
LEMMA KStepPwd == KInv /\ KPwdInv /\ [Next]_vars => KPwdInv'
<1>. SUFFICES ASSUME KInv, KPwdInv, [Next]_vars, harm' \cap {"torn", "twin", "text"} = {}
              PROVE  Chain(cwd_path, cwd)'
  BY DEF KPwdInv
<1>1. harm \subseteq harm' BY HarmGrows
<1>2. /\ KTyped /\ KGood /\ Chain(cwd_path, cwd) /\ Sound' /\ "text" \notin harm'
  BY <1>1 DEF KInv, KGoodInv, KPwdInv, Sound
<1>0. ~Strays BY <1>2, NoStray DEF KGood
<1>3. KTyped' BY <1>0, <1>2, KStepTyped
<1>4. KGood' /\ TreeStep BY <1>2, <1>3, StepGood
<1>5. PICK here, i : here = cwd_path /\ i = cwd OBVIOUS
<1>6. PICK q, j : q = cwd_path' /\ j = cwd' OBVIOUS
<1>7. here \in Seq(Components) /\ Chain(here, i) BY <1>2, <1>5 DEF KTyped, TypeOK
<1>8. SUFFICES Chain(q, j)' BY <1>6 DEF Chain, ChainAt
<1>9. CASE q = here /\ j = i BY <1>2, <1>4, <1>5, <1>7, <1>9, ChainStep
<1>10. CASE kzeros_open \/ PowerLoss
  <2>1. q = <<>> /\ j = ROOT BY <1>6, <1>10 DEF kzeros_open, PowerLoss
  <2>2. KTree' BY <1>4 DEF KGood
  <2>. DEFINE at == [n \in 0 .. 0 |-> ROOT]
  <2>3. at[0] = ROOT /\ Len(<<>>) = 0 OBVIOUS
  <2>4. ROOT \in live' BY <2>2 DEF KTree
  <2>5. ChainAt(at, <<>>, ROOT)' BY <2>3, <2>4 DEF ChainAt
  <2>. QED BY <2>1, <2>5 DEF Chain
<1>11. ASSUME NEW p \in Paths, kzeros_cd(p) PROVE Chain(q, j)'
  <2>1. p \in Path BY KernelFacts, Zenon
  <2>2. q = NewPath(p) /\ j = Resolve(p) BY <1>6, <1>11 DEF kzeros_cd
  <2>3. Chain(q, j) BY <1>2, <1>5, <1>7, <1>11, <2>1, <2>2, CdChain
  <2>4. TreeKept BY <1>2, <2>1, <1>11, CdGood
  <2>5. q \in Seq(Components) BY <1>3, <1>6 DEF KTyped, TypeOK
  <2>6. PICK at : ChainAt(at, q, j) BY <2>3 DEF Chain
  <2>7. Len(q) \in Nat BY <2>5
  <2>8. \A n \in 1 .. Len(q) : n - 1 \in 0 .. Len(q) BY <2>7
  <2>9. \A n \in 0 .. Len(q) : at[n] \in live BY <2>6 DEF ChainAt
  <2>. QED BY <2>4, <2>6, <2>7, <2>8, <2>9, ChainKept DEF TreeKept, IsLink
<1>12. CASE UNCHANGED vars BY <1>5, <1>6, <1>9, <1>12 DEF vars
<1>13. CASE Step
  <2>1. cwd_path' = cwd_path /\ cwd' = cwd
    BY <1>13 DEF Step, mkdir_block, mkdir_init, touch_init, dir_add_entry_slot,
       dir_add_entry_grow, dir_add_block, dir_add_extent, free_block, write_loop, write_data,
       write_inode, free_inode, dir_remove_entry, flush_metadata, disk_full, alloc_block
  <2>. QED BY <1>5, <1>6, <1>9, <2>1
<1>14. CASE io_error BY <1>5, <1>6, <1>9, <1>14 DEF io_error
<1>15. CASE Command
  <2>1. CASE kzeros_close BY <1>5, <1>6, <1>9, <2>1 DEF kzeros_close
  <2>2. ASSUME NEW p \in Paths,
               \/ kzeros_mkdir(p) \/ kzeros_touch(p) \/ kzeros_rm(p)
               \/ \E op \in {"mkdir", "touch"} : blind_create(p, op)
               \/ \E v \in Vals, n \in 0 .. MaxLen : kzeros_write_file(p, v, n)
        PROVE  Chain(q, j)'
    <3>1. cwd_path' = cwd_path /\ cwd' = cwd
      BY <2>2, Zenon DEF kzeros_mkdir, kzeros_touch, kzeros_rm, blind_create,
         kzeros_write_file, Create
    <3>. QED BY <1>5, <1>6, <1>9, <3>1
  <2>. QED BY <1>0, <1>10, <1>11, <1>15, <2>1, <2>2 DEF Command, Strays
<1>. QED BY <1>10, <1>12, <1>13, <1>14, <1>15 DEF Next

(* On a formatted disk the working directory is the root. *)
LEMMA KInitPwd == Init => KPwdInv
<1>. SUFFICES ASSUME Init PROVE Chain(cwd_path, cwd) BY DEF KPwdInv
<1>1. KTree BY KInitGood DEF KGood
<1>2. cwd_path = <<>> /\ cwd = ROOT BY DEF Init
<1>. QED BY <1>1, <1>2, ChainEmpty

Walked(path, f) ==
  f = [n \in 0 .. Len(path) |->
         IF n = 0 THEN ROOT
         ELSE IF Readable(itab, f[n - 1]) THEN dir_lookup(itab, data, f[n - 1], path[n])
         ELSE NIL]

(* Following the names one by one goes along the links: with one name once *)
(* in a directory, there is nowhere else to go.                            *)
LEMMA ChainWalk ==
  ASSUME KTyped, KTree, OneName, NEW path, path \in Seq(Components), NEW j, Chain(path, j)
  PROVE  Walk(path) = j
<1>. DEFINE L == Len(path)
<1>1. PICK at : ChainAt(at, path, j) BY DEF Chain
<1>2. L \in Nat OBVIOUS
<1>3. /\ at[0] = ROOT /\ at[L] = j /\ \A n \in 0 .. L : at[n] \in live
      /\ \A n \in 1 .. L : LinkNamed(at[n - 1], path[n], at[n])
  BY <1>1 DEF ChainAt
<1>4. ASSUME NEW n \in 1 .. L
      PROVE  /\ dir_lookup(itab, data, at[n - 1], path[n]) = at[n]
             /\ Readable(itab, at[n - 1])
  <2>1. PICK i, k, m : i = at[n - 1] /\ k = at[n] /\ m = path[n] OBVIOUS
  <2>2. n - 1 \in 0 .. L BY <1>2
  <2>3. i \in live /\ i \in Inodes /\ LinkNamed(i, m, k) BY <1>3, <2>1, <2>2, KFacts
  <2>4. PICK b \in DataBlocks, s \in Slots :
             IsLink(i, b, s) /\ Ent(b, s).name = m /\ Ent(b, s).inode = k
    BY <2>3 DEF LinkNamed
  <2>5. /\ b \in BlocksOf(itab[i]) /\ Ent(b, s).inode # NIL /\ itab[i].mode = "dir"
        /\ m \notin {".", ".."}
    BY <2>4 DEF IsLink, Used
  <2>6. PICK h : h = dir_lookup(itab, data, i, m) OBVIOUS
  <2>7. h # NIL BY <2>3, <2>4, <2>5, <2>6, LookupHit
  <2>8. PICK d \in DataBlocks, r \in Slots :
             d \in BlocksOf(itab[i]) /\ Ent(d, r).inode = h /\ Ent(d, r).name = m
    BY <2>3, <2>6, <2>7, LookupHit
  <2>9. IsLink(i, d, r) BY <2>3, <2>5, <2>7, <2>8 DEF IsLink, Used
  <2>10. b = d /\ s = r BY <2>3, <2>4, <2>8, <2>9 DEF OneName
  <2>11. h = k BY <2>4, <2>8, <2>10
  <2>12. Readable(itab, i) BY <2>3, LiveReadable
  <2>. QED BY <2>1, <2>6, <2>11, <2>12
<1>. DEFINE f == [n \in 0 .. L |-> at[n]]  g == CHOOSE x : Walked(path, x)
<1>5. Walked(path, f)
  <2>1. ASSUME NEW n \in 0 .. L
        PROVE  f[n] = IF n = 0 THEN ROOT
                      ELSE IF Readable(itab, f[n - 1])
                      THEN dir_lookup(itab, data, f[n - 1], path[n]) ELSE NIL
    <3>1. CASE n = 0 BY <1>2, <1>3, <3>1
    <3>2. CASE n # 0
      <4>1. n \in 1 .. L /\ n - 1 \in 0 .. L BY <1>2, <3>2
      <4>2. f[n] = at[n] /\ f[n - 1] = at[n - 1] BY <4>1
      <4>. QED BY <1>4, <3>2, <4>1, <4>2
    <3>. QED BY <3>1, <3>2
  <2>2. f = [n \in 0 .. L |-> f[n]] OBVIOUS
  <2>. HIDE DEF f
  <2>. QED BY <2>1, <2>2 DEF Walked
<1>6. Walked(path, g)
  <2>. HIDE DEF f
  <2>. QED BY <1>5
<1>7. Walk(path) = g[L] BY DEF Walk, Walked
<1>. HIDE DEF f, g, L
<1>8. \A n \in 0 .. L :
        g[n] = IF n = 0 THEN ROOT
               ELSE IF Readable(itab, g[n - 1])
               THEN dir_lookup(itab, data, g[n - 1], path[n]) ELSE NIL
  BY <1>6 DEF Walked, L
<1>. DEFINE S == {n \in Nat : n <= L => g[n] = at[n]}
<1>9. 0 \in S BY <1>2, <1>3, <1>8
<1>10. ASSUME NEW n \in Nat, n \in S PROVE n + 1 \in S
  <2>1. SUFFICES ASSUME n + 1 <= L PROVE g[n + 1] = at[n + 1] BY <1>10
  <2>2. /\ n + 1 \in 0 .. L /\ n + 1 \in 1 .. L /\ (n + 1) - 1 = n /\ n <= L /\ n + 1 # 0
    BY <1>2, <2>1
  <2>3. g[n] = at[n] BY <1>10, <2>2
  <2>4. dir_lookup(itab, data, at[n], path[n + 1]) = at[n + 1] /\ Readable(itab, at[n])
    BY <1>4, <2>2
  <2>5. g[n + 1] = IF Readable(itab, g[n]) THEN dir_lookup(itab, data, g[n], path[n + 1])
                   ELSE NIL
    <3>. HIDE DEF S
    <3>. QED BY <1>8, <2>2
  <2>. QED BY <2>3, <2>4, <2>5
<1>11. Nat \subseteq S
  <2>. HIDE DEF S
  <2>. QED BY <1>9, <1>10, NatSetInduction
<1>12. g[L] = at[L] BY <1>2, <1>11
<1>. QED BY <1>3, <1>7, <1>12

(* cwd_path, which the prompt and ls go by, resolves to cwd_ino, which the *)
(* commands work in, as long as cd was given no "." or ".." inside a path: *)
(* whatever is created, removed, cut short or lost.                        *)
THEOREM KPwdIsCwd == Spec => []PwdMatchesCwd
<1>1. KInv /\ KPwdInv => PwdMatchesCwd
  <2>1. SUFFICES ASSUME KInv, KPwdInv, harm \cap {"torn", "twin", "text"} = {}
                 PROVE  Walk(cwd_path) = cwd
    BY DEF PwdMatchesCwd
  <2>2. KTyped /\ KGood /\ OneName /\ Chain(cwd_path, cwd)
    BY <2>1 DEF KInv, KGoodInv, OneNameInv, KPwdInv, Sound
  <2>3. KTree /\ cwd_path \in Seq(Components) BY <2>2 DEF KGood, KTyped, TypeOK
  <2>. QED BY <2>2, <2>3, ChainWalk
<1>. QED BY <1>1, KInitInv, KStepInv, KInitPwd, KStepPwd, PTL DEF Spec
=============================================================================
