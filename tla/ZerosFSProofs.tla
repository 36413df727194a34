--------------------------- MODULE ZerosFSProofs ----------------------------
(***************************************************************************)
(* The on-disk format, proved for every geometry: what the walks of an     *)
(* inode's extents and of a directory's entries find, and what the writers *)
(* of both change.  Nothing here depends on which program does it.         *)
(***************************************************************************)
EXTENDS ZerosFS, ZerosLemmas

(* The bit a bitmap scan returns is one of the clear ones. *)
LEMMA LowestClearIn ==
  ASSUME NEW S, S \subseteq Nat, S # {}
  PROVE  LowestClear(S) \in S
BY NatHasLeast DEF LowestClear

(* A scan of the cells of a directory that has a match stops at a match. *)
LEMMA FirstCellIn ==
  ASSUME NEW P, P \subseteq Nat \X Nat \X Nat, P # {}
  PROVE  FirstCell(P) \in P
<1>1. PICK x \in {p[1] : p \in P} : \A y \in {p[1] : p \in P} : x <= y
  <2>1. {p[1] : p \in P} \subseteq Nat /\ {p[1] : p \in P} # {} OBVIOUS
  <2>. QED BY <2>1, NatHasLeast
<1>2. PICK y \in {p[2] : p \in {q \in P : q[1] = x}} :
        \A z \in {p[2] : p \in {q \in P : q[1] = x}} : y <= z
  <2>1. /\ {p[2] : p \in {q \in P : q[1] = x}} \subseteq Nat
        /\ {p[2] : p \in {q \in P : q[1] = x}} # {}
    BY <1>1
  <2>. QED BY <2>1, NatHasLeast
<1>3. PICK z \in {p[3] : p \in {q \in P : q[1] = x /\ q[2] = y}} :
        \A w \in {p[3] : p \in {q \in P : q[1] = x /\ q[2] = y}} : z <= w
  <2>1. /\ {p[3] : p \in {q \in P : q[1] = x /\ q[2] = y}} \subseteq Nat
        /\ {p[3] : p \in {q \in P : q[1] = x /\ q[2] = y}} # {}
    BY <1>2
  <2>. QED BY <2>1, NatHasLeast
<1>4. PICK p \in P : p[1] = x /\ p[2] = y /\ p[3] = z
  BY <1>3
<1>5. ASSUME NEW q \in P PROVE ScannedBefore(p, q)
  <2>1. q[1] \in Nat /\ q[2] \in Nat /\ q[3] \in Nat
    OBVIOUS
  <2>2. p[1] \in Nat /\ p[2] \in Nat /\ p[3] \in Nat
    OBVIOUS
  <2>3. x <= q[1]
    BY <1>1
  <2>4. q[1] = x => y <= q[2]
    BY <1>2
  <2>5. q[1] = x /\ q[2] = y => z <= q[3]
    BY <1>3
  <2>. QED BY <1>4, <2>1, <2>2, <2>3, <2>4, <2>5 DEF ScannedBefore
<1>. QED BY <1>5 DEF FirstCell

-----------------------------------------------------------------------------
(* Blocks of an inode whose extents lie in the data area. *)

(* Every block a walk of an inode visits is a data block: what
   dir_lookup, zeros_read_file and free_block are applied to. *)
LEMMA BlockAtInData ==
  ASSUME NEW n \in Inode, ExtentsInData(n.extents),
         NEW e \in 1 .. Len(n.extents), NEW b \in Nat,
         b < n.extents[e].length
  PROVE  n.extents[e].start + b \in DataBlocks
<1>1. n.extents \in Seq(Extent) BY DEF Inode
<1>2. n.extents[e] \in Extent BY <1>1
<1>3. n.extents[e].start \in Nat /\ n.extents[e].length \in Nat
  BY <1>2 DEF Extent
<1>4. /\ n.extents[e].start >= DataStart
      /\ n.extents[e].start + n.extents[e].length <= TotalBlocks
  BY DEF ExtentsInData
<1>. QED BY <1>3, <1>4, GeometryAssumption DEF DataBlocks

(* So is the set of all its blocks. *)
LEMMA BlocksOfInData ==
  ASSUME NEW n \in Inode, ExtentsInData(n.extents)
  PROVE  BlocksOf(n) \subseteq DataBlocks
<1>1. SUFFICES ASSUME NEW p \in BlockPos(n)
               PROVE  BlockAt(n, p) \in DataBlocks
  BY DEF BlocksOf
<1>2. /\ p[1] \in 1 .. Len(n.extents)
      /\ p[2] \in Nat
      /\ p[2] < n.extents[p[1]].length
  BY DEF BlockPos
<1>. QED BY <1>2, BlockAtInData DEF BlockAt

(* An inode has finitely many blocks, so counting them is meaningful. *)
LEMMA BlockPosFinite ==
  ASSUME NEW n \in Inode
  PROVE  IsFiniteSet(BlockPos(n)) /\ Cardinality(BlockPos(n)) \in Nat
<1>1. Len(n.extents) \in Int /\ TotalBlocks - 1 \in Int
  BY GeometryAssumption DEF Inode
<1>2. IsFiniteSet(1 .. Len(n.extents)) /\ IsFiniteSet(0 .. TotalBlocks - 1)
  BY <1>1, FS_Interval
<1>3. IsFiniteSet((1 .. Len(n.extents)) \X (0 .. TotalBlocks - 1))
  BY <1>2, FS_Product, Zenon
<1>4. BlockPos(n) \subseteq (1 .. Len(n.extents)) \X (0 .. TotalBlocks - 1)
  BY DEF BlockPos
<1>5. IsFiniteSet(BlockPos(n))
  BY <1>3, <1>4, FS_Subset, Zenon
<1>. QED BY <1>5, FS_CardinalityType

(* A cell of a directory names a data block and a slot of it. *)
LEMMA CellFacts ==
  ASSUME NEW n \in Inode, ExtentsInData(n.extents), NEW p \in Cells(n)
  PROVE  /\ p \in Nat \X Nat \X Nat
         /\ BlockAt(n, p) \in DataBlocks
         /\ p[3] \in Slots
<1>0. n.extents \in Seq(Extent) BY DEF Inode
<1>1. /\ p \in (1 .. Len(n.extents)) \X (0 .. TotalBlocks - 1) \X Slots
      /\ p[2] < n.extents[p[1]].length
  BY DEF Cells
<1>2. /\ p[1] \in 1 .. Len(n.extents) /\ p[2] \in Nat /\ p[3] \in Slots
  BY <1>1
<1>3. BlockAt(n, p) \in DataBlocks
  BY <1>1, <1>2, BlockAtInData DEF BlockAt
<1>4. p \in Nat \X Nat \X Nat
  BY <1>0, <1>1, GeometryAssumption DEF Slots
<1>. QED BY <1>2, <1>3, <1>4

(* What is read at a cell is a directory entry. *)
LEMMA EntryType ==
  ASSUME NEW n \in Inode, ExtentsInData(n.extents), NEW p \in Cells(n),
         NEW d \in [DataBlocks -> Block]
  PROVE  EntryAt(d, n, p) \in Dirent
<1>1. d[BlockAt(n, p)] \in Block BY CellFacts
<1>2. d[BlockAt(n, p)].ent \in [Slots -> Dirent] BY <1>1 DEF Block
<1>. QED BY <1>2, CellFacts DEF EntryAt

(* dir_lookup returns UINT32_MAX or a number, of the table or beyond it. *)
LEMMA LookupType ==
  ASSUME NEW t \in [Inodes -> Inode], NEW d \in [DataBlocks -> Block],
         NEW i \in Inodes, ExtentsInData(t[i].extents), NEW name
  PROVE  dir_lookup(t, d, i, name) \in Inodes \cup {NIL, OUT}
<1>. DEFINE hits == CellsNamed(d, t[i], name)
<1>1. CASE hits = {}
  BY <1>1 DEF dir_lookup
<1>2. CASE hits # {}
  <2>0. t[i] \in Inode OBVIOUS
  <2>1. hits \subseteq Cells(t[i]) BY DEF CellsNamed
  <2>2. hits \subseteq Nat \X Nat \X Nat BY <2>0, <2>1, CellFacts
  <2>3. FirstCell(hits) \in hits BY <1>2, <2>2, FirstCellIn
  <2>4. EntryAt(d, t[i], FirstCell(hits)) \in Dirent
    BY <2>0, <2>1, <2>3, EntryType
  <2>5. EntryAt(d, t[i], FirstCell(hits)).inode \in Inodes \cup {NIL, OUT}
    BY <2>4 DEF Dirent
  <2>. QED BY <1>2, <2>5 DEF dir_lookup
<1>. QED BY <1>1, <1>2

(* Root is an inode number, UINT32_MAX is not. *)
LEMMA RootInodes == ROOT \in Inodes /\ NIL \notin Inodes
BY GeometryAssumption DEF ROOT, NIL, Inodes

-----------------------------------------------------------------------------
(* What the writers put on disk. *)

(* The block mkdir writes is a block of directory entries. *)
LEMMA DirBlockTyped ==
  ASSUME NEW i \in Inodes, NEW j \in Inodes
  PROVE  DirBlock(i, j) \in Block
<1>1. EmptyDirBlock \in Block
  BY DEF EmptyDirBlock, Block, FreeDirent, Dirent, Types
<1>2. /\ [inode |-> i, type |-> "dir", name |-> "."] \in Dirent
      /\ [inode |-> j, type |-> "dir", name |-> ".."] \in Dirent
  BY DEF Dirent, Components, Types
<1>. QED BY <1>1, <1>2 DEF DirBlock, Block

(* A one-block extent on a data block lies in the data area. *)
LEMMA OneBlockFacts ==
  ASSUME NEW b \in DataBlocks
  PROVE  /\ OneBlock(b) \in Extent
         /\ OneBlock(b).length > 0
         /\ OneBlock(b).start >= DataStart
         /\ OneBlock(b).start + OneBlock(b).length <= TotalBlocks
BY GeometryAssumption DEF OneBlock, Extent, DataBlocks

(* dir_add_entry may append an extent while fewer than MaxExtents exist. *)
LEMMA AppendExtent ==
  ASSUME NEW ext \in Seq(Extent), ExtentsInData(ext), Len(ext) < MaxExtents,
         NEW b \in DataBlocks
  PROVE  /\ Append(ext, OneBlock(b)) \in Seq(Extent)
         /\ ExtentsInData(Append(ext, OneBlock(b)))
BY OneBlockFacts, GeometryAssumption DEF ExtentsInData

(* GrowExtents never opens one extent too many and never leaves the disk,  *)
(* also when it extends the last extent up to the last block.              *)
LEMMA GrowExtentsFacts ==
  ASSUME NEW ext \in Seq(Extent), ExtentsInData(ext), Len(ext) < MaxExtents,
         NEW b \in DataBlocks
  PROVE  /\ GrowExtents(ext, b) \in Seq(Extent)
         /\ ExtentsInData(GrowExtents(ext, b))
<1>. DEFINE k == Len(ext)
<1>1. CASE k > 0 /\ ext[k].start + ext[k].length = b
  <2>1. GrowExtents(ext, b) = [ext EXCEPT ![k].length = @ + 1]
    BY <1>1 DEF GrowExtents
  <2>2. k \in 1 .. Len(ext) /\ ext[k] \in Extent
    BY <1>1
  <2>3. ext[k].start \in Nat /\ ext[k].length \in Nat
    BY <2>2 DEF Extent
  <2>4. [ext[k] EXCEPT !.length = @ + 1] \in Extent
    BY <2>2, <2>3 DEF Extent
  <2>5. GrowExtents(ext, b) \in Seq(Extent) /\ Len(GrowExtents(ext, b)) = k
    BY <2>1, <2>2, <2>4
  <2>6. \A e \in 1 .. k : GrowExtents(ext, b)[e] =
          IF e = k THEN [ext[k] EXCEPT !.length = @ + 1] ELSE ext[e]
    BY <2>1
  <2>7. ext[k].start + (ext[k].length + 1) <= TotalBlocks
    BY <1>1, <2>3, GeometryAssumption DEF DataBlocks
  <2>8. /\ [ext[k] EXCEPT !.length = @ + 1].length = ext[k].length + 1
        /\ [ext[k] EXCEPT !.length = @ + 1].start = ext[k].start
    BY <2>2 DEF Extent
  <2>9. ASSUME NEW e \in 1 .. k
        PROVE  /\ GrowExtents(ext, b)[e].length > 0
               /\ GrowExtents(ext, b)[e].start >= DataStart
               /\ GrowExtents(ext, b)[e].start + GrowExtents(ext, b)[e].length
                    <= TotalBlocks
    <3>1. CASE e = k
      <4>1. /\ GrowExtents(ext, b)[e].length = ext[k].length + 1
            /\ GrowExtents(ext, b)[e].start = ext[k].start
        BY <2>6, <2>8, <3>1
      <4>2. ext[k].start >= DataStart
        BY <2>2 DEF ExtentsInData
      <4>. QED BY <2>3, <2>7, <4>1, <4>2
    <3>2. CASE e # k
      <4>1. GrowExtents(ext, b)[e] = ext[e]
        BY <2>6, <3>2
      <4>. QED BY <4>1 DEF ExtentsInData
    <3>. QED BY <3>1, <3>2
  <2>. QED BY <2>5, <2>9 DEF ExtentsInData
<1>2. CASE ~(k > 0 /\ ext[k].start + ext[k].length = b)
  BY <1>2, AppendExtent DEF GrowExtents
<1>. QED BY <1>1, <1>2

-----------------------------------------------------------------------------
(* Blocks of an inode, as a set. *)

(* The blocks of an inode depend on its extents alone. *)
LEMMA SameExtents ==
  ASSUME NEW m, NEW n, m.extents = n.extents
  PROVE  /\ BlockPos(m) = BlockPos(n) /\ BlocksOf(m) = BlocksOf(n)
         /\ NoRepeat(m) <=> NoRepeat(n)
<1>1. BlockPos(m) = BlockPos(n) BY DEF BlockPos
<1>2. \A p : BlockAt(m, p) = BlockAt(n, p) BY DEF BlockAt
<1>. QED BY <1>1, <1>2 DEF BlocksOf, NoRepeat

(* An inode without extents has no blocks. *)
LEMMA NoBlocks ==
  ASSUME NEW n, n.extents = <<>>
  PROVE  BlockPos(n) = {} /\ BlocksOf(n) = {} /\ NoRepeat(n)
<1>1. BlockPos(n) = {} BY DEF BlockPos
<1>. QED BY <1>1 DEF BlocksOf, NoRepeat

(* An inode with one extent of one block has that block. *)
LEMMA SingleBlock ==
  ASSUME NEW n, NEW b \in DataBlocks, n.extents = <<OneBlock(b)>>
  PROVE  BlockPos(n) = {<<1, 0>>} /\ BlocksOf(n) = {b} /\ NoRepeat(n)
<1>1. Len(n.extents) = 1 /\ n.extents[1].start = b /\ n.extents[1].length = 1
  BY DEF OneBlock
<1>2. BlockPos(n) = {<<1, 0>>}
  <2>1. \A p \in (1 .. 1) \X (0 .. TotalBlocks - 1) :
           p[2] < n.extents[p[1]].length <=> p = <<1, 0>>
    BY <1>1, GeometryAssumption
  <2>2. <<1, 0>> \in (1 .. 1) \X (0 .. TotalBlocks - 1) BY GeometryAssumption
  <2>. QED BY <1>1, <2>1, <2>2 DEF BlockPos
<1>3. BlockAt(n, <<1, 0>>) = b BY <1>1 DEF BlockAt, DataBlocks
<1>. QED BY <1>2, <1>3 DEF BlocksOf, NoRepeat

(* n is m with one more block, at the end. *)
GrowsBy(m, n, b) ==
  \E new : /\ new \notin BlockPos(m) /\ BlockPos(n) = BlockPos(m) \cup {new}
           /\ BlockAt(n, new) = b
           /\ \A p \in BlockPos(m) : BlockAt(n, p) = BlockAt(m, p)

(* An inode that grows by a block has the blocks it had and that one, and  *)
(* none twice if it was not there yet.                                     *)
LEMMA OneMoreBlock ==
  ASSUME NEW m, NEW n, NEW b, GrowsBy(m, n, b)
  PROVE  /\ BlocksOf(n) = BlocksOf(m) \cup {b}
         /\ NoRepeat(m) /\ b \notin BlocksOf(m) => NoRepeat(n)
<1>0. PICK new : /\ new \notin BlockPos(m) /\ BlockPos(n) = BlockPos(m) \cup {new}
                 /\ BlockAt(n, new) = b
                 /\ \A p \in BlockPos(m) : BlockAt(n, p) = BlockAt(m, p)
  BY DEF GrowsBy
<1>1. BlocksOf(n) = BlocksOf(m) \cup {b} BY <1>0 DEF BlocksOf
<1>2. ASSUME NoRepeat(m), b \notin BlocksOf(m) PROVE NoRepeat(n)
  BY <1>0, <1>2 DEF NoRepeat, BlocksOf
<1>. QED BY <1>1, <1>2

(* dir_add_entry's new extent adds its block and no other. *)
LEMMA AppendPos ==
  ASSUME NEW m, NEW n, m.extents \in Seq(Extent), ExtentsInData(m.extents),
         NEW b \in DataBlocks, n.extents = Append(m.extents, OneBlock(b))
  PROVE  GrowsBy(m, n, b)
<1>. DEFINE k == Len(m.extents)  new == <<k + 1, 0>>
<1>1. /\ k \in Nat /\ Len(n.extents) = k + 1
      /\ \A e \in 1 .. k : n.extents[e] = m.extents[e]
      /\ n.extents[k + 1].start = b /\ n.extents[k + 1].length = 1
  BY OneBlockFacts DEF OneBlock
<1>2. new \notin BlockPos(m) BY <1>1 DEF BlockPos
<1>3. \A e \in 1 .. k + 1 : e \in 1 .. k \/ e = k + 1 BY <1>1
<1>4. ASSUME NEW p \in BlockPos(n) PROVE p \in BlockPos(m) \cup {new}
  <2>1. /\ p \in (1 .. k + 1) \X (0 .. TotalBlocks - 1)
        /\ p[2] < n.extents[p[1]].length
    BY <1>1 DEF BlockPos
  <2>2. CASE p[1] \in 1 .. k BY <1>1, <2>1, <2>2 DEF BlockPos
  <2>3. CASE p[1] = k + 1
    <3>1. p[2] = 0 BY <1>1, <2>1, <2>3, GeometryAssumption
    <3>. QED BY <2>1, <2>3, <3>1
  <2>. QED BY <1>3, <2>1, <2>2, <2>3
<1>5. ASSUME NEW p \in BlockPos(m) PROVE p \in BlockPos(n) /\ BlockAt(n, p) = BlockAt(m, p)
  <2>1. /\ p \in (1 .. k) \X (0 .. TotalBlocks - 1) /\ p[2] < m.extents[p[1]].length
    BY DEF BlockPos
  <2>2. p[1] \in 1 .. k /\ p[1] \in 1 .. k + 1 BY <1>1, <2>1
  <2>. QED BY <1>1, <2>1, <2>2 DEF BlockPos, BlockAt
<1>6. new \in BlockPos(n) BY <1>1, GeometryAssumption DEF BlockPos
<1>7. BlockAt(n, new) = b BY <1>1 DEF BlockAt, DataBlocks
<1>. QED BY <1>2, <1>4, <1>5, <1>6, <1>7 DEF GrowsBy

(* So does a block zeros_write_file adds to its extents. *)
LEMMA GrowPos ==
  ASSUME NEW m, NEW n, m.extents \in Seq(Extent), ExtentsInData(m.extents),
         NEW b \in DataBlocks, n.extents = GrowExtents(m.extents, b)
  PROVE  GrowsBy(m, n, b)
<1>. DEFINE ext == m.extents  k == Len(ext)
<1>1. CASE k > 0 /\ ext[k].start + ext[k].length = b
  <2>. DEFINE new == <<k, ext[k].length>>
  <2>1. n.extents = [ext EXCEPT ![k].length = @ + 1]
    BY <1>1 DEF GrowExtents
  <2>2. k \in 1 .. k /\ k \in Nat /\ ext[k] \in Extent /\ DOMAIN ext = 1 .. k BY <1>1
  <2>3. ext[k].start \in Nat /\ ext[k].length \in Nat BY <2>2 DEF Extent
  <2>4. /\ Len(n.extents) = k
        /\ \A e \in 1 .. k : e # k => n.extents[e] = ext[e]
        /\ n.extents[k].start = ext[k].start
        /\ n.extents[k].length = ext[k].length + 1
    BY <2>1, <2>2 DEF Extent
  <2>5. ext[k].length \in 0 .. TotalBlocks - 1
    BY <1>1, <2>2, <2>3, GeometryAssumption DEF DataBlocks, ExtentsInData
  <2>6. new \notin BlockPos(m) BY <2>3 DEF BlockPos
  <2>7. ASSUME NEW p \in BlockPos(n) PROVE p \in BlockPos(m) \cup {new}
    <3>1. p \in (1 .. k) \X (0 .. TotalBlocks - 1) /\ p[2] < n.extents[p[1]].length
      BY <2>4 DEF BlockPos
    <3>2. CASE p[1] # k BY <2>4, <3>1, <3>2 DEF BlockPos
    <3>3. CASE p[1] = k
      <4>1. p[2] < ext[k].length \/ p[2] = ext[k].length
        BY <2>3, <2>4, <3>1, <3>3, GeometryAssumption
      <4>. QED BY <3>1, <3>3, <4>1 DEF BlockPos
    <3>. QED BY <3>2, <3>3
  <2>8. ASSUME NEW p \in BlockPos(m) PROVE p \in BlockPos(n) /\ BlockAt(n, p) = BlockAt(m, p)
    <3>1. p \in (1 .. k) \X (0 .. TotalBlocks - 1) /\ p[2] < ext[p[1]].length
      BY DEF BlockPos
    <3>2. p[2] \in Nat /\ p[2] < n.extents[p[1]].length
      BY <2>3, <2>4, <3>1, GeometryAssumption
    <3>3. n.extents[p[1]].start = ext[p[1]].start BY <2>4, <3>1
    <3>. QED BY <2>4, <3>1, <3>2, <3>3 DEF BlockPos, BlockAt
  <2>9. new \in BlockPos(n) BY <2>2, <2>3, <2>4, <2>5 DEF BlockPos
  <2>10. BlockAt(n, new) = b BY <1>1, <2>4 DEF BlockAt
  <2>. QED BY <2>6, <2>7, <2>8, <2>9, <2>10 DEF GrowsBy
<1>2. CASE ~(k > 0 /\ ext[k].start + ext[k].length = b)
  <2>1. n.extents = Append(m.extents, OneBlock(b)) BY <1>2 DEF GrowExtents
  <2>. QED BY <2>1, AppendPos
<1>. QED BY <1>1, <1>2

-----------------------------------------------------------------------------
(* Looking a name up. *)

(* The cells of an inode are the slots of its blocks. *)
LEMMA CellBlock ==
  ASSUME NEW n, NEW p \in Cells(n)
  PROVE  BlockAt(n, p) \in BlocksOf(n) /\ p[3] \in Slots
<1>1. <<p[1], p[2]>> \in BlockPos(n) BY DEF Cells, BlockPos
<1>2. BlockAt(n, p) = BlockAt(n, <<p[1], p[2]>>) BY DEF BlockAt
<1>3. p[3] \in Slots BY DEF Cells
<1>. QED BY <1>1, <1>2, <1>3 DEF BlocksOf

(* Every slot of a block of an inode is a cell of its entries. *)
LEMMA BlockCell ==
  ASSUME NEW n, NEW b \in BlocksOf(n), NEW s \in Slots
  PROVE  \E p \in Cells(n) : BlockAt(n, p) = b /\ p[3] = s
<1>1. PICK q \in BlockPos(n) : b = BlockAt(n, q) BY DEF BlocksOf
<1>2. <<q[1], q[2], s>> \in Cells(n) BY <1>1 DEF BlockPos, Cells
<1>3. BlockAt(n, <<q[1], q[2], s>>) = b BY <1>1 DEF BlockAt
<1>. QED BY <1>2, <1>3

(* dir_lookup finds an entry of that name, and fails only if there is none. *)
LEMMA LookupFacts ==
  ASSUME NEW t \in [Inodes -> Inode], NEW d \in [DataBlocks -> Block],
         NEW i \in Inodes, ExtentsInData(t[i].extents), NEW name
  PROVE  LET j == dir_lookup(t, d, i, name) IN
         /\ j = NIL => \A b \in BlocksOf(t[i]), s \in Slots :
                         d[b].ent[s].inode # NIL => d[b].ent[s].name # name
         /\ j # NIL => \E b \in BlocksOf(t[i]), s \in Slots :
                         d[b].ent[s].inode = j /\ d[b].ent[s].name = name
<1>. DEFINE n == t[i]  hits == CellsNamed(d, n, name)  j == dir_lookup(t, d, i, name)
<1>0. n \in Inode OBVIOUS
<1>1. \A p \in hits : /\ p \in Cells(n) /\ EntryAt(d, n, p).inode # NIL
                      /\ EntryAt(d, n, p).name = name
  BY DEF CellsNamed
<1>2. CASE hits = {}
  <2>1. j = NIL BY <1>2 DEF dir_lookup
  <2>2. ASSUME NEW b \in BlocksOf(n), NEW s \in Slots, d[b].ent[s].inode # NIL,
               d[b].ent[s].name = name
        PROVE  FALSE
    <3>1. PICK p \in Cells(n) : BlockAt(n, p) = b /\ p[3] = s BY BlockCell
    <3>2. EntryAt(d, n, p) = d[b].ent[s] BY <3>1 DEF EntryAt
    <3>3. p \in hits BY <2>2, <3>1, <3>2 DEF CellsNamed
    <3>. QED BY <1>2, <3>3
  <2>. QED BY <2>1, <2>2
<1>3. CASE hits # {}
  <2>. DEFINE f == FirstCell(hits)
  <2>1. hits \subseteq Nat \X Nat \X Nat BY <1>0, <1>1, CellFacts
  <2>2. f \in hits BY <1>3, <2>1, FirstCellIn
  <2>3. j = EntryAt(d, n, f).inode BY <1>3 DEF dir_lookup
  <2>4. f \in Cells(n) /\ EntryAt(d, n, f).inode # NIL /\ EntryAt(d, n, f).name = name
    BY <1>1, <2>2
  <2>5. BlockAt(n, f) \in BlocksOf(n) /\ f[3] \in Slots BY <2>4, CellBlock
  <2>6. EntryAt(d, n, f) = d[BlockAt(n, f)].ent[f[3]] BY DEF EntryAt
  <2>. QED BY <2>3, <2>4, <2>5, <2>6
<1>. QED BY <1>2, <1>3

(* A new directory's block: "." and "..", nothing else. *)
LEMMA DirBlockEntries ==
  ASSUME NEW i \in Inodes, NEW k \in Inodes, NEW s \in Slots
  PROVE  /\ s = 0 => DirBlock(i, k).ent[s].inode = i /\ DirBlock(i, k).ent[s].name = "."
         /\ s = 1 => DirBlock(i, k).ent[s].inode = k /\ DirBlock(i, k).ent[s].name = ".."
         /\ s \notin {0, 1} => DirBlock(i, k).ent[s].inode = NIL
         /\ 0 \in Slots /\ 1 \in Slots
<1>1. 0 \in Slots /\ 1 \in Slots BY GeometryAssumption DEF Slots
<1>2. EmptyDirBlock.ent \in [Slots -> {FreeDirent}] /\ EmptyDirBlock.ent[s] = FreeDirent
  BY DEF EmptyDirBlock
<1>. DEFINE dot == [inode |-> i, type |-> "dir", name |-> "."]
            up  == [inode |-> k, type |-> "dir", name |-> ".."]
<1>3. DirBlock(i, k).ent = [[EmptyDirBlock.ent EXCEPT ![0] = dot] EXCEPT ![1] = up]
  BY DEF DirBlock, EmptyDirBlock
<1>. HIDE DEF dot, up
<1>4. DirBlock(i, k).ent[s] =
        IF s = 1 THEN up ELSE IF s = 0 THEN dot ELSE FreeDirent
  BY <1>1, <1>2, <1>3
<1>5. /\ dot.inode = i /\ dot.name = "." /\ up.inode = k /\ up.name = ".."
      /\ FreeDirent.inode = NIL
  BY DEF dot, up, FreeDirent
<1>. QED BY <1>1, <1>4, <1>5

-----------------------------------------------------------------------------
(* Counting. *)

(* Setting a bit that was clear takes one from the clear ones. *)
LEMMA MarkOne ==
  ASSUME NEW U, IsFiniteSet(U), NEW B, NEW x \in U \ B
  PROVE  /\ Cardinality(U \ (B \cup {x})) = Cardinality(U \ B) - 1
         /\ Cardinality(U \ B) \in Nat \ {0}
<1>1. IsFiniteSet(U \ B) BY FS_Difference
<1>2. U \ (B \cup {x}) = (U \ B) \ {x} OBVIOUS
<1>3. Cardinality(U \ B) \in Nat BY <1>1, FS_CardinalityType
<1>4. Cardinality(U \ B) # 0 BY <1>1, FS_EmptySet
<1>5. Cardinality((U \ B) \ {x}) = Cardinality(U \ B) - 1 BY <1>1, FS_RemoveElement
<1>. QED BY <1>2, <1>3, <1>4, <1>5

(* Clearing bits that were set adds as many. *)
LEMMA UnmarkMany ==
  ASSUME NEW U, IsFiniteSet(U), NEW B, NEW X, X \subseteq U, X \subseteq B
  PROVE  /\ Cardinality(U \ (B \ X)) = Cardinality(U \ B) + Cardinality(X)
         /\ Cardinality(U \ (B \ X)) <= Cardinality(U)
         /\ Cardinality(U \ B) \in Nat /\ Cardinality(X) \in Nat
<1>1. IsFiniteSet(U \ B) /\ IsFiniteSet(X) BY FS_Difference, FS_Subset
<1>2. U \ (B \ X) = (U \ B) \cup X /\ (U \ B) \cap X = {} OBVIOUS
<1>3. Cardinality(U \ B) \in Nat /\ Cardinality(X) \in Nat BY <1>1, FS_CardinalityType
<1>4. Cardinality((U \ B) \cup X) =
        Cardinality(U \ B) + Cardinality(X) - Cardinality((U \ B) \cap X)
  BY <1>1, FS_Union
<1>5. Cardinality((U \ B) \cap X) = 0 BY <1>2, FS_EmptySet
<1>6. Cardinality(U \ (B \ X)) <= Cardinality(U) BY FS_Subset
<1>7. Cardinality((U \ B) \cup X) = Cardinality(U \ B) + Cardinality(X)
  BY <1>3, <1>4, <1>5
<1>. QED BY <1>2, <1>3, <1>6, <1>7

(* An inode that names no block twice has as many blocks as positions. *)
LEMMA BlockCount ==
  ASSUME NEW n \in Inode, NoRepeat(n)
  PROVE  Cardinality(BlockPos(n)) = Cardinality(BlocksOf(n))
<1>. DEFINE f == [p \in BlockPos(n) |-> BlockAt(n, p)]
<1>1. f \in Surjection(BlockPos(n), BlocksOf(n)) BY DEF Surjection, BlocksOf
<1>2. f \in Injection(BlockPos(n), BlocksOf(n))
  BY <1>1 DEF Injection, IsInjective, Surjection, NoRepeat
<1>3. IsFiniteSet(BlockPos(n)) BY BlockPosFinite
<1>. QED BY <1>1, <1>2, <1>3, FS_Surjection
=============================================================================
