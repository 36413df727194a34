------------------------------ MODULE ZerosFS ------------------------------
(***************************************************************************)
(* The on-disk format of the ZEROS filesystem (fs/zeros_fs.h) and the      *)
(* read-only helpers every implementation of it shares: walking the        *)
(* extents of an inode, looking a name up in a directory, resolving a      *)
(* path.  All operators are pure: the inode table and the data blocks are  *)
(* arguments, so that several programs that share a disk can use them.     *)
(*                                                                         *)
(* Abstractions of data: timestamps, permissions, link counts and byte     *)
(* sizes are left out; a file is a whole number of blocks and all of them  *)
(* carry the value it was written with.  The code never looks whether the  *)
(* inode it searches for a name is a directory, so every value also has    *)
(* directory entries its bytes amount to, which can be any.                *)
(***************************************************************************)
EXTENDS Integers, Sequences, FiniteSets

CONSTANTS
  TotalBlocks,      \* blocks of the disk, metadata included
  DataStart,        \* first data block: sb.data_start
  TotalInodes,      \* slots of the inode table: sb.total_inodes
  DirentsPerBlock,  \* ZEROS_DIRENTS_PER_BLOCK
  MaxExtents,       \* ZEROS_MAX_EXTENTS
  Names,            \* ordinary path components
  Vals,             \* what a file can be written with
  NoVal,            \* the payload of a block that holds directory entries
  AsEntries         \* what the bytes of a value are as directory entries

ASSUME GeometryAssumption ==
  /\ TotalBlocks \in Nat /\ DataStart \in Nat
  /\ 0 < DataStart /\ DataStart < TotalBlocks
  /\ TotalInodes \in Nat \ {0}
  /\ DirentsPerBlock \in Nat /\ DirentsPerBlock >= 2
  /\ MaxExtents \in Nat \ {0}

ASSUME NamesAssumption ==
  /\ "" \notin Names /\ "." \notin Names /\ ".." \notin Names
  /\ NoVal \notin Vals

NIL  == -1          \* UINT32_MAX: "no inode", ZEROS_DIRENT_FREE
OUT  == -2          \* any other number that is no slot of the inode table
ROOT == 0           \* ZEROS_ROOT_INODE

Inodes     == 0 .. TotalInodes - 1
Blocks     == 0 .. TotalBlocks - 1
MetaBlocks == 0 .. DataStart - 1           \* superblock, bitmaps, inode table
DataBlocks == DataStart .. TotalBlocks - 1
Slots      == 0 .. DirentsPerBlock - 1

-----------------------------------------------------------------------------
(* Disk structures. *)

Components == Names \cup {".", ".."}

Types  == {"none", "dir", "reg"}          \* ZEROS_FT_DIR, ZEROS_FT_REG
Dirent == [inode : Inodes \cup {NIL, OUT}, type : Types, name : Components \cup {""}]
Extent == [start : Nat, length : Nat]
Inode  == [mode : Types, extents : Seq(Extent)]

(* A block as each reader sees it: through ent when it is read as          *)
(* directory entries, through val when it is read as file contents.        *)
Block == [ent : [Slots -> Dirent], val : Vals \cup {NoVal}]

(* Whoever writes a file chooses its bytes. *)
ASSUME EntriesAssumption == AsEntries \in [Vals \cup {NoVal} -> [Slots -> Dirent]]

FreeDirent == [inode |-> NIL, type |-> "none", name |-> ""]

(* memset(buf, 0xFF): every inode field reads as ZEROS_DIRENT_FREE. *)
EmptyDirBlock == [ent |-> [s \in Slots |-> FreeDirent], val |-> NoVal]

FileBlock(v) == [ent |-> AsEntries[v], val |-> v]

(* The first block of a new directory. *)
DirBlock(ino, parent) ==
  [EmptyDirBlock EXCEPT
     !.ent[0] = [inode |-> ino, type |-> "dir", name |-> "."],
     !.ent[1] = [inode |-> parent, type |-> "dir", name |-> ".."]]

FreshInode == [mode |-> "none", extents |-> <<>>]

OneBlock(b) == [start |-> b, length |-> 1]

(* Here and below, Mut_X is a plausible mistake in X: the runs show that a *)
(* property notices it.                                                    *)
Mut_GrowExtents(ext, blk) ==
  IF ext # <<>> THEN [ext EXCEPT ![Len(ext)].length = @ + 1]
  ELSE <<OneBlock(blk)>>

(* Extend the last extent when the block follows it, else open a new one. *)
GrowExtents(ext, blk) ==
  LET k == Len(ext)
  IN  IF k > 0 /\ ext[k].start + ext[k].length = blk
      THEN [ext EXCEPT ![k].length = @ + 1]
      ELSE Append(ext, OneBlock(blk))

(* An extent list fits the inode's array and stays in the data area. *)
ExtentsInData(ext) ==
  /\ Len(ext) <= MaxExtents
  /\ \A e \in 1 .. Len(ext) :
       /\ ext[e].length > 0
       /\ ext[e].start >= DataStart
       /\ ext[e].start + ext[e].length <= TotalBlocks

-----------------------------------------------------------------------------
(* Walking an inode: extents in order, the blocks of each in order. *)

BlockPos(n) ==
  {p \in (1 .. Len(n.extents)) \X (0 .. TotalBlocks - 1) :
      p[2] < n.extents[p[1]].length}

BlockAt(n, p) == n.extents[p[1]].start + p[2]

BlocksOf(n) == {BlockAt(n, p) : p \in BlockPos(n)}

(* No block is twice in an inode. *)
NoRepeat(n) == \A p, q \in BlockPos(n) : BlockAt(n, p) = BlockAt(n, q) => p = q

(* A cell is one directory-entry position of an inode, <<e, b, s>>. *)
Cells(n) ==
  {p \in (1 .. Len(n.extents)) \X (0 .. TotalBlocks - 1) \X Slots :
      p[2] < n.extents[p[1]].length}

EntryAt(data, n, p) == data[BlockAt(n, p)].ent[p[3]]

ScannedBefore(p, q) ==
  \/ p[1] < q[1]
  \/ p[1] = q[1] /\ p[2] < q[2]
  \/ p[1] = q[1] /\ p[2] = q[2] /\ p[3] <= q[3]

FirstCell(P) == CHOOSE p \in P : \A q \in P : ScannedBefore(p, q)

FreeCells(data, n) == {p \in Cells(n) : EntryAt(data, n, p).inode = NIL}

CellsNamed(data, n, name) ==
  {p \in Cells(n) : /\ EntryAt(data, n, p).inode # NIL
                    /\ EntryAt(data, n, p).name = name}

(* zeros_format does not clear the inode table: a slot that no call has    *)
(* written holds whatever the disk held, and read_inode takes a number     *)
(* beyond the table to the bytes of some other block.                      *)
Readable(itab, i) == i \in Inodes /\ itab[i].mode # "none"

(* The code does not test that dir_ino is a directory. *)
dir_lookup(itab, data, dir_ino, name) ==
  LET hits == CellsNamed(data, itab[dir_ino], name)
  IN  IF hits = {} THEN NIL
      ELSE EntryAt(data, itab[dir_ino], FirstCell(hits)).inode

dir_is_empty(itab, data, dir_ino) ==
  \A p \in Cells(itab[dir_ino]) :
     LET e == EntryAt(data, itab[dir_ino], p)
     IN  e.inode # NIL => e.name \in {".", ".."}

-----------------------------------------------------------------------------
(* Paths of at most two components: [/][dir/]name.  dir = "" when there is *)
(* no directory part, name = "" for a trailing slash ("a/") and for "/".   *)
(* Deeper directories are reached through the current directory.           *)

Path == [abs : BOOLEAN, dir : Components \cup {""}, name : Components \cup {""}]

(* The directory the last component is looked up in. *)
resolve_parent(itab, data, cwd, p) ==
  LET start == IF p.abs THEN ROOT ELSE cwd
  IN  IF p.dir = "" THEN start ELSE dir_lookup(itab, data, start, p.dir)

(* strtok drops empty components: "a/" resolves to a itself. *)
resolve_path(itab, data, cwd, p) ==
  LET d == resolve_parent(itab, data, cwd, p)
  IN  IF p.name = "" \/ ~Readable(itab, d) THEN d
      ELSE dir_lookup(itab, data, d, p.name)

-----------------------------------------------------------------------------
(* Bitmaps are sets of the bits that are set. *)

LowestClear(S) == CHOOSE i \in S : \A j \in S : i <= j
=============================================================================
