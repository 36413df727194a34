------------------------------ MODULE ZerosFsck ------------------------------
(***************************************************************************)
(* fs/zeros_fsck.c: the verdict zeros_fsck gives on the disk a ZerosMount  *)
(* handle leaves behind, between calls, after a close or after a crash.    *)
(* The check only reads, so it is a function of the disk variables.  What  *)
(* it prints is abstracted to the set of kinds of error; the geometry      *)
(* fields of the superblock are constants here and pass by assumption.     *)
(***************************************************************************)
EXTENDS ZerosMount, SequencesExt

(* CHECK 1: any error here stops zeros_fsck. *)
check_superblock ==
     (IF dsb.free_blocks > TotalBlocks THEN {"free_blocks"} ELSE {})
  \cup (IF dsb.free_inodes > TotalInodes THEN {"free_inodes"} ELSE {})

(* CHECK 2.  Inodes are the ones the bitmap on disk marks. *)
InDataArea(x) == x.start >= DataStart /\ x.start + x.length <= TotalBlocks

InodeExtents(i) ==
  {itab[i].extents[e] : e \in {k \in 1 .. Len(itab[i].extents) : k <= MaxExtents}}

check_inodes ==
     (IF \E i \in dibm : itab[i].mode = "none" THEN {"bad_mode"} ELSE {})
  \cup (IF \E i \in dibm : Len(itab[i].extents) > MaxExtents
        THEN {"extent_count"} ELSE {})
  \cup (IF \E i \in dibm : \E x \in InodeExtents(i) : ~InDataArea(x)
        THEN {"bad_extent"} ELSE {})

(* The bitmaps check 2 rebuilds.  The one of inodes starts from the bitmap *)
(* on disk, so check 3 never finds a difference in it.                     *)
real_ibm == dibm

Mut_real_bbm == MetaBlocks \cup UNION {BlocksOf(itab[i]) : i \in Inodes}

real_bbm ==
  MetaBlocks \cup
  UNION {x.start .. x.start + x.length - 1 :
           x \in {y \in UNION {InodeExtents(i) : i \in dibm} : InDataArea(y)}}

(* CHECK 3 *)
check_bitmaps ==
     (IF dibm # real_ibm THEN {"inode_bitmap"} ELSE {})
  \cup (IF MetaBlocks \subseteq dbbm THEN {} ELSE {"metadata_free"})
  \cup (IF dbbm \ real_bbm \subseteq MetaBlocks THEN {} ELSE {"lost_block"})
  \cup (IF real_bbm \subseteq dbbm \cup MetaBlocks THEN {} ELSE {"used_block_free"})

-----------------------------------------------------------------------------
(* CHECK 4: depth first from root.  s carries what the C code keeps in     *)
(* reachable, f->errors, found_dot and found_dotdot.                       *)

(* A directory whose extents leave the data area has been reported by      *)
(* check 2; what the bytes there amount to as entries is left out.         *)
Scannable(n) == {p \in Cells(n) : p[1] <= MaxExtents /\ BlockAt(n, p) \in DataBlocks}

RECURSIVE InOrder(_)
InOrder(P) == IF P = {} THEN <<>> ELSE <<FirstCell(P)>> \o InOrder(P \ {FirstCell(P)})

Report(s, kind, failed) == IF failed THEN [s EXCEPT !.err = @ \cup {kind}] ELSE s

RECURSIVE check_dir_recursive(_, _, _)
check_dir_recursive(s, dir_ino, parent_ino) ==
  LET dir == itab[dir_ino]
      Visit(t, p) ==
        LET d == EntryAt(data, dir, p)
            u == Report(t, "empty_name", d.name = "")
        IN  CASE d.inode = NIL -> t
              [] d.inode # NIL /\ d.inode \notin dibm ->
                   Report(t, "entry_to_free", TRUE)
              [] d.inode \in dibm /\ d.name = "." ->
                   [Report(u, "dot", d.inode # dir_ino) EXCEPT !.dot = TRUE]
              [] d.inode \in dibm /\ d.name = ".." ->
                   [Report(u, "dotdot", d.inode # parent_ino) EXCEPT !.dotdot = TRUE]
              [] d.inode \in dibm /\ d.name \notin {".", ".."} /\ d.type = "dir" ->
                   IF d.inode \in u.reach THEN u
                   ELSE LET v == check_dir_recursive(u, d.inode, dir_ino)
                        IN  [v EXCEPT !.dot = u.dot, !.dotdot = u.dotdot]
              [] OTHER -> [u EXCEPT !.reach = @ \cup {d.inode}]
      start == [s EXCEPT !.reach = @ \cup {dir_ino}, !.dot = FALSE, !.dotdot = FALSE]
      end   == FoldLeft(Visit, start, InOrder(Scannable(dir)))
  IN  IF dir.mode # "dir" THEN Report(s, "not_a_dir", TRUE)
      ELSE Report(Report(end, "no_dot", ~end.dot), "no_dotdot", ~end.dotdot)

Scan ==
  LET nothing == [reach |-> {}, err |-> {}, dot |-> FALSE, dotdot |-> FALSE]
  IN  IF ROOT \in dibm THEN check_dir_recursive(nothing, ROOT, ROOT)
      ELSE Report(nothing, "no_root", TRUE)

Mut_check_directories == Scan.err

check_directories ==
  LET s == Scan
  IN  s.err \cup (IF dibm \subseteq s.reach THEN {} ELSE {"orphan"})

(* The errors of a run; "El filesystem esta limpio" when there are none. *)
zeros_fsck ==
  IF check_superblock # {} THEN check_superblock
  ELSE check_inodes \cup check_bitmaps \cup check_directories

-----------------------------------------------------------------------------
Quiet == pc \in {"idle", "unmounted"}

(* A disk that no known damage has happened to is clean, also after        *)
(* crashes in the middle of calls and while a handle is open: counters,    *)
(* bitmaps, inodes and tree agree.  The exception: mkdir of "a/" makes an  *)
(* entry with an empty name, which the comment at zeros_fsck.c:279 and     *)
(* check 4 do not accept.                                                  *)
FsckClean == harm = {} /\ Quiet => zeros_fsck \subseteq {"empty_name"}

(* The reference for check 4: the least set that holds root and the        *)
(* targets of the links of its directories, without any order of visits.   *)
RefEntries(i) ==
  {EntryAt(data, itab[i], p) :
     p \in {q \in Scannable(itab[i]) : EntryAt(data, itab[i], q).inode # NIL}}

Targets(i, names) == {e.inode : e \in {d \in RefEntries(i) : d.name \in names}}

RefLinks(i) ==
  IF itab[i].mode = "dir" THEN Targets(i, Names \cup {""}) \cap Inodes ELSE {}

ClosedUnderLinks(S) == ROOT \in S /\ \A i \in S : RefLinks(i) \subseteq S

RefReach == {j \in Inodes : \A S \in SUBSET Inodes : ClosedUnderLinks(S) => j \in S}

Dirs == {i \in dibm : itab[i].mode = "dir"}

(* "." names the directory, ".." one directory that links to it, and every *)
(* entry an inode marked used.                                             *)
DirChecked(i) ==
  /\ Targets(i, Components \cup {""}) \subseteq dibm
  /\ Targets(i, {"."}) = {i}
  /\ \E up \in dibm : /\ Targets(i, {".."}) = {up}
                      /\ IF i = ROOT THEN up = ROOT ELSE i \in RefLinks(up)

(* An entry carries a copy of the type of the inode it names.              *)
TypesAgree ==
  \A i \in Dirs : \A e \in RefEntries(i) :
    e.inode \in Dirs /\ e.name \notin {".", ".."} => e.type = "dir"

(* What "limpio" is worth on any disk, however damaged, with blocks shared *)
(* or lost, wrong bitmaps, dots, types and counters: every inode marked    *)
(* used can be reached from root, all its blocks are in the data area, the *)
(* block bitmap marks these and no others; and when no entry hides a       *)
(* directory behind another type, no entry leads to a free inode and the   *)
(* dots of every directory are right.                                      *)
CleanIsConsistent ==
  Quiet /\ zeros_fsck = {} =>
    /\ dibm \subseteq RefReach
    /\ \A i \in dibm : BlocksOf(itab[i]) \subseteq DataBlocks
    /\ dbbm = MetaBlocks \cup UNION {BlocksOf(itab[i]) : i \in dibm}
    /\ TypesAgree => \A i \in Dirs : DirChecked(i)
=============================================================================
