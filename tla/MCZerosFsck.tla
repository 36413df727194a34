---------------------------- MODULE MCZerosFsck ----------------------------
(* Disk images for zeros_fsck, which has to judge what no handle has       *)
(* written: a bounded number of fields of an image overwritten with any    *)
(* value, and directories that link to each other in any way.              *)
EXTENDS ZerosFsck

CONSTANT MaxEdits   \* bound: fields overwritten

VARIABLE edits      \* fields overwritten so far

NoEntries ==
  [v \in Vals \cup {NoVal} |-> [s \in Slots |-> FreeDirent]]

(* Inode i owns data block DataStart + i, and entries[i] follow its dots.  *)
Image(mode, up, entries) ==
  /\ itab = [i \in Inodes |-> [mode |-> mode[i], extents |-> <<OneBlock(DataStart + i)>>]]
  /\ data = [b \in DataBlocks |->
               LET i == b - DataStart
               IN  [DirBlock(i, up[i]) EXCEPT !.ent[2] = entries[i][1], !.ent[3] = entries[i][2]]]
  /\ dsb = [free_inodes |-> 0, free_blocks |-> 0]

(* A tree as zeros_mount.c leaves it: every inode but root is named once.  *)
Child(up, mode, i, j, name) ==
  IF j \in Inodes \ {ROOT} /\ up[j] = i
  THEN [inode |-> j, type |-> mode[j], name |-> name] ELSE FreeDirent

TreeImage ==
  \E mode \in [Inodes -> {"dir", "reg"}], up \in [Inodes -> Inodes] :
    /\ \A i \in Inodes : /\ mode[up[i]] = "dir"
                         /\ IF i = ROOT THEN up[i] = ROOT ELSE up[i] < i
    /\ Image(mode, up, [i \in Inodes |->
                          <<Child(up, mode, i, 1, "a"), Child(up, mode, i, 2, "b")>>])
    /\ dibm = Inodes /\ dbbm = MetaBlocks \cup {DataStart + i : i \in Inodes}
    /\ edits = 0

(* Directories that name each other in any way, of any type, marked or     *)
(* not, with any "..".                                                     *)
GraphImage ==
  \E mode \in [Inodes -> {"dir", "reg"}], up \in [Inodes -> Inodes],
     first \in [Inodes -> {FreeDirent} \cup [inode : Inodes, type : {"dir", "reg"}, name : {"a"}]],
     second \in {FreeDirent} \cup [inode : Inodes, type : {"dir", "reg"}, name : {"b"}] :
    /\ mode[ROOT] = "dir" /\ up[ROOT] = ROOT /\ \A i \in Inodes \ {ROOT} : up[i] # i
    /\ Image(mode, up, [i \in Inodes |-> <<first[i], IF i = ROOT THEN second ELSE FreeDirent>>])
    /\ dibm \in {S \cup {ROOT} : S \in SUBSET Inodes}
    /\ dbbm = MetaBlocks \cup {DataStart + i : i \in dibm}
    /\ edits = MaxEdits

NotMounted ==
  /\ sb = dsb /\ ibm = {} /\ bbm = {} /\ cwd = ROOT
  /\ pc = "unmounted" /\ c = NoCall
  /\ live = {ROOT} /\ harm = {"torn"}
  /\ wrote = [i \in Inodes |-> [val |-> NoVal, len |-> 0]]

(* Extents anywhere, of any length, more than the array holds.             *)
AnyExtents ==
  LET one == [start : Blocks, length : 0 .. 2]
  IN  {<<>>, <<OneBlock(DataStart), OneBlock(DataStart + 1)>>} \cup {<<x>> : x \in one}

AnyDirent ==
  {FreeDirent} \cup [inode : Inodes \cup {OUT}, type : {"dir", "reg"}, name : {".", "..", "a", ""}]

Toggled(S, x) == IF x \in S THEN S \ {x} ELSE S \cup {x}

edit_inode ==
  /\ \E i \in Inodes : \/ \E m \in Types : itab' = [itab EXCEPT ![i].mode = m]
                       \/ \E x \in AnyExtents : itab' = [itab EXCEPT ![i].extents = x]
  /\ UNCHANGED <<data, dsb, dibm, dbbm>>

edit_entry ==
  /\ \E b \in DataBlocks, s \in Slots, e \in AnyDirent : data' = [data EXCEPT ![b].ent[s] = e]
  /\ UNCHANGED <<itab, dsb, dibm, dbbm>>

edit_bitmap ==
  /\ \/ \E i \in Inodes : dibm' = Toggled(dibm, i) /\ UNCHANGED dbbm
     \/ \E b \in Blocks : dbbm' = Toggled(dbbm, b) /\ UNCHANGED dibm
  /\ UNCHANGED <<itab, data, dsb>>

edit_superblock ==
  /\ \E n \in Counters : dsb' = n
  /\ UNCHANGED <<itab, data, dibm, dbbm>>

Edit ==
  /\ edits < MaxEdits /\ edits' = edits + 1
  /\ edit_inode \/ edit_entry \/ edit_bitmap \/ edit_superblock
  /\ UNCHANGED <<ramVars, pc, c, hist>>

ImageInit ==
  /\ TreeImage \/ GraphImage
  /\ NotMounted

ImageSpec == ImageInit /\ [][Edit]_<<vars, edits>>
=============================================================================
