------------------------------- MODULE KZeros -------------------------------
(***************************************************************************)
(* kernel/kzeros.c, the kernel's own implementation of the filesystem, as  *)
(* kshell drives it, on a disk whose transfers can fail (ahci.c answers -1 *)
(* on an error and on a timeout, after which the transfer may or may not   *)
(* have happened) and under power that can go at any step.                 *)
(*                                                                         *)
(* Unlike zeros_mount.c it keeps no bitmap in memory: alloc_* and free_*   *)
(* write the bitmap block through, and flush_metadata writes only the      *)
(* superblock.  A step is a block write that a crash can separate from the *)
(* others.  The disk structures and the tree they form are those of        *)
(* ZerosFS and ZerosMount.                                                 *)
(***************************************************************************)
EXTENDS ZerosFS

CONSTANTS
  Paths,      \* the paths commands are given
  MaxLen,     \* bound: blocks of the longest write
  U32,        \* 2^32 in the code
  Cut,        \* a name as k_strncpy stores it: cut to ZEROS_NAME_MAX
  MaxDepth,   \* bound: components of cwd_path
  MaxFaults   \* bound: transfers that fail, and power losses

ASSUME KernelAssumption ==
  /\ Paths \subseteq Path /\ MaxLen \in Nat /\ MaxDepth \in Nat /\ MaxFaults \in Nat
  /\ U32 \in Nat /\ U32 > TotalBlocks /\ U32 > TotalInodes
  /\ \A n \in Components \cup {""} : Cut[n] \in Components \cup {""} /\ Cut[Cut[n]] = Cut[n]

VARIABLES
  itab, data,   \* disk: inode table and data blocks
  ibm, bbm,     \* disk: bitmaps
  dsb,          \* disk: the superblock's counters
  sb,           \* mnt->sb
  cwd, cwd_path,\* mnt->cwd_ino, mnt->cwd_path
  pc, c,        \* the command in progress and its locals
  live,         \* history: inodes an entry names, and root
  wrote,        \* history: what each inode was last written with
  faults,       \* faults so far
  harm          \* history: the kinds of damage that have happened

diskVars == <<itab, data, ibm, bbm, dsb>>
vars == <<itab, data, ibm, bbm, dsb, sb, cwd, cwd_path, pc, c, live, wrote, faults, harm>>

(* The bitmaps in use are the ones on disk. *)
M == INSTANCE ZerosMount WITH dibm <- ibm, dbbm <- bbm

(* "torn"  a file or an entry was left pointing at what is marked free, or *)
(*         a command took the bytes of a regular file for entries          *)
(* "lost"  something is marked used and nothing names it                   *)
(* "drift" the counters no longer count the bitmaps                        *)
(* "twin"  a name that exists was not seen and was created again           *)
(* "text"  cd was given a path that cwd_path does not follow               *)
(* "stray" a command went on with an inode that nothing has ever written   *)
Harms == {"torn", "lost", "drift", "twin", "text", "stray"}

NoCall == [op |-> "none", path |-> M!AnyPath, ino |-> ROOT, parent |-> ROOT, blk |-> 0,
           todo |-> {}, ext |-> <<>>, left |-> 0, len |-> 0, val |-> NoVal]

Init ==
  /\ itab = [i \in Inodes |->
               IF i = ROOT THEN [mode |-> "dir", extents |-> <<OneBlock(DataStart)>>]
               ELSE FreshInode]
  /\ data = [b \in DataBlocks |->
               IF b = DataStart THEN DirBlock(ROOT, ROOT) ELSE EmptyDirBlock]
  /\ ibm = {ROOT} /\ bbm = MetaBlocks \cup {DataStart}
  /\ dsb = [free_inodes |-> TotalInodes - 1, free_blocks |-> TotalBlocks - DataStart - 1]
  /\ sb = dsb /\ cwd = ROOT /\ cwd_path = <<>>
  /\ pc = "off" /\ c = NoCall /\ live = {ROOT}
  /\ wrote = [i \in Inodes |-> [val |-> NoVal, len |-> 0]]
  /\ faults = 0 /\ harm = {}

-----------------------------------------------------------------------------
Parent(p)  == resolve_parent(itab, data, cwd, p)
Resolve(p) == resolve_path(itab, data, cwd, p)
ThroughFile(p) ==
  p.name # "" /\ Readable(itab, Parent(p)) /\ itab[Parent(p)].mode # "dir"
PathHarm(p) == IF ThroughFile(p) THEN {"torn"} ELSE {}
FreeInodes == Inodes \ ibm
Mut_FreeBlocks == (DataStart .. TotalBlocks) \ bbm

FreeBlocks == DataBlocks \ bbm

Fault == faults < MaxFaults /\ faults' = faults + 1
NoFault == UNCHANGED faults

(* A command that ends with -1: nothing is flushed. *)
Return(h) == pc' = "idle" /\ c' = NoCall /\ harm' = harm \cup h

kzeros_open ==
  /\ pc = "off" /\ pc' = "idle"
  /\ sb' = dsb /\ cwd' = ROOT /\ cwd_path' = <<>>
  /\ UNCHANGED <<diskVars, c, live, wrote, faults, harm>>

(* cwd_path is edited as text, cwd_ino follows the entries. *)
Part(n) == IF n = "" THEN <<>> ELSE <<n>>

Mut_NewPath(p) ==
  LET parts == Part(p.dir) \o Part(p.name)
  IN  IF p.abs THEN parts ELSE cwd_path \o parts

NewPath(p) ==
  LET parts == Part(p.dir) \o Part(p.name)
  IN  IF p.abs THEN parts
      ELSE IF parts = <<".">> THEN cwd_path
      ELSE IF parts = <<"..">>
      THEN IF cwd_path = <<>> THEN <<>> ELSE SubSeq(cwd_path, 1, Len(cwd_path) - 1)
      ELSE cwd_path \o parts

Dots == {".", ".."}

kzeros_cd(p) ==
  /\ pc = "idle" /\ Readable(itab, Resolve(p)) /\ itab[Resolve(p)].mode = "dir"
  /\ cwd' = Resolve(p) /\ cwd_path' = NewPath(p)
  /\ Len(cwd_path') <= MaxDepth
  /\ harm' = harm \cup PathHarm(p) \cup
       IF p.dir \in Dots \/ (p.name \in Dots /\ (p.abs \/ p.dir # "")) THEN {"text"} ELSE {}
  /\ UNCHANGED <<diskVars, sb, pc, c, live, wrote, faults>>

(* A command takes bytes that were never an inode for one; kzeros_rm and   *)
(* kzeros_write_file free an extent they may spell.  The model ends here.  *)
astray(p) ==
  /\ pc = "idle" /\ Resolve(p) # NIL /\ ~Readable(itab, Resolve(p))
  /\ \E first, last \in Blocks : bbm' = bbm \ (first .. last)
  /\ pc' = "astray" /\ harm' = harm \cup {"stray"} \cup PathHarm(p)
  /\ UNCHANGED <<itab, data, ibm, dsb, sb, cwd, cwd_path, c, live, wrote, faults>>

-----------------------------------------------------------------------------
(* alloc_inode: the bitmap block is written, then the counter changes.  A  *)
(* failed write ends the command; the bit may be on disk all the same.     *)
alloc_inode(next, call) ==
  /\ FreeInodes # {}
  /\ LET ino == LowestClear(FreeInodes)
     IN  \/ /\ ibm' = ibm \cup {ino}
            /\ sb' = [sb EXCEPT !.free_inodes = M!Dec(@)]
            /\ pc' = next /\ c' = [call EXCEPT !.ino = ino]
            /\ NoFault /\ UNCHANGED harm
         \/ /\ Fault /\ ibm' = ibm \cup {ino}
            /\ Return({"lost", "drift"}) /\ UNCHANGED sb

(* What a command leaves behind when it stops here. *)
Unlinked == pc \in {"mkdir_block", "mkdir_init", "touch_init", "dir_add_entry",
                    "dir_add_block", "dir_add_extent"}
Freed == BlocksOf(itab[c.ino]) \ c.todo
Emptying == c.op = "write" /\ pc \in {"free_blocks", "write_loop", "write_data"}
            /\ Freed # {}
GaveUp == (IF Unlinked \/ c.ext # <<>> \/ pc = "write_data" THEN {"lost"} ELSE {})
          \cup (IF Emptying THEN {"torn"} ELSE {})

Mut_alloc_block(next) ==
  /\ FreeBlocks # {} /\ UNCHANGED sb
  /\ bbm' = bbm \cup {LowestClear(FreeBlocks)}
  /\ pc' = next /\ c' = [c EXCEPT !.blk = LowestClear(FreeBlocks)]
  /\ UNCHANGED <<itab, data, ibm, dsb, cwd, cwd_path, live, wrote, faults, harm>>

Mut_alloc_unwritten(next) ==
  /\ FreeBlocks # {}
  /\ sb' = [sb EXCEPT !.free_blocks = M!Dec(@)]
  /\ pc' = next /\ c' = [c EXCEPT !.blk = LowestClear(FreeBlocks)]
  /\ UNCHANGED <<diskVars, cwd, cwd_path, live, wrote, faults, harm>>

alloc_block(next) ==
  /\ FreeBlocks # {}
  /\ bbm' = bbm \cup {LowestClear(FreeBlocks)}
  /\ \/ /\ sb' = [sb EXCEPT !.free_blocks = M!Dec(@)]
        /\ pc' = next /\ c' = [c EXCEPT !.blk = LowestClear(FreeBlocks)]
        /\ NoFault /\ UNCHANGED harm
     \/ Fault /\ Return({"lost", "drift"} \cup GaveUp) /\ UNCHANGED sb
  /\ UNCHANGED <<itab, data, ibm, dsb, cwd, cwd_path, live, wrote>>

(* Any other transfer of a command fails and nothing was written: the      *)
(* command ends, and what it has allocated stays marked.                   *)
io_error ==
  /\ pc \notin {"off", "idle", "free_blocks", "free_inode", "dir_remove_entry", "astray"}
  /\ Fault /\ Return(GaveUp)
  /\ UNCHANGED <<diskVars, sb, cwd, cwd_path, live, wrote>>

disk_full ==
  /\ \/ pc = "mkdir_block" /\ FreeBlocks = {}
     \/ /\ pc = "dir_add_entry" /\ FreeCells(data, itab[c.parent]) = {}
        /\ FreeBlocks = {} \/ Len(itab[c.parent].extents) >= MaxExtents
     \/ /\ pc = "write_loop" /\ c.left > 0
        /\ FreeBlocks = {} \/ Len(c.ext) >= MaxExtents
  /\ NoFault /\ Return(GaveUp)
  /\ UNCHANGED <<diskVars, sb, cwd, cwd_path, live, wrote>>

-----------------------------------------------------------------------------
(* dir_lookup answers "not there" when a read fails, and resolve_path      *)
(* compares whole names with names that were cut when they were stored.    *)
Twin(d, n) == IF dir_lookup(itab, data, d, Cut[n]) # NIL THEN {"twin"} ELSE {}

kzeros_mkdir(p) ==
  /\ pc = "idle" /\ Readable(itab, Parent(p))
  /\ dir_lookup(itab, data, Parent(p), Cut[p.name]) = NIL
  /\ alloc_inode("mkdir_block", [NoCall EXCEPT !.op = "mkdir", !.path = p, !.parent = Parent(p)])
  /\ UNCHANGED <<itab, data, bbm, dsb, cwd, cwd_path, live, wrote>>

mkdir_block == pc = "mkdir_block" /\ alloc_block("mkdir_init")

(* The directory's block and inode, with . and ..: nothing names them yet. *)
mkdir_init ==
  /\ pc = "mkdir_init"
  /\ data' = [data EXCEPT ![c.blk] = DirBlock(c.ino, c.parent)]
  /\ itab' = [itab EXCEPT ![c.ino] = [mode |-> "dir", extents |-> <<OneBlock(c.blk)>>]]
  /\ pc' = "dir_add_entry"
  /\ UNCHANGED <<ibm, bbm, dsb, sb, cwd, cwd_path, c, live, wrote, faults, harm>>

Create(p, op, v, n) ==
  /\ Readable(itab, Parent(p))
  /\ alloc_inode("touch_init", [NoCall EXCEPT !.op = op, !.path = p, !.parent = Parent(p),
                                              !.val = v, !.len = n])
  /\ UNCHANGED <<itab, data, bbm, dsb, cwd, cwd_path, live, wrote>>

kzeros_touch(p) == pc = "idle" /\ Resolve(p) = NIL /\ Create(p, "touch", NoVal, 0)

(* kzeros_touch or kzeros_mkdir whose lookup could not read the directory. *)
blind_create(p, op) ==
  /\ pc = "idle" /\ Resolve(p) # NIL /\ Readable(itab, Parent(p)) /\ FreeInodes # {}
  /\ Fault
  /\ ibm' = ibm \cup {LowestClear(FreeInodes)}
  /\ sb' = [sb EXCEPT !.free_inodes = M!Dec(@)]
  /\ pc' = IF op = "mkdir" THEN "mkdir_block" ELSE "touch_init"
  /\ c' = [NoCall EXCEPT !.op = op, !.path = p, !.parent = Parent(p),
                         !.ino = LowestClear(FreeInodes)]
  /\ UNCHANGED <<itab, data, bbm, dsb, cwd, cwd_path, live, wrote, harm>>

touch_init ==
  /\ pc = "touch_init"
  /\ itab' = [itab EXCEPT ![c.ino] = [mode |-> "reg", extents |-> <<>>]]
  /\ pc' = "dir_add_entry"
  /\ UNCHANGED <<data, ibm, bbm, dsb, sb, cwd, cwd_path, c, live, wrote, faults, harm>>

-----------------------------------------------------------------------------
(* dir_add_entry.  From the write that makes the entry effective on, the   *)
(* inode is named; the write of the directory's inode that follows may     *)
(* fail, and the command then says -1 about something it has done.         *)
NewDirent == [inode |-> c.ino, name |-> Cut[c.path.name],
              type |-> IF c.op = "mkdir" THEN "dir" ELSE "reg"]

Linked ==
  LET h == Twin(c.parent, c.path.name)
           \cup IF itab[c.parent].mode = "dir" THEN {} ELSE {"torn"}
  IN  /\ live' = live \cup {c.ino}
      /\ wrote' = [wrote EXCEPT ![c.ino] = [val |-> NoVal, len |-> 0]]
      /\ \/ pc' = "flush_metadata" /\ harm' = harm \cup h /\ NoFault /\ UNCHANGED c
         \/ Fault /\ Return(h)

DirFull == FreeCells(data, itab[c.parent]) = {}

dir_add_entry_slot ==
  /\ pc = "dir_add_entry" /\ ~DirFull
  /\ LET p == FirstCell(FreeCells(data, itab[c.parent]))
     IN  data' = [data EXCEPT ![BlockAt(itab[c.parent], p)].ent[p[3]] = NewDirent]
  /\ Linked
  /\ UNCHANGED <<itab, ibm, bbm, dsb, sb, cwd, cwd_path>>

dir_add_entry_grow ==
  /\ pc = "dir_add_entry" /\ DirFull /\ Len(itab[c.parent].extents) < MaxExtents
  /\ alloc_block("dir_add_block")

dir_add_block ==
  /\ pc = "dir_add_block" /\ pc' = "dir_add_extent"
  /\ data' = [data EXCEPT ![c.blk] = [EmptyDirBlock EXCEPT !.ent[0] = NewDirent]]
  /\ UNCHANGED <<itab, ibm, bbm, dsb, sb, cwd, cwd_path, c, live, wrote, faults, harm>>

dir_add_extent ==
  /\ pc = "dir_add_extent"
  /\ itab' = [itab EXCEPT ![c.parent].extents = Append(@, OneBlock(c.blk))]
  /\ Linked
  /\ UNCHANGED <<data, ibm, bbm, dsb, sb, cwd, cwd_path>>

-----------------------------------------------------------------------------
(* kzeros_write_file: the blocks are freed on disk one by one before the   *)
(* inode stops pointing at them.                                           *)
AfterFree(call) == IF call.todo # {} THEN "free_blocks"
                   ELSE IF call.op = "rm" THEN "free_inode" ELSE "write_loop"

StartFree(call) == c' = call /\ pc' = AfterFree(call)

Writable(ino) == Readable(itab, ino) /\ itab[ino].mode # "dir"

StartWrite(p, v, n) ==
  /\ StartFree([NoCall EXCEPT !.op = "write", !.path = p, !.ino = Resolve(p), !.left = n,
                              !.len = n, !.val = v, !.todo = BlocksOf(itab[Resolve(p)])])
  /\ harm' = harm \cup PathHarm(p)

kzeros_write_file(p, v, n) ==
  /\ pc = "idle"
  /\ \/ Resolve(p) = NIL /\ Create(p, "create", v, n)
     \/ /\ Writable(Resolve(p)) /\ StartWrite(p, v, n)
        /\ UNCHANGED <<diskVars, sb, cwd, cwd_path, live, wrote, faults>>

(* free_block: a read that fails leaves everything, a write that fails is  *)
(* not noticed and the counter changes.                                    *)
FreeOutcome(bit, counter) ==
  \/ bit = "cleared" /\ counter = 1 /\ (NoFault \/ Fault) /\ UNCHANGED harm
  \/ bit = "set" /\ counter = 0 /\ Fault /\ harm' = harm \cup {"lost"}
  \/ bit = "set" /\ counter = 1 /\ Fault /\ harm' = harm \cup {"lost", "drift"}

free_block ==
  /\ pc = "free_blocks"
  /\ \E b \in c.todo, bit \in {"set", "cleared"}, k \in 0 .. 1 :
       /\ FreeOutcome(bit, k)
       /\ bbm' = IF bit = "cleared" THEN bbm \ {b} ELSE bbm
       /\ sb' = [sb EXCEPT !.free_blocks = M!Add(@, k)]
       /\ StartFree([c EXCEPT !.todo = @ \ {b}])
  /\ UNCHANGED <<itab, data, ibm, dsb, cwd, cwd_path, live, wrote>>

write_loop ==
  /\ pc = "write_loop" /\ c.left > 0 /\ Len(c.ext) < MaxExtents
  /\ alloc_block("write_data")

Mut_write_data ==
  /\ pc = "write_data" /\ pc' = "write_loop"
  /\ data' = [data EXCEPT ![c.blk] = FileBlock(c.val)]
  /\ c' = [c EXCEPT !.left = @ - 1, !.ext = <<OneBlock(c.blk)>>]
  /\ UNCHANGED <<itab, ibm, bbm, dsb, sb, cwd, cwd_path, live, wrote, faults, harm>>

write_data ==
  /\ pc = "write_data" /\ pc' = "write_loop"
  /\ data' = [data EXCEPT ![c.blk] = FileBlock(c.val)]
  /\ c' = [c EXCEPT !.left = @ - 1, !.ext = GrowExtents(@, c.blk)]
  /\ UNCHANGED <<itab, ibm, bbm, dsb, sb, cwd, cwd_path, live, wrote, faults, harm>>

write_inode ==
  /\ pc = "write_loop" /\ c.left = 0
  /\ itab' = [itab EXCEPT ![c.ino].extents = c.ext]
  /\ wrote' = [wrote EXCEPT ![c.ino] = [val |-> c.val, len |-> c.len]]
  /\ \/ pc' = "flush_metadata" /\ NoFault /\ UNCHANGED <<c, harm>>
     \/ Fault /\ Return({})
  /\ UNCHANGED <<data, ibm, bbm, dsb, sb, cwd, cwd_path, live>>

-----------------------------------------------------------------------------
Mut_Removable(ino) ==
  /\ Readable(itab, ino) /\ ino # ROOT /\ ino # cwd

Removable(ino) ==
  /\ Readable(itab, ino) /\ ino # ROOT /\ ino # cwd
  /\ itab[ino].mode = "dir" => dir_is_empty(itab, data, ino)

(* kzeros_rm: blocks, inode, and the entry last. *)
kzeros_rm(p) ==
  /\ pc = "idle" /\ Removable(Resolve(p))
  /\ StartFree([NoCall EXCEPT !.op = "rm", !.path = p, !.ino = Resolve(p),
                              !.todo = BlocksOf(itab[Resolve(p)])])
  /\ harm' = harm \cup PathHarm(p)
  /\ UNCHANGED <<diskVars, sb, cwd, cwd_path, live, wrote, faults>>

free_inode ==
  /\ pc = "free_inode" /\ pc' = "dir_remove_entry"
  /\ \E bit \in {"set", "cleared"}, k \in 0 .. 1 :
       /\ FreeOutcome(bit, k)
       /\ ibm' = IF bit = "cleared" THEN ibm \ {c.ino} ELSE ibm
       /\ sb' = [sb EXCEPT !.free_inodes = M!Add(@, k)]
  /\ UNCHANGED <<itab, data, bbm, dsb, cwd, cwd_path, c, live, wrote>>

(* Whether the entry was found and erased is not looked at. *)
dir_remove_entry ==
  /\ pc = "dir_remove_entry" /\ pc' = "flush_metadata"
  /\ live' = live \ {c.ino}
  /\ wrote' = [wrote EXCEPT ![c.ino] = [val |-> NoVal, len |-> 0]]
  /\ \/ /\ data' = IF Readable(itab, Parent(c.path)) THEN M!Erased(c.path) ELSE data
        /\ harm' = harm \cup (IF c.path.name \in Names THEN {} ELSE {"torn"})
        /\ NoFault
     \/ Fault /\ harm' = harm \cup {"torn"} /\ UNCHANGED data
  /\ UNCHANGED <<itab, ibm, bbm, dsb, sb, cwd, cwd_path, c>>

-----------------------------------------------------------------------------
(* kzeros_close, from the shutdown command *)
kzeros_close ==
  /\ pc = "idle" /\ pc' = "flush_metadata" /\ c' = [NoCall EXCEPT !.op = "close"]
  /\ UNCHANGED <<diskVars, sb, cwd, cwd_path, live, wrote, faults, harm>>

(* The superblock; kzeros_write_file goes on with the file it has created, *)
(* if the path it was given now finds it.                                  *)
flush_metadata ==
  /\ pc = "flush_metadata" /\ dsb' = sb
  /\ \/ /\ c.op = "create" /\ Writable(Resolve(c.path))
        /\ StartWrite(c.path, c.val, c.len) /\ NoFault
     \/ /\ c.op = "create" => ~Writable(Resolve(c.path))
        /\ c.op # "close" /\ NoFault /\ Return({})
     \/ c.op = "close" /\ pc' = "off" /\ c' = NoCall /\ NoFault /\ UNCHANGED harm
     \/ c.op # "close" /\ Fault /\ Return({})
  /\ UNCHANGED <<itab, data, ibm, bbm, sb, cwd, cwd_path, live, wrote>>

(* The power goes. *)
Removing ==
  /\ c.op = "rm"
  /\ \/ pc = "dir_remove_entry"
     \/ pc \in {"free_blocks", "free_inode"} /\ Freed # {}

PowerLoss ==
  /\ pc \notin {"off", "astray"} /\ pc' = "off" /\ c' = NoCall /\ Fault
  /\ harm' = harm \cup GaveUp \cup (IF Removing THEN {"torn"} ELSE {})
                  \cup (IF dsb # sb THEN {"drift"} ELSE {})
  /\ sb' = dsb /\ cwd' = ROOT /\ cwd_path' = <<>>
  /\ UNCHANGED <<diskVars, live, wrote>>

-----------------------------------------------------------------------------
(* kshell_run: one command after another. *)
Command ==
  \/ kzeros_open \/ kzeros_close
  \/ \E p \in Paths :
       \/ kzeros_cd(p) \/ astray(p) \/ kzeros_mkdir(p) \/ kzeros_touch(p) \/ kzeros_rm(p)
       \/ \E op \in {"mkdir", "touch"} : blind_create(p, op)
       \/ \E v \in Vals, n \in 0 .. MaxLen : kzeros_write_file(p, v, n)

Step ==
  \/ mkdir_block \/ mkdir_init \/ touch_init
  \/ dir_add_entry_slot \/ dir_add_entry_grow \/ dir_add_block \/ dir_add_extent
  \/ free_block \/ write_loop \/ write_data \/ write_inode
  \/ free_inode \/ dir_remove_entry \/ flush_metadata \/ disk_full

Next == Command \/ Step \/ io_error \/ PowerLoss

Spec == Init /\ [][Next]_vars
-----------------------------------------------------------------------------
Pcs == {"off", "idle", "mkdir_block", "mkdir_init", "touch_init", "dir_add_entry",
        "dir_add_block", "dir_add_extent", "free_blocks", "write_loop", "write_data",
        "free_inode", "dir_remove_entry", "flush_metadata", "astray"}

(* Types, and that transfers, failures and bytes taken for entries never   *)
(* free a metadata block or put one into a file, until a command goes on   *)
(* with an inode that was never written.                                   *)
TypeOK ==
  /\ itab \in [Inodes -> Inode] /\ data \in [DataBlocks -> Block]
  /\ ibm \subseteq Inodes /\ bbm \subseteq Blocks
  /\ pc = "astray" <=> "stray" \in harm
  /\ "stray" \in harm \/ MetaBlocks \subseteq bbm
  /\ dsb \in M!Counters /\ sb \in M!Counters
  /\ cwd \in Inodes /\ cwd_path \in Seq(Components)
  /\ pc \in Pcs /\ c.ino \in Inodes /\ c.parent \in Inodes /\ c.blk \in Blocks
  /\ c.todo \subseteq DataBlocks /\ ExtentsInData(c.ext)
  /\ \A i \in Inodes : ExtentsInData(itab[i].extents)
  /\ live \subseteq Inodes /\ faults \in 0 .. MaxFaults /\ harm \subseteq Harms

(* At every moment, so also after power has gone at any step and after any *)
(* transfer has failed, the bitmaps on disk cover every inode an entry     *)
(* names and its blocks, and no block has two owners.  Creating something  *)
(* can therefore be cut short anywhere.  The commands that cannot are the  *)
(* ones that free before they unlink ("torn"): a removal and a rewrite.    *)
Busy(i) == c.op \in {"write", "rm"} /\ c.ino = i /\ pc # "flush_metadata"

KOwnership ==
  "torn" \notin harm =>
    /\ \A i \in live : /\ i \in ibm \/ (c.op = "rm" /\ Busy(i))
                       /\ Busy(i) \/ BlocksOf(itab[i]) \subseteq bbm
                       /\ NoRepeat(itab[i])
    /\ \A i, j \in live : i # j => BlocksOf(itab[i]) \cap BlocksOf(itab[j]) = {}
    /\ LET new == BlocksOf([extents |-> c.ext])
       IN  new \subseteq bbm /\ \A i \in live \ {c.ino} : new \cap BlocksOf(itab[i]) = {}

(* An entry never shows up before the inode and the block it leads to are  *)
(* written: whatever fails or is cut short, links lead to initialised      *)
(* inodes of the type the entry says, "." and ".." are right, no inode has *)
(* two links and no directory the same name twice.                         *)
KTreeSound ==
  harm \cap {"torn", "twin"} = {} =>
    /\ M!LinksSound /\ M!DotsSound
    /\ \A h \in M!Links : M!At(h).type = itab[M!Target(h)].mode
    /\ \A i \in M!LiveDirs : itab[i].extents # <<>>

(* The counters in memory count the bitmaps on disk through every command, *)
(* also one that fails half way.                                           *)
KCountersMatch ==
  harm \cap {"torn", "drift"} = {} =>
    /\ sb.free_inodes = Cardinality(FreeInodes)
    /\ sb.free_blocks = Cardinality(FreeBlocks)

(* A file holds what it was last written with, until it is written again   *)
(* or removed, whatever happens to the others.                             *)
KReadBack ==
  "torn" \notin harm =>
    \A i \in live : itab[i].mode = "reg" /\ ~Busy(i) =>
      /\ Cardinality(BlockPos(itab[i])) = wrote[i].len
      /\ \A b \in BlocksOf(itab[i]) : data[b].val = wrote[i].val

(* The prompt and ls, which read cwd_path, mean the directory the commands *)
(* work in, which is cwd_ino: as long as cd has only been given names, "." *)
(* and ".." alone, the path resolves to it.                                *)
Walk(path) ==
  LET at[n \in 0 .. Len(path)] ==
        IF n = 0 THEN ROOT
        ELSE IF Readable(itab, at[n - 1]) THEN dir_lookup(itab, data, at[n - 1], path[n])
        ELSE NIL
  IN  at[Len(path)]

PwdMatchesCwd ==
  harm \cap {"torn", "twin", "text"} = {} => Walk(cwd_path) = cwd
=============================================================================
