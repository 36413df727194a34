---------------------------- MODULE ZerosShared ----------------------------
(***************************************************************************)
(* One disk and the mount handles several processes have open on it.  Each *)
(* handle of fs/zeros_mount.c keeps its own copy of the bitmaps, writes    *)
(* the whole copy back at the end of every call, on open and on close, and *)
(* never reads it again.                                                   *)
(*                                                                         *)
(* ZerosMount has the steps of a call and what a crash between them does;  *)
(* here a call is one step.  File 0 stands for the directories the         *)
(* formatter creates; the other files are entries that exist, empty when   *)
(* nothing was written.  The inode bitmap goes the way of the block bitmap *)
(* and is left out.                                                        *)
(***************************************************************************)
EXTENDS Integers, Sequences, FiniteSets

CONSTANTS
  NBlocks,      \* data blocks of the disk
  NFiles,       \* files besides the directories
  MaxLen,       \* bound: blocks of the longest write
  MaxDaemons    \* bound: zeros_fuse processes alive at once

ASSUME SharedAssumption ==
  /\ NBlocks \in Nat \ {0} /\ NFiles \in Nat \ {0}
  /\ MaxLen \in Nat /\ MaxDaemons \in Nat

VARIABLES
  disk,         \* magic, block bitmap, blocks of each file, file in each
                \* block: what a process that reads the disk is given
  opened,       \* handles that are open
  ram,          \* mnt->block_bitmap of each handle
  fresh,        \* history: files the tool that runs has written
  hurt          \* history: the ways the disk has been put at risk

diskVars == <<disk, opened, ram, fresh, hurt>>

Blk     == 0 .. NBlocks - 1
Dirs    == 0
Files   == 1 .. NFiles
Junk    == -1
TOOL    == -1
SHELL   == 0
Daemons == 1 .. MaxDaemons
Handles == {TOOL, SHELL} \cup Daemons

(* "cut"       the formatter stopped between the superblock and the bitmaps *)
(* "short"     a write ended half way: disk full                           *)
(* "stale"     a handle wrote back a bitmap another handle had changed     *)
(* "unsynced"  the power went while writes were in the cache of Linux      *)
Hurts == {"cut", "short", "stale", "unsynced"}

DiskInit ==
  /\ disk = [magic |-> FALSE, bm |-> {}, ext |-> [f \in {Dirs} \cup Files |-> {}],
             data |-> [b \in Blk |-> Junk]]
  /\ opened = {} /\ ram = [h \in Handles |-> {}]
  /\ fresh = {} /\ hurt = {}

-----------------------------------------------------------------------------
Stale(h) == ram[h] # disk.bm

(* flush_metadata by h is about to replace what another handle wrote. *)
Risk(h) == IF Stale(h) THEN {"stale"} ELSE {}

(* Open and the flush in it write back what was just read. *)
zeros_mount_open(h) ==
  /\ disk.magic
  /\ opened' = opened \cup {h} /\ ram' = [ram EXCEPT ![h] = disk.bm]
  /\ fresh' = IF h = TOOL THEN {} ELSE fresh
  /\ UNCHANGED <<disk, hurt>>

zeros_mount_close(h) ==
  /\ disk' = [disk EXCEPT !.bm = ram[h]]
  /\ hurt' = hurt \cup Risk(h)
  /\ opened' = opened \ {h} /\ ram' = [ram EXCEPT ![h] = {}]
  /\ UNCHANGED fresh

(* The process of h ends without closing it. *)
Drop(h) == opened' = opened \ {h} /\ ram' = [ram EXCEPT ![h] = {}]

(* The first n blocks alloc_block finds. *)
Lowest(n, S) ==
  CHOOSE T \in SUBSET S : Cardinality(T) = n /\ \A x \in T, y \in S \ T : x < y

(* zeros_write_file frees the old blocks first, in RAM. *)
Kept(h, f) == ram[h] \ disk.ext[f]

Fits(h, f, n) == Cardinality(Blk \ Kept(h, f)) >= n

write_ok(h, f, n) ==
  LET new == Lowest(n, Blk \ Kept(h, f))
      bm  == Kept(h, f) \cup new
  IN  /\ Fits(h, f, n)
      /\ ram' = [ram EXCEPT ![h] = bm]
      /\ disk' = [disk EXCEPT !.bm = bm, !.ext[f] = new,
                              !.data = [b \in Blk |-> IF b \in new THEN f ELSE @[b]]]
      /\ hurt' = hurt \cup Risk(h)
      /\ fresh' = IF h = TOOL THEN fresh \cup {f} ELSE fresh \ {f}
      /\ UNCHANGED opened

(* Every block that was free has been taken and written; nothing is        *)
(* flushed and the inode keeps its old blocks.                             *)
write_short(h, f, n) ==
  /\ ~Fits(h, f, n)
  /\ ram' = [ram EXCEPT ![h] = Blk]
  /\ disk' = [disk EXCEPT !.data =
                [b \in Blk |-> IF b \in Kept(h, f) THEN @[b] ELSE Junk]]
  /\ hurt' = hurt \cup {"short"} \cup Risk(h)
  /\ fresh' = fresh \ {f}
  /\ UNCHANGED opened

zeros_write_file(h, f, n) == write_ok(h, f, n) \/ write_short(h, f, n)

zeros_rm(h, f) ==
  /\ disk' = [disk EXCEPT !.bm = Kept(h, f), !.ext[f] = {}]
  /\ ram' = [ram EXCEPT ![h] = Kept(h, f)]
  /\ hurt' = hurt \cup Risk(h)
  /\ fresh' = fresh \ {f}
  /\ UNCHANGED opened

-----------------------------------------------------------------------------
Intact(f) == /\ disk.ext[f] \subseteq disk.bm
             /\ \A b \in disk.ext[f] : disk.data[b] = f
=============================================================================
