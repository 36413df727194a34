# A TLA+ verification of Z.E.R.O.S

Z.E.R.O.S is a small operating system in C: a filesystem with its tools and a
shell that run on Linux (`fs/`, `shell/`, `vm/`), and a 32-bit kernel of its own
(`kernel/`) that reads the same disks.  This directory holds TLA+ modules that
model its core, TLC configurations that check them on small instances, and
proofs that TLAPS checks for every instance.

Source names are relative to `src/`.  Comments in the source are in Spanish and
are quoted as they are.

## 1. Inventory

| part | state it keeps | operations | what is hard about it | correct when |
|---|---|---|---|---|
| on-disk format, `fs/zeros_fs.h` | superblock counters, two bitmaps, inode table, data blocks | - | extents and directory entries are two views of the same blocks | used = reachable, no block with two owners |
| handle, `fs/zeros_mount.c` | RAM copies of superblock and bitmaps, `cwd_ino`, `cwd_path` | open, close, cd, ls, cat, stat, mkdir, touch, write_file, rm, complete | several block writes per call, bitmaps flushed last, errors half way, paths resolved two ways | every call is atomic for its caller and for a restart |
| checker, `fs/zeros_fsck.c` | none (reads the disk) | four checks | a recursion over a graph that may be damaged | silent on good disks, loud on bad ones |
| formatter, `fs/zeros_format.c` | none | layout, bitmaps, initial directories | layout arithmetic on small disks | its result is a good disk |
| FUSE daemon, `fs/zeros_fuse.c` | a handle of its own | getattr, readdir, read, write, create, truncate, mkdir, unlink, rmdir | read-modify-write of whole files; a second handle on a disk that the shell has open; never closes it | nobody writes back old bitmaps |
| VFS, `fs/vfs*.c` | which backend | delegation; the host backend calls Linux | the host backend ignores short writes | - |
| shell, `shell/shell.c` | handle, FUSE pid and mountpoint, running child | start, builtins, external commands, exit, shutdown | forks the daemon while its handle is open, polls for 2 s, unmounts a directory it stands in, switches off without a sync | never flushes old metadata; shutdown loses nothing |
| tools, `fs/zeros_{update,upgrade,populate,shell_update}.c` | a handle of their own | download, compile, copy in | run while the disk is mounted; one entry of many fails | exit status 0 means that everything was copied |
| editor, `shell/editor.c` | lines, cursor, undo stack, dirty flag | edit, move, undo, search, save, quit | positions kept over changes of the text, undo stack at its limit, save that fails | an edit changes the text at the cursor and nowhere else; nothing typed is lost without a warning |
| VM init, `vm/init.c` | children, whether there is a disk | find, check, format, fill, spawn the shell | every step can fail; restart loop | there is always a shell again |
| kernel memory, `kernel/pmm.c`, `kernel/heap.c` | page bitmap, list of heap blocks | pmm_alloc, kmalloc, kfree | pages of others between pages of the heap | allocations never overlap |
| scheduler, `kernel/scheduler.c` | process table, current, count | create, tick | runs at the end of every interrupt, between any two instructions of a thread | every thread resumes from its own frame and gets its turn |
| interrupts and keyboard, `kernel/arch/x86/{idt,isr,timer,keyboard,input}` | key ring, shift and E0 flags | handlers, getchar, hlt | a handler and a thread share the ring without a lock; hlt after a test | nothing stored is lost, every key is read |
| kernel filesystem, `kernel/kzeros.c` | superblock, `cwd_ino`, `cwd_path`; bitmaps only on disk | as the handle | every bit is written through, transfers fail, other order of writes than `zeros_mount` | whatever fails, nothing in use is marked free |
| AHCI, `kernel/arch/x86/ahci.c` | one command slot | read, write | polling with a limit, interrupts off meanwhile | success is reported for transfers that happened |

Interaction: shell, daemon and tools share only the disk, each through a handle
with its own copy of the bitmaps, and all through the page cache of Linux; init
starts the shell, the shell the daemon and the tools; the kernel is a different
program on the same format. Inside the kernel the threads share the process table
and the key ring with the interrupt handlers.

The hazards behind these properties, each with its source line, are in
`PROJECT.json` under `hazards`.

## 2. Modules

| module | models | built on |
|---|---|---|
| `ZerosFS` | the format; walking extents, `dir_lookup`, `dir_is_empty`, `resolve_path`, `resolve_parent` as pure operators | - |
| `ZerosMount` | one handle of `zeros_mount.c` on a disk, write by write, with crashes | `ZerosFS` |
| `ZerosTree` | what the handle promises: a tree of named nodes that changes one node at a time | - |
| `ZerosMountTree` | the refinement mapping from `ZerosMount` to `ZerosTree` | `ZerosMount`, `ZerosTree` |
| `ZerosFsck` | the four checks of `zeros_fsck.c` on the disk of `ZerosMount` | `ZerosMount` |
| `MCZerosFsck` | damaged disk images for it: trees with fields overwritten, graphs of directories | `ZerosFsck` |
| `KHeap` | `pmm.c` and `heap.c` | - |
| `KSched` | `scheduler.c` and the switch in `isr.s` | - |
| `KConsole` | the running kernel: boot thread, kshell, timer, keyboard, hlt | `KSched` |
| `KAhci` | `ahci.c` in the running kernel: polled transfers between the lines kshell reads | `KConsole` |
| `KZeros` | `kzeros.c` as kshell drives it, block write by block write, with failing transfers and power loss | `ZerosFS`, an instance of `ZerosMount` |
| `Editor` | one session of `editor.c` | - |
| `ZerosShared` | several handles on one disk, a call a step | - |
| `ZerosTools` | `zeros_populate.c`, `zeros_update.c`, `zeros_upgrade.c`, `zeros_shell_update.c` | `ZerosShared` |
| `ZerosSession` | `init.c`, `shell.c`, `zeros_fuse.c`, the order of writes of `zeros_format.c` and the page cache: the Linux system from power on | `ZerosTools` |
| `ZerosLemmas` | facts about numbers, finite sets and sequences the proofs share | - |
| `ZerosFSProofs` | lemmas about the operators of the format, for every program that uses it | `ZerosFS`, `ZerosLemmas` |
| `ZerosMountProofs` | theorems about a handle: types, metadata, owners of blocks, recovery, the tree, counters, contents; it implements `ZerosTree` | `ZerosMountTree`, `ZerosFSProofs` |
| `KZerosProofs` | theorems about the kernel's filesystem: types, owners, the tree, contents, counters, the working directory | `KZeros`, `ZerosFSProofs` |
| `KHeapProofs` | theorems about the kernel's memory | `KHeap`, `ZerosLemmas` |
| `KAhciProofs` | theorems about the running kernel | `KAhci`, `ZerosLemmas` |
| `ZerosSessionProofs` | theorems about the Linux system | `ZerosSession`, `ZerosLemmas` |
| `EditorProofs` | theorems about an editor session | `Editor`, `ZerosLemmas` |
| `MCZerosMount`, `MCKZeros`, `MCEditor`, `MCZerosSession` | paths, files, the bytes of files as entries, and constraints for TLC | the modules they name |

`Mut_X` next to a definition `X` is a plausible mistake in the code of `X`; for
every property one of them is known to break it.

### The handle (`ZerosMount`)

State.  `itab` and `data` are the inode table and the data area; `dsb`, `dibm`,
`dbbm` the superblock counters and the bitmaps on disk; `sb`, `ibm`, `bbm` the
copies in `zeros_mount_t`; `cwd` is `cwd_ino`.  `pc` and `c` hold where the call
in progress is and its locals.  `live`, `wrote` and `harm` are history.

Steps.  The unit is what a crash can separate.  Inodes and directory blocks are
written through when the code writes them; bitmaps and superblock reach the
disk only in `flush_metadata`, in three steps.  So `zeros_mkdir` is
`zeros_mkdir` (allocation in RAM), `mkdir_init` (the new block and inode, which
nothing names yet), `dir_add_entry_slot` or `dir_add_entry_block` followed by
`dir_add_extent`, and `flush_sb`, `flush_ibm`, `flush_bbm`; or it stops in
`zeros_mkdir_disk_full` or `dir_add_entry_fails` and returns without a flush, as
the code does.  `zeros_write_file` calls `zeros_touch`, flush included, when the
path does not exist, and resolves the path again afterwards (the first two
disjuncts of `flush_bbm`).  Calls that are refused before they change anything
have no step.  A crash is the end of the process between two writes: the writes
made so far stay, in order.  What a power loss does to writes that Linux has not
brought to the disk yet is the subject of `ZerosSession`.

Paths through files.  `dir_lookup`, `dir_add_entry`, `dir_remove_entry` and
`resolve_path` never ask whether an inode is a directory, so that `a/b` with a
regular file `a` takes the bytes of `a` for entries.  Whoever writes a file
chooses its bytes, so what they amount to as entries is the parameter `AsEntries`,
any function from contents to entries: with every number as inode, numbers beyond
the table (`OUT`) too.  A lookup that meets such bytes is recorded
(`ThroughFile`).  The inode it finds may be any of the table, in use or free: the
call then does to it what the code does. It may also be one that nothing has ever
written, or lie beyond the table (`~Readable`): `read_inode` takes bytes of an
arbitrary block for an inode, and `zeros_rm` or `zeros_write_file` frees whatever
extents these spell, metadata included.  `astray` is that step: it frees an
arbitrary range of blocks, records `stray`, and the model ends there.

Damage.  The code does not survive everything, and the model does not pretend
it does: `harm` records which kinds of damage have happened.

* `torn`: an inode or entry on disk disagrees with the bitmaps in use - a crash
  between an entry or inode write and the end of the flush, a write that fails
  after it freed the old blocks, a removal through a path whose last component
  is not the name of the entry, a lookup or a creation in the bytes of a regular
  file;
* `mixed`: a crash while a file with contents is rewritten;
* `lost`: something is marked used that nothing names;
* `drift`: a crash between the three writes of a flush;
* `stray`: a call has taken bytes that were never an inode for one.

Every property says which kinds it tolerates.  `TypeOK` tolerates all;
`MetadataProtected` all but `stray`, which is the one way in which the code of a
handle frees a metadata block, and its second part, `StraysOnlyThroughDamage`,
says when that can happen: only after a path has led through a regular file, or on
a disk that is torn, because a new inode is on disk before the entry that names
it. That the other properties need no more exceptions than these, each a specific
line of the code, is the content of the runs.

Abstractions.  Names are atoms and paths have at most two components
(`[/][dir/]name`, `name` empty for a trailing slash); deeper directories are
reached through `zeros_cd`.  A file is a number of blocks with one content
value.  Left out: timestamps (so `zeros_touch` of an existing file and the flush
in `zeros_mount_open` change nothing), permissions, link counts, byte sizes,
truncation at `ZEROS_NAME_MAX`, errors of `pread`/`pwrite`, and that
`dir_remove_entry` leaves name and type in the freed entry, which no reader looks
at.  A directory block never counts as file contents.
Read-only calls (`ls`, `cat`, `stat`, `readdir`) have no action.

### The checker (`ZerosFsck`)

`zeros_fsck` is the set of kinds of error the program prints for the disk
variables; the empty set is "El filesystem esta limpio".  `check_dir_recursive`
is recursive as in C: a fold over the entries in scan order with the reachable
set, the errors and the `found_dot` flags as its state.

The images it has to judge come from `MCZerosFsck`, not from a handle: trees as
`zeros_mount.c` leaves them, of which up to `MaxEdits` fields are then overwritten
with any value (the mode or the extents of an inode, an entry, a bit of either
bitmap, the counters), and directories that link to each other in any way with
any type, `..` and inode bitmap.  Blocks with two owners, blocks outside the data
area, more extents than the array holds, lost inodes, wrong dots, inode numbers
beyond the table and cycles are among them.  Every kind of error is reported for
some image but one: check 3 builds its inode bitmap from the one on disk, and
never finds a difference.

`CleanIsConsistent` says what a clean answer is worth, against an order-free
definition of what can be reached (`RefReach`, a least fixed point): every inode
marked used can be reached, its blocks are data blocks, and the block bitmap marks
these and no others.  Two things do not follow, and are stated as such.  That a
block has one owner: the program builds a bitmap and not a count, and such
images are clean.  And that dots and entries of every directory are right, which
is only so when no entry calls a directory by another type (`TypesAgree`): check 4
goes by the type in the entry (`zeros_fsck.c:349`), so a directory behind an entry
of type regular is marked reachable and never visited.

### The kernel (`KHeap`, `KSched`, `KConsole`, `KAhci`)

`KHeap` counts memory in units of 8 bytes; the list of headers is a sequence.
Nothing interrupts an allocation with another one, so calls are atomic, except
that `kmalloc` takes one step per page it asks for, to state that it returns.

`KSched` executes `process_create` store by store with interrupts on; a saved
stack pointer is identified with the thread whose frame it points at.  An
interrupt is one step (interrupt gates) and ends in `Reschedule`, as
`irq_handler` does for every IRQ, not only the timer's.  `KConsole` adds the
devices and kshell's `input_readchar`, with one step per access to the shared
ring and hlt a step of its own.

`KAhci` puts `do_rw` between the lines kshell reads.  Its steps are separate up
to `cli`, so interrupts fall between them; from there to `sti` only kshell and
the controller move.  The controller is external and modelled from what the code
relies on: it executes the table it finds when `ci` goes from 0 to 1, clears
`ci` when done, or sets bit 30 of `is` and stops.  After a time-out the slot is
still busy and the next `ci = 1` starts nothing; `TransfersHonest` speaks of the
time before that, and the run shows that no other exception is needed.

### The kernel's filesystem (`KZeros`)

State and tree operators are those of `ZerosFS` and `ZerosMount` (instance `M`,
with the bitmaps in use being the ones on disk).  A step is one block write.
Every write may fail: either nothing happened (`io_error`) or it happened and
the caller is told -1 (the `Fault` disjuncts); `free_block` and `free_inode`
ignore both.  A lookup whose read fails says "not there", and `blind_create` is
the creation that follows.  Paths through regular files, `AsEntries` and `astray` are
as in `ZerosMount`.  `Cut` shortens a name as `k_strncpy` does:
`resolve_path` compares whole names, `resolve_parent` cuts.  `cwd_path` is edited
as text (`NewPath`), `cwd` follows the entries.

`harm` again names the exceptions: `torn` (a removal or a rewrite cut short, an
entry that was not erased, a lookup or creation in the bytes of a regular file),
`stray` (a command took bytes that were never an inode for one), `lost` (leaks),
`drift` (counters), `twin` (a name that was not seen and created again), `text`
(cd with `..` inside a longer path).  `KOwnership` and `KTreeSound` need only
`torn` and `twin`: creation may be cut short anywhere, which is what the order
bitmap - inode - entry buys.

### The editor (`Editor`)

`ed` is `EditorState`, and the functions that change it are operators with their
names.  One action per key.  Saving has the three outcomes `vfs_write_file` can
have; opening has the branch for `NULL`, in which a file that cannot be read, or
a directory on the ZEROS backend, is shown as an empty text.  A use of a freed
array (`KEY_ENTER_moved`) is a choice: the old contents are still there, or the
process dies.  Left out: drawing, scrolling, decoding of escape sequences, lines
indented by more than 255 columns, and `malloc` failing.

### The Linux system (`ZerosShared`, `ZerosTools`, `ZerosSession`)

`ZerosShared` keeps of the disk the magic number, the block bitmap, the blocks of
each file and whose contents are in each block, and of each handle its copy of
the bitmap.  A call is one step: what a crash inside a call does is the subject
of `ZerosMount`.  `ZerosTools` walks the list of a tool with a choice per entry;
`Following` is the nested `strtok` of `zeros_upgrade.c`.  `ZerosSession` is the
composition: `ipc` and `spc` say where init and the shell are, `dst` what each
daemon does, `mounts` which of them is visible under `/disk`.  Assumed of the
outside: `fuse_main` with `-s` mounts and then goes into the background, a second
mount covers the first, and `fusermount -u` refuses a mount that is somebody's
current directory.  A daemon that has been unmounted serves nothing more, but its
process, and with it the device it has open, ends later (`leaving`, `daemon_exit`).

The page cache.  No program opens the disk with `O_SYNC` and none calls `fsync` or
`sync`.  `disk` is what a process that reads is given, which includes everything any
process has written; `media` is what is really on the device, and all that is left
when the power goes.  `writeback` brings any block of the cache to the device at any
time, so writes reach it in any order, or not at all.  The one thing the code can
count on is external: Linux writes the whole cache of a block device back when the
last process that has it open closes it (`Held`, `Cache`).  The disk is such a device
(`/dev/vda`, `/dev/sda`, ..., `init.c:33-39`); with an image in a regular file not even
this holds.  `PowerOff` is `power_loss` and `sh_shutdown` alike, since
`reboot(RB_POWER_OFF)` (`shell.c:355`) does not sync.  A write cache in the device
itself is not modelled.

Two histories carry the exceptions.  `hurt` is what has happened to the disk:

* `cut`: the formatter was cut between the superblock and the bitmaps;
* `short`: a write ran out of space;
* `stale`: a handle wrote back a bitmap that another had changed;
* `unsynced`: the power went while the cache held writes the device did not have.

`mixed` is that the code let in two writers: a tool was started while a handle was
open, a daemon came up although the shell had given it up, or a daemon outlived
its shell.

`DiskSound` excepts `mixed` and all of `hurt` but `stale`.  So it does not catch
what these record: it says that there is nothing else.  The formatter's other
writes may be cut anywhere, a power loss with an empty cache loses nothing, and
the overlap that every start has, with the shell's handle open from `shell.c:675`
to `684`, is harmless because the shell is still waiting when the daemon mounts;
taking commands from the daemon's mount one step earlier, with the handle still to
be closed, breaks it.  `OneWriter` says of the same overlaps that no handle falls
behind the disk. `ShutdownKeeps` says when the missing `sync` does no harm: when
the shell has worked without FUSE, its handle is the only one and `vfs_destroy`
has closed it before `reboot`.  With FUSE it is not so (see the known facts
below).

## 3. Runs

| run | checks | instance |
|---|---|---|
| `mount_damage` | `TypeOK`, `MetadataProtected` | 2 data blocks, 2 inodes, counters mod 4, paths `a`, `a/`, `../b`, `a/a`, `a/b`; the bytes of a file name an inode of the table and one beyond it; states with up to two kinds of damage are explored further |
| `mount_blocks` | `BlockOwnership`, `CrashRecoverable`, `CountersMatch`, `ReadBack`, `NothingLost` | 4 data blocks, 3 inodes, 2 contents, files of 0 to 2 blocks, paths `a`, `/b`; states with leaks are explored further |
| `mount_tree` | `TreeSound`, `CwdAlive`, `FsckClean`, `ImplementsTree` | 3 data blocks, 3 inodes, directories that grow after one entry, paths `a`, `/b`, `a/b`, `..`, `a/`; leaks are explored further |
| `fsck_images` | `CleanIsConsistent` | 3 inodes, 3 data blocks: all trees with up to 2 fields overwritten, and all graphs of directories |
| `kheap` | `TypeOK`, `AllocationsApart`, `HeapTiles`, `KmallocReturns` | 4 pages for the heap, one of which another part may take, a partial last bitmap word |
| `kconsole` | `TypeOK`, `ContextsKept`, `RingFifo`, `NoStuckShift`, `TransfersHonest`, `EveryoneRuns`, `KeysDelivered` | 3 process slots, a ring of 3 cells, 7 scancodes, 4 of them sent, 2 transfers |
| `kzeros` | `TypeOK`, `KOwnership`, `KTreeSound`, `KCountersMatch`, `KReadBack`, `PwdMatchesCwd` | 4 data blocks, 3 inodes, directories that grow after one entry, paths `a`, `a/b`, `.`, `..`, `a/..` and a name that is too long, one failed transfer or power loss at any step; leaks and wrong counters are explored further |
| `editor` | `TypeOK`, `CursorInside`, `UndoMatches`, `CleanMeansSaved`, `EditsAreLocal`, `SearchFinds` | a file of two lines, one indented, the last without newline; a missing one; a directory; 3 keys that change something, any number that move |
| `session` | `DiskSound`, `ToolHonest`, `OneWriter`, `ShutdownKeeps`, `ShellComesBack` | 2 blocks, one of them for the directories, 2 files of up to 2 blocks, 2 daemons |

Bounds and why they are enough for what they are about.  The disks fill up, so
every "disco lleno" and "directorio lleno" branch is taken; with three entries per
block a directory needs a second extent after one file; with `MaxExtents` 2 both
extent limits are hit; three free blocks and two files are the least with which a
rewrite gets non-contiguous blocks; three inodes are root and two that can be
nested, reused or swapped.  `U32` stands for 2^32 and is small in `mount_damage`
so that counters really wrap.  A ring of 3 cells is full after two keys and wraps
with the third.  In `editor` an array of 2 lines, an undo stack of 2 levels and a
term of 2 letters all reach their limit within the keys allowed.  In `session` two
files contend for the one block beside the directories, which is the least disk on
which a block can be given away twice, and one daemon can outlive its shell while
another starts.  One failed transfer in `kzeros` can hit any of the writes.  Two
overwritten fields in `fsck_images` are enough for damage that another field
hides: a block taken from one inode and given to another, or an entry of another
type and wrong dots behind it.  Constraints stop the exploration after damage that
a run's properties do not speak of; the damaged state itself is still checked.  In
`session` the constraint also cuts the liveness check: `ShellComesBack` is shown
for behaviours in which the disk is not hurt. `SYMMETRY` permutes the contents of
files, which the model only compares. Deadlock is not checked for the disk models,
which may stop when nothing fits any more, nor for the runs of `ZerosSession`,
where the constraint ends behaviours, nor for the images of `MCZerosFsck`; it is
for `kheap`, `kconsole` and `editor`.

Fairness.  `kconsole`: the timer keeps firing (weak fairness), and a thread whose
turn comes again and again executes (strong fairness): a tick is 10 ms and the
interrupt returns to the thread; a transfer ends because its polling is bounded.
No fairness is assumed of the controller or the keyboard.  `kheap`: a call of
`kmalloc` in progress goes on, because nothing suspends it. `session`: init,
shell, daemons and tools are processes that Linux schedules, so each goes on with
what it is doing (weak fairness each, of the step together with what it does to
the cache); nothing obliges the user to answer, to type or to switch the machine
on, nor Linux to write the cache back.

### Disagreements between the code and its own comments

Each is a run that TLC must find violated; `PROJECT.json` quotes the lines.

* `mount_alias_rm`: `rm a/` frees `a` and leaves its entry.  (`mkdir a/` takes
  the same turn and makes an entry with an empty name, which `zeros_fsck`
  rejects; `FsckClean` makes an exception for it.)
* `editor_split`: Enter when the array of lines is full and `realloc` moves it
  does not truncate the line it splits.
* `session_upgrade`: `upgrade` compiles the first entry of `BUILD` and reports
  success.

### Known facts that are exceptions of the properties

* Calls of `zeros_mount.c` that fail half way (`mkdir` at 529, `write_file` at
  624-628) return without `flush_metadata`, although its header (7-8) says every
  operation ends with it; `NothingLost` excludes them with `lost` and `torn`.
* A block that belongs to two inodes is "limpio" for `zeros_fsck` (208-209 sets
  the bit without testing it); `CleanIsConsistent` compares sets and does not claim
  that owners are disjoint.
* `zeros_fsck` does not check a directory behind an entry of another type, though the
  comment of check 4 promises it for each directory (275-278): such an entry hides
  wrong dots and wrong entries from it (`TypesAgree`).
* A path through a regular file can lead `rm` and `write_file` to bytes that were never
  an inode, in both filesystems (`stray`).
* `kzeros_rm` and `kzeros_write_file` clear bits before the entry or inode stops
  pointing at the blocks; a failed transfer in between is `torn`.
* A lookup whose read fails makes the kernel create a name that exists (`twin`).
* A save that the host backend cuts short counts as saved, and a file that cannot be
  read is shown as empty and unmodified (`damaged`).
* A formatting that is cut between superblock and bitmaps leaves a disk that looks
  formatted (`cut`).
* `kfree` merges list neighbours that are not contiguous, which `heap_grow` is
  careful not to do; the kernel frees nothing today, and `kheap` stops exploring
  there (`BlocksContiguous`).
* `cd a/..` leaves `cwd_path` behind (`text`), a name that is too long can be
  created twice (`twin`).
* After an AHCI time-out answers no longer belong to the commands they are given
  for (`gave_up`).
* A failed `zeros_format` or `zeros_shell_update` leaves init restarting a shell
  that cannot start (the exceptions of `ShellComesBack`).
* `exit` in FUSE mode leaves the daemon running, since the shell stands in
  `/disk`; the next shell starts a second one (`mixed`).
* Power that goes with writes in the page cache leaves any part of them on the disk
  (`unsynced`).  With FUSE that includes `shutdown`: `fuse_umount` says that it waits
  until `zeros_fuse` has ended (`shell.c:152-153`), but the process it waits for ended
  when the daemon went into the background (`zeros_fuse.c:238-242`), and `fusermount`
  is refused while the shell stands in `/disk`; `reboot` then comes without a sync and
  with the device open.
* In the editor the confirmation asked for once is not asked for again until the
  next save (`quit_confirm`, 745-753), and the header promises 20 levels of undo
  where the code has 50.
* When `kzeros_open` fails, kshell halts for ever and never reads the keyboard
  (`kshell.c:146-149`); `KConsole` starts after that branch.
* Not represented by any property: `builtin_shutdown` goes on with a destroyed
  `g_vfs` when `reboot` is refused; `cc` under FUSE writes below `/disk/disk`;
  the tools look for disks in another order than init; the test for a finished
  mount (`shell.c:122`) compares with the device of `/tmp`.

## 4. Proofs

Every theorem holds for every value of the constants that satisfies the named
assumptions of the modules (`GeometryAssumption`, `NamesAssumption`,
`EntriesAssumption`, `MountAssumption`, `SchedAssumption`, `ConsoleAssumption`,
`AhciAssumption`, `SharedAssumption`, `EditorAssumption`, `HeapAssumption`,
`KernelAssumption`): any disk geometry, set of paths, number of files and daemons,
of pages and requests, size of the ring, text, contents of files as entries, size
of the undo stack, and any bound on writes, crashes, transfers and keys. TLC
evaluates the assumptions in every run.  Each strengthening below was checked by
TLC on the instance of a run before it was proved.

### One handle

| theorem | states |
|---|---|
| `TypeCorrect`, `MetadataAlwaysProtected` | `TypeOK`, `MetadataProtected` |
| `StraysNeedDamage` | the second part of `MetadataProtected`, `StraysOnlyThroughDamage` |
| `BlocksAlwaysOwned`, `AlwaysRecoverable` | `BlockOwnership`, `CrashRecoverable` |
| `TreeAlwaysSound`, `CwdAlwaysAlive` | `TreeSound`, `CwdAlive` |
| `CountersAlwaysMatch`, `AlwaysReadsBack`, `NothingEverLost` | `CountersMatch`, `ReadBack`, `NothingLost` |
| `MountImplementsTree` | `Spec => ImplementsTree`, the refinement of `ZerosTree` |

None of these is inductive alone.

* `Layout` joins `TypeOK`, `MetadataSafe` (what `MetadataProtected` says, without its
  condition) and `CallWellFormed`: the block in `c.blk` is a data block where it is
  going to be linked, the directory about to grow has room for one more extent, the
  extents collected by a write lie in the data area.  It holds through every kind of
  damage and whatever the bytes of files are as entries, until a call goes astray
  (`LayoutUntilAstray`): an inode of the table that has been written has extents in the
  data area, whoever names it.
* `Good` holds as long as `torn` is not in `harm`.  It says
  that the entries are a tree (`TreeLinks`, `TreeDots`), that every entry of a
  directory leads to an inode in use, that such an inode has been written
  (`LiveWritten`: no call goes astray, which is `StraysNeedDamage`), that
  owners are disjoint (`Apart`) and marked (`Marked`), and what the call in
  progress holds: an inode nobody names and a name nobody has (`CreateHolds`), a
  block nobody has (`BlockHeld`), a new node that is on disk before its entry
  (`NewNode`), collected blocks that are no other file's (`WriteHolds`).
  `DiskCovers` is the half that matters after a crash: outside the commit window
  the bitmaps on disk cover whatever the entries name.  The owners are the live
  inodes and the one a creation has built and not yet named: the reason that a
  crash between the two leaks at most.
* `Counts`, `Reads` and `Tight` rest on `Good`: the counters
  follow the bitmaps step by step, and the superblock on disk is ahead of its
  bitmaps only during a flush; a file holds what was last written to it because
  its blocks are its own; marked and in use are the same set while nothing was
  `lost`.
* For the refinement `MapFacts` computes what the mapping gives in a state that
  is `Good`: one node per live inode, from the one link that names it.  Every
  action is then shown to leave the mapped tree alone or to be the one step of
  `ZerosTree` that it stands for.

One lemma per action of `ZerosMountProofs` proves each of these preserved, on top
of the lemmas of `ZerosFSProofs` about the operators: what `resolve_path` and
`dir_lookup` return, that the lowest clear bit is a clear bit, what growing,
releasing and walking extents does to the set of blocks of an inode.

### The running kernel

`KAhciProofs` proves `KernelTypeCorrect`, `ContextsAlwaysKept`, `ShiftNeverStuck`,
`RingAlwaysFifo` and `TransfersAlwaysHonest` of `AhciSpec`, in which timer and
keyboard interrupt any step.  `ConsoleTyped` adds to `TypeOK` that `count` is the
number of `process_create` calls that have got past it; `Contexts` says where the
frame of each thread is while it is switched out, interrupted or being created;
`RingBusy` relates head, tail and the history of accepted characters while
`keyboard_getchar` has read one index and not yet stored the other; `SlotHonest`
says that an active command is the one in the table until a time-out.

`ContextsAlwaysKept` has the hypothesis `Creations <= 1`, and needs it: if a
second `process_create` ran while two threads are already scheduled, a timer
interrupt between `state = PROC_READY` and the store of `esp`
(`scheduler.c:105-107`) could choose a slot that has no frame.  `kmain` creates
one process (`kernel.c:23`), so today's kernel is inside the hypothesis.

### Kernel memory

`KHeapProofs` proves `HeapTypeCorrect`, `AllocationsStayApart`, `HeapStaysTiled`
and `FreeCounterExact` (`FreePagesMatch`: the free counter is the number of clear
pages, those of a last, partial bitmap word included) from `IInv`: pages are
handed out in order, so the used ones are `0 .. Top` (`PagesInv`); the list is in
the order of the addresses, ends where the memory ends, and what lies between two
blocks is pages of others, unless a merge at or before that place has reached over
one; no two free blocks touch (`ListInv`); every allocation has a block of its own
that is not free (`HeldInv`).  `kfree` rebuilds the list block by block, so these
are stated of any list, and proved of every prefix of the one being rebuilt
(`Joined`, `Coalesced`). The invariant holds of all of `Spec`, also after a merge
over a foreign page, where the run `kheap` stops; `AllocationsApart` and
`HeapTiles` say nothing of such a heap, because the header the merge swallowed may
be overwritten by the page's owner.

### The kernel's filesystem

`KZerosProofs` proves every property of the run `kzeros`, for any number of failed
transfers and power losses.

| theorem | states |
|---|---|
| `KTypeCorrect`, `KOwnershipHolds` | `TypeOK`, `KOwnership` |
| `KTreeAlwaysSound` | `KTreeSound` |
| `KAlwaysReadsBack`, `KCountersExact` | `KReadBack`, `KCountersMatch` |
| `KPwdIsCwd` | `PwdMatchesCwd` |

* `KTyped` adds to `TypeOK` what a command is about to write: the block in `c.blk`
  is a data block, a directory about to grow and a file being written have room for
  one more extent, and without a handle the counters are those on disk.
* `KGood` holds as long as nothing is `torn`.  It is the `Good` of the handle with
  the differences that matter: there is one bitmap, so `Marked` is what a crash
  finds, at every step and not only outside a commit window; and a command that
  frees gives back blocks that an entry still names, so `FreeHolds` says which ones
  are left, that they are marked, that the inode is still linked and that its
  path still leads to it.  Between those frees a power loss is `torn`; everywhere
  else `KGood` holds of what is on disk.
* `OneName` holds as long as nothing was created twice (`twin`), and is kept apart
  because a second entry of the same name breaks neither ownership nor the links.
* A step does one of three things to the tree (`TreeStep`): nothing, one new link,
  or one link less, to an inode that has no links of its own.  `KPwdIsCwd` follows
  from that: the names of `cwd_path` are a chain of links from the root to `cwd`
  (`Chain`), an inode on the way has a link and is not the one removed, `cwd` itself
  is refused by `kzeros_rm`, and `cd ..` drops the last name because a directory has
  one link.  With one name once in a directory, looking the names up goes along the
  chain (`ChainWalk`).
* `KReads` says how much of a new file is written and that its blocks are nobody
  else's; `Counted` follows the counters through every bit, and needs `FreeHolds` to
  know that a bit that is cleared was set.

### The Linux system

`ZerosSessionProofs` proves `OnlyOneWriter`, `DiskAlwaysSound`, `ToolsAlwaysHonest` and
`ShutdownAlwaysKeeps` from one invariant, `FullInv`.  Its core, `SessionInv`, says
what `zeros_format` has written so far and that nobody looks meanwhile (`Booting`), who
has the disk open in which state of init, shell, daemons and tools (`Holders`), that the
daemons mounted are the ones that serve and that a young one is the running shell's
child (`Mounting`), that unless `mixed` records the exception whoever writes is alone
(`Alone`), that then every file is intact (`DiskOK`), and what the tools have
counted (`Counting`).  The step that carries it is that a handle which is not
behind the disk allocates only blocks no file has.

Four more parts carry the page cache and the exceptions.  `WrittenBack`: when no
process has the device open, the disk is what is on the device, which is what
`writeback` and the last close amount to.  `StaleMixed`: a handle that writes back
a bitmap another has changed was let in next to a writer, so `stale` never happens
without `mixed`, and `DiskSound` need not except it.  `Bare`: a machine without a
disk has no daemons.  `Left`: a shell that works without FUSE has found no daemon
next to it, unless `mixed`.  `ShutdownAlwaysKeeps` follows from `Left` and
`WrittenBack`: nobody has the device open, so there is nothing to lose.  That
a power loss outside `unsynced` gives back the disk as it was holds by what
`unsynced` records, and is said here so that nobody reads more into `DiskAlwaysSound`.

### The editor

`EditorProofs` proves `EditorTypeCorrect`, `CursorAlwaysInside`,
`UndoAlwaysMatches`, `CleanAlwaysSaved` and `EditsAlwaysLocal` from `EditInv`, and
`SearchAlwaysFinds` from `EditInv` and `SearchInv`.  Two things carry `EditInv`.
`RoundTrip`: what `editor_save` and `editor_snap_push` write splits into the same
lines in `editor_load` and `editor_snap_pop`, for every non-empty sequence of
lines without newlines; the proof locates the end of each line in the text and
counts the newlines up to it.  Without the exclusion of newlines it is false,
which is why `EditorAssumption` says that a typed character is not a control
character (`!iscntrl(key)`, `editor.c:823`) and why `Ed` types every line, also
the ones of the levels of undo.  And one lemma per operation: each is given a
state with the cursor inside (the copies in `line_delete_char` and
`editor_insert_newline` are only defined there), leaves the stack alone and sets
`dirty` if it changed anything; `editor_clamp_cursor` puts the cursor back. The
write through the stale pointer (`KEY_ENTER_moved`) is one of the operations: it
damages the line, not the invariant.

`SearchInv` is what a search needs and `EditInv` does not say.  Forwards `strstr`
stops at a `'\0'` and backwards the comparison does not, so that a term can be in
the text and not be found: while no line, no level of undo and not the file hold
one (`Plain`), `FindPlain` says that one turn around the lines meets every
occurrence.  Every edit keeps plain lines plain, except the write through the
stale pointer; that is why `SearchFinds` excludes `stale`.  And the cursor kept by
`editor_find` stays inside (`Target`) because the text does not change under it, so
the clamp after ESC is the identity.

`EditsAlwaysLocal` compares two views of a text: the rows and columns the operations
work on, and one string with an offset (`Flat`, `At`).  A cursor that is inside the
text has a shape (`Shaped`): the lines before its line, the two pieces of its line,
the lines after it (`ShapeExists`); past the last line both pieces are empty.
`SerializeConcat` says that `Serialize` turns lines put together into texts put
together, so the string is what is left of the cursor (`Left`) followed by what is
right of it, without the last newline (`FlatIs`).  Each operation then maps one shape
to another (`InsertShape`, `ShapeCut`, `ShapeJoin`, `EnterLocal`), of which one side
is the same and the other has grown (`Grows`) or lacks one character or newline
(`Lacks`); at the two ends of the text a deletion finds nothing, and the offset it
would take out is outside the string.  `ClampStays` says that `editor_clamp_cursor`
changes nothing after these keys.

### Only model-checked

* `FsckClean`, `CleanIsConsistent`: `check_dir_recursive` is a recursive operator,
  which the prover cannot reason about.
* `KmallocReturns`, `EveryoneRuns`, `KeysDelivered`, `ShellComesBack`: liveness
  needs fairness and `ENABLED`.

## 5. Plan

The models are in place, and every safety property of the runs is proved but the two
of the consistency checker.  Those would need `check_dir_recursive` restated as a
fold over the directories that `ZerosFS` can reach, and an induction over that fold.
Of the parts that section 6 leaves out, the layout arithmetic of `zeros_format` is
the one that would carry a property of its own.

## 6. Not modelled

* Parsing, completion, printing and rendering of shell, editor and pager; the
  decoding of escape sequences.  They keep no state the rest depends on.
* The `cc` builtin, which runs a compiler between two calls of the handle that are
  modelled.
* The layout arithmetic of `zeros_format`: pure arithmetic on one input, for which
  `ZerosFS` takes any layout that satisfies its assumptions.
* Hardware set-up (GDT, IDT, PIC, paging tables, PCI, `ahci_init`), `kstring.c` and
  the consoles: straight-line code.
* Building of images (`vm/build.sh`, `Makefile`s).
