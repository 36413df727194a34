---------------------------- MODULE ZerosSession ----------------------------
(***************************************************************************)
(* The Linux system from power on: init (vm/init.c) finds, formats and     *)
(* fills the disk and keeps a shell running; the shell (shell/shell.c)     *)
(* opens the disk, starts a zeros_fuse (fs/zeros_fuse.c) on it and works   *)
(* through /disk, or through its own handle when that fails; the tools run *)
(* under the shell.                                                        *)
(*                                                                         *)
(* fuse_main is called with -s alone: it mounts, puts itself into the      *)
(* background and its parent, the process the shell has forked, exits.  A  *)
(* daemon ends when it is unmounted, without closing its handle.  A second *)
(* daemon mounts on top of the first (libfuse 3).                          *)
(*                                                                         *)
(* The disk is a block device (init.c:33-39), opened without O_SYNC, and   *)
(* no program calls sync or fsync: what is written is in the page cache of *)
(* Linux, which writes block after block to the medium when it likes, and  *)
(* all of it when the last process that has the device open closes it.     *)
(***************************************************************************)
EXTENDS ZerosTools

VARIABLES
  ipc,          \* where init is
  disk_arg,     \* init hands the disk to the shell
  spc,          \* where the shell is; "none" when there is no shell
  vfs,          \* g_vfs: "zeros", "host" or "none"
  fuse_mnt,     \* g_fuse_mnt is not empty
  fuse_pid,     \* the daemon g_fuse_pid became, 0 none
  cwd,          \* the mount the shell's directory is in, 0 outside /disk
  dst,          \* state of each daemon
  mounts,       \* daemons mounted on /disk, the visible one first
  mixed,        \* history: a process opened the disk while another could write
  botched,      \* history: zeros_format has failed since power on
  media         \* what is on the disk when the power goes

procVars    == <<ipc, disk_arg, spc, vfs, fuse_mnt, fuse_pid, cwd, dst, mounts>>
sessionVars == <<procVars, mixed, botched>>
vars        == <<diskVars, toolVars, sessionVars, media>>

Init ==
  /\ DiskInit /\ ToolInit
  /\ ipc = "off" /\ disk_arg = FALSE
  /\ spc = "none" /\ vfs = "none" /\ fuse_mnt = FALSE /\ fuse_pid = 0 /\ cwd = 0
  /\ dst = [d \in Daemons |-> "none"] /\ mounts = <<>>
  /\ mixed = FALSE /\ botched = FALSE /\ media = disk

-----------------------------------------------------------------------------
(* The page cache. *)

Formatting == {"format", "format_sb", "format_bm"}

(* Some process has the device open. *)
Held == \/ opened # {} \/ ipc \in Formatting
        \/ \E d \in Daemons : dst[d] = "leaving"

Cache == media' = IF Held' THEN media ELSE disk'

writeback ==
  /\ media # disk
  /\ \/ media' = [media EXCEPT !.magic = disk.magic]
     \/ media' = [media EXCEPT !.bm = disk.bm]
     \/ media' = [media EXCEPT !.ext = disk.ext]
     \/ \E b \in Blk : media' = [media EXCEPT !.data[b] = disk.data[b]]
  /\ UNCHANGED <<diskVars, toolVars, sessionVars>>

Unsynced == IF media = disk THEN {} ELSE {"unsynced"}

-----------------------------------------------------------------------------
(* init.  The disk may be absent: ten tries, one second apart. *)

InitAt(from, to) == ipc = from /\ ipc' = to
Others == UNCHANGED <<toolVars, spc, vfs, fuse_mnt, fuse_pid, cwd, dst, mounts, mixed>>
OnlyInit == Others /\ UNCHANGED botched

boot == InitAt("off", "find") /\ UNCHANGED <<diskVars, disk_arg>> /\ OnlyInit

find_disk ==
  /\ \/ InitAt("find", "check") /\ disk_arg' = TRUE
     \/ InitAt("find", "launch") /\ disk_arg' = FALSE
  /\ UNCHANGED diskVars /\ OnlyInit

check_magic ==
  /\ InitAt("check", IF disk.magic THEN "launch" ELSE "ask")
  /\ UNCHANGED <<diskVars, disk_arg>> /\ OnlyInit

Mut_decline ==
  /\ InitAt("ask", "launch")
  /\ UNCHANGED <<diskVars, disk_arg>> /\ OnlyInit

decline ==
  /\ InitAt("ask", "launch") /\ disk_arg' = FALSE
  /\ UNCHANGED diskVars /\ OnlyInit

accept ==
  /\ InitAt("ask", "format")
  /\ UNCHANGED <<diskVars, disk_arg>> /\ OnlyInit

(* zeros_format: directories through write_inode, then the superblock,     *)
(* then the bitmaps.  It may not start and any write may fail; init then   *)
(* goes on all the same.                                                   *)
format_dirs ==
  /\ InitAt("format", "format_sb")
  /\ disk' = [disk EXCEPT !.ext = [f \in {Dirs} \cup Files |-> IF f = Dirs THEN {0} ELSE {}],
                          !.data[0] = Dirs]
  /\ UNCHANGED <<opened, ram, fresh, hurt, disk_arg>> /\ OnlyInit

format_superblock ==
  /\ InitAt("format_sb", "format_bm")
  /\ disk' = [disk EXCEPT !.magic = TRUE]
  /\ UNCHANGED <<opened, ram, fresh, hurt, disk_arg>> /\ OnlyInit

format_bitmaps ==
  /\ InitAt("format_bm", "populate")
  /\ disk' = [disk EXCEPT !.bm = {0}]
  /\ UNCHANGED <<opened, ram, fresh, hurt, disk_arg>> /\ OnlyInit

CutFormat == IF ipc = "format_bm" THEN {"cut"} ELSE {}

format_fails ==
  /\ ipc \in Formatting /\ ipc' = "launch"
  /\ hurt' = hurt \cup CutFormat /\ botched' = TRUE
  /\ UNCHANGED <<disk, opened, ram, fresh, disk_arg>> /\ Others

populate ==
  /\ InitAt("populate", "populating")
  /\ tool_start("populate") \/ tool_refuses("populate")
  /\ UNCHANGED <<disk_arg, spc, vfs, fuse_mnt, fuse_pid, cwd, dst, mounts, mixed, botched>>

populated ==
  /\ InitAt("populating", "launch") /\ status # -1
  /\ Idle("none", -1)
  /\ UNCHANGED <<diskVars, bin, disk_arg, spc, vfs, fuse_mnt, fuse_pid, cwd, dst, mounts, mixed, botched>>

(* The loop: fork and execve; a binary that cannot be executed exits.  The *)
(* next turn begins when waitpid has reaped the shell.                     *)
launch ==
  /\ InitAt("launch", "wait") /\ spc = "none"
  /\ spc' = IF bin = "good" THEN "start" ELSE "none"
  /\ UNCHANGED <<diskVars, toolVars, disk_arg, vfs, fuse_mnt, fuse_pid, cwd, dst, mounts, mixed, botched>>

reaped ==
  /\ InitAt("wait", "launch") /\ spc = "none"
  /\ UNCHANGED <<diskVars, disk_arg>> /\ OnlyInit

InitStep ==
  \/ find_disk \/ check_magic \/ format_dirs \/ format_superblock \/ format_bitmaps \/ format_fails
  \/ populate \/ populated \/ launch \/ reaped

-----------------------------------------------------------------------------
(* The shell starts. *)

ShellAt(from, to) == spc = from /\ spc' = to
Rest == UNCHANGED <<toolVars, ipc, disk_arg, botched>>

sh_host ==
  /\ ShellAt("start", "prompt") /\ ~disk_arg /\ vfs' = "host"
  /\ UNCHANGED <<diskVars, fuse_mnt, fuse_pid, cwd, dst, mounts, mixed>> /\ Rest

sh_open_fails ==
  /\ ShellAt("start", "none") /\ disk_arg /\ ~disk.magic
  /\ UNCHANGED <<diskVars, vfs, fuse_mnt, fuse_pid, cwd, dst, mounts, mixed>> /\ Rest

sh_open ==
  /\ ShellAt("start", "fork") /\ disk_arg
  /\ zeros_mount_open(SHELL) /\ vfs' = "zeros"
  /\ UNCHANGED <<fuse_mnt, fuse_pid, cwd, dst, mounts, mixed>> /\ Rest

(* fuse_try_mount *)
fuse_fork ==
  /\ ShellAt("fork", "poll")
  /\ \E d \in Daemons : /\ dst[d] = "none" /\ \A e \in 1 .. d - 1 : dst[e] # "none"
                        /\ dst' = [dst EXCEPT ![d] = "starting"] /\ fuse_pid' = d
  /\ UNCHANGED <<diskVars, vfs, fuse_mnt, cwd, mounts, mixed>> /\ Rest

fuse_fork_fails ==
  /\ ShellAt("fork", "prompt") /\ mixed' = (mixed \/ mounts # <<>>)
  /\ UNCHANGED <<diskVars, vfs, fuse_mnt, fuse_pid, cwd, dst, mounts>> /\ Rest

poll_mounted ==
  /\ ShellAt("poll", "chdir") /\ mounts # <<>> /\ fuse_mnt' = TRUE
  /\ UNCHANGED <<diskVars, vfs, fuse_pid, cwd, dst, mounts, mixed>> /\ Rest

poll_timeout ==
  /\ ShellAt("poll", "kill") /\ mounts = <<>>
  /\ UNCHANGED <<diskVars, vfs, fuse_mnt, fuse_pid, cwd, dst, mounts, mixed>> /\ Rest

Young(d) == dst[d] \in {"starting", "opened"}

(* SIGTERM reaches the child, not the daemon it may have become. *)
fuse_kill ==
  /\ ShellAt("kill", "prompt") /\ fuse_pid' = 0
  /\ IF Young(fuse_pid)
     THEN dst' = [dst EXCEPT ![fuse_pid] = "none"] /\ Drop(fuse_pid) /\ UNCHANGED mixed
     ELSE mixed' = (mixed \/ dst[fuse_pid] = "serving") /\ UNCHANGED <<dst, opened, ram>>
  /\ UNCHANGED <<disk, fresh, hurt, vfs, fuse_mnt, cwd, mounts>> /\ Rest

sh_chdir ==
  /\ ShellAt("chdir", "destroy") /\ cwd' = mounts[1]
  /\ UNCHANGED <<diskVars, vfs, fuse_mnt, fuse_pid, dst, mounts, mixed>> /\ Rest

Mut_sh_destroy ==
  /\ ShellAt("destroy", "prompt")
  /\ UNCHANGED <<diskVars, vfs, fuse_mnt, fuse_pid, cwd, dst, mounts, mixed>> /\ Rest

(* vfs_destroy(g_vfs); g_vfs = vfs_open_host() *)
sh_destroy ==
  /\ ShellAt("destroy", "prompt")
  /\ zeros_mount_close(SHELL) /\ vfs' = "host"
  /\ UNCHANGED <<fuse_mnt, fuse_pid, cwd, dst, mounts, mixed>> /\ Rest

ShellStarts ==
  \/ sh_host \/ sh_open_fails \/ sh_open \/ fuse_fork \/ fuse_fork_fails
  \/ poll_mounted \/ poll_timeout \/ fuse_kill \/ sh_chdir \/ sh_destroy

-----------------------------------------------------------------------------
(* zeros_fuse. *)

Serving == {d \in Daemons : dst[d] = "serving"}
OnlyDaemon == UNCHANGED <<toolVars, ipc, disk_arg, botched, spc, vfs, fuse_mnt, fuse_pid, cwd>>

daemon_open(d) ==
  /\ dst[d] = "starting" /\ dst' = [dst EXCEPT ![d] = "opened"]
  /\ zeros_mount_open(d) /\ mixed' = (mixed \/ Serving # {})
  /\ UNCHANGED mounts /\ OnlyDaemon

daemon_mount(d) ==
  /\ dst[d] = "opened" /\ dst' = [dst EXCEPT ![d] = "serving"]
  /\ mounts' = <<d>> \o mounts
  /\ UNCHANGED <<diskVars, mixed>> /\ OnlyDaemon

(* No zeros_fuse, no fuse.ko, /disk cannot be mounted on. *)
daemon_fails(d) ==
  /\ Young(d) /\ dst' = [dst EXCEPT ![d] = "none"] /\ Drop(d)
  /\ UNCHANGED <<disk, fresh, hurt, mounts, mixed>> /\ OnlyDaemon

(* fuse_main returns to main and the process ends. *)
daemon_exit(d) ==
  /\ dst[d] = "leaving" /\ dst' = [dst EXCEPT ![d] = "none"]
  /\ UNCHANGED <<diskVars, mounts, mixed>> /\ OnlyDaemon

DaemonStep(d) == daemon_open(d) \/ daemon_mount(d) \/ daemon_fails(d) \/ daemon_exit(d)

(* A request of the kernel.  ZEROS only writes whole files: a write at an  *)
(* offset and a truncate read the file, change it and write it again.      *)
OldLen(f) == Cardinality(disk.ext[f])

zf_write(d, f, off, size) ==
  zeros_write_file(d, f, IF OldLen(f) > off + size THEN OldLen(f) ELSE off + size)

zf_truncate(d, f, size) == zeros_write_file(d, f, size)

zf_unlink(d, f) == zeros_rm(d, f)

Request(d) ==
  \E f \in Files :
    \/ \E off, size \in 0 .. MaxLen : off + size \in 1 .. MaxLen /\ zf_write(d, f, off, size)
    \/ \E size \in 0 .. MaxLen : zf_truncate(d, f, size)
    \/ zf_unlink(d, f)

-----------------------------------------------------------------------------
(* Commands.  With FUSE the shell works on the host's files: a relative    *)
(* path goes to the mount its directory is in, a path under /disk to the   *)
(* mount on top.                                                           *)

Mut_AtPrompt ==
  spc \in {"destroy", "prompt"} /\ UNCHANGED <<toolVars, ipc, disk_arg, botched, fuse_pid>>

AtPrompt == spc = "prompt" /\ UNCHANGED <<toolVars, ipc, disk_arg, botched, fuse_pid>>

Reached == (IF mounts = <<>> THEN {} ELSE {mounts[1]}) \cup ({cwd} \ {0})

cmd_fuse ==
  /\ AtPrompt /\ vfs = "host" /\ \E d \in Reached : Request(d)
  /\ UNCHANGED <<spc, vfs, fuse_mnt, cwd, dst, mounts, mixed>>

cmd_zeros ==
  /\ AtPrompt /\ vfs = "zeros"
  /\ \E f \in Files : \/ zeros_rm(SHELL, f)
                       \/ \E n \in 0 .. MaxLen : zeros_write_file(SHELL, f, n)
  /\ UNCHANGED <<spc, vfs, fuse_mnt, cwd, dst, mounts, mixed>>

builtin_cd ==
  /\ AtPrompt /\ vfs = "host" /\ cwd' \in {0} \cup {mounts[i] : i \in {1} \cap DOMAIN mounts}
  /\ UNCHANGED <<diskVars, spc, vfs, fuse_mnt, dst, mounts, mixed>>

(* run_external: the shell waits for the tool. *)
run_external ==
  /\ ShellAt("prompt", "external")
  /\ \/ \E t \in {"update", "upgrade"} :
          \/ tool_start(t) /\ mixed' = (mixed \/ opened # {})
          \/ tool_refuses(t) /\ UNCHANGED mixed
     \/ zeros_shell_update /\ UNCHANGED mixed
  /\ UNCHANGED <<ipc, disk_arg, vfs, fuse_mnt, fuse_pid, cwd, dst, mounts, botched>>

external_done ==
  /\ ShellAt("external", "prompt") /\ status # -1
  /\ Idle("none", -1)
  /\ UNCHANGED <<diskVars, bin, ipc, disk_arg, vfs, fuse_mnt, fuse_pid, cwd, dst, mounts, mixed, botched>>

-----------------------------------------------------------------------------
Mut_sh_leave ==
  /\ spc = "prompt" /\ spc' \in {"exit", "shutdown"} /\ vfs' = "none"
  /\ UNCHANGED <<diskVars, fuse_mnt, fuse_pid, cwd, dst, mounts, mixed>> /\ Rest

(* builtin_exit, the end of the input, and builtin_shutdown: vfs_destroy,  *)
(* fuse_umount, and then the process or the machine ends.                  *)
sh_leave ==
  /\ spc = "prompt" /\ spc' \in {"exit", "shutdown"} /\ vfs' = "none"
  /\ IF vfs = "zeros" THEN zeros_mount_close(SHELL) ELSE UNCHANGED diskVars
  /\ UNCHANGED <<fuse_mnt, fuse_pid, cwd, dst, mounts, mixed>> /\ Rest

(* fusermount -u: refused while the shell's directory is in the mount.     *)
(* The daemon that is unmounted serves nothing more, and ends later.       *)
fusermount ==
  /\ spc \in {"exit", "shutdown"} /\ fuse_mnt /\ fuse_mnt' = FALSE
  /\ IF mounts # <<>> /\ cwd # mounts[1]
     THEN /\ dst' = [dst EXCEPT ![mounts[1]] = "leaving"]
          /\ mounts' = Tail(mounts) /\ Drop(mounts[1])
     ELSE UNCHANGED <<dst, mounts, opened, ram>>
  /\ UNCHANGED <<disk, fresh, hurt, spc, vfs, fuse_pid, cwd, mixed>> /\ Rest

(* The child is waited for, which takes until it has become a daemon. *)
sh_exit ==
  /\ ShellAt("exit", "none") /\ ~fuse_mnt
  /\ fuse_pid # 0 => ~Young(fuse_pid)
  /\ fuse_pid' = 0 /\ cwd' = 0
  /\ UNCHANGED <<diskVars, vfs, fuse_mnt, dst, mounts, mixed>> /\ Rest

PowerOff ==
  /\ ipc' = "off" /\ disk_arg' = FALSE /\ spc' = "none" /\ vfs' = "none"
  /\ fuse_mnt' = FALSE /\ fuse_pid' = 0 /\ cwd' = 0
  /\ dst' = [d \in Daemons |-> "none"] /\ mounts' = <<>>
  /\ Idle("none", -1) /\ bin' = "good"
  /\ opened' = {} /\ ram' = [h \in Handles |-> {}]
  /\ disk' = media /\ hurt' = hurt \cup CutFormat \cup Unsynced /\ botched' = FALSE
  /\ UNCHANGED <<fresh, mixed>>

(* reboot(RB_POWER_OFF) does not write the cache back. *)
sh_shutdown ==
  /\ spc = "shutdown" /\ ~fuse_mnt /\ (fuse_pid # 0 => ~Young(fuse_pid))
  /\ PowerOff

(* Power is lost between two calls. *)
power_loss == ipc # "off" /\ PowerOff

ShellEnds == fusermount \/ sh_exit \/ sh_shutdown

Tools == ToolStep /\ UNCHANGED sessionVars

Step ==
  \/ boot \/ decline \/ accept \/ InitStep
  \/ ShellStarts \/ \E d \in Daemons : DaemonStep(d)
  \/ cmd_fuse \/ cmd_zeros \/ builtin_cd \/ run_external \/ external_done \/ sh_leave
  \/ ShellEnds \/ Tools \/ power_loss

Next ==
  \/ Step /\ Cache
  \/ writeback

(* Every process gets on with what it is doing.  Nothing obliges the user  *)
(* to answer, to type a command or to switch the machine on.               *)
Spec ==
  /\ Init /\ [][Next]_vars
  /\ WF_vars(InitStep /\ Cache) /\ WF_vars(ShellStarts /\ Cache) /\ WF_vars(ShellEnds /\ Cache)
  /\ WF_vars(external_done /\ Cache) /\ WF_vars(Tools /\ Cache)
  /\ \A d \in Daemons : WF_vars(DaemonStep(d) /\ Cache)
-----------------------------------------------------------------------------
(* Two handles are open while a session starts, and both will write back   *)
(* their bitmaps.  Unless a tool ran under an open handle, a daemon came   *)
(* up after the shell had given it up, or one survived the shell that had  *)
(* started it (mixed), no handle is ever behind the disk.                  *)
OneWriter == ~mixed /\ hurt = {} => \A h \in opened : ~Stale(h)

(* While a process has the disk mounted no file shows the contents of      *)
(* another and no block in use is marked free, after any number of         *)
(* sessions.  A handle that is behind the disk is no exception: the        *)
(* overlap of the shell, its daemon and the next session does no damage.   *)
(* The exceptions are two writers the code lets in (mixed), a formatting   *)
(* and a write that end half way, and power that goes, by shutdown or by   *)
(* accident, before the cache has been written back.                       *)
DiskSound ==
  opened # {} /\ ~mixed /\ hurt \subseteq {"stale"} =>
    \A f \in {Dirs} \cup Files : Intact(f)

(* shutdown loses nothing a shell without FUSE has written, although it    *)
(* does not sync: its handle is the only one and vfs_destroy closes it.    *)
(* With FUSE it may lose something: fuse_umount waits for a process that   *)
(* has ended already, and the daemon may still have the device open.       *)
ShutdownKeeps ==
  [][sh_shutdown /\ fuse_pid = 0 /\ ~mixed /\ (\A d \in Daemons : dst[d] # "leaving")
       => disk' = disk]_vars

(* zeros_format did not get as far as the superblock. *)
FormatStopped == botched /\ ~disk.magic

(* Whatever ends the shell, init brings it back to a prompt (init.c:8 "si  *)
(* zeros termina por cualquier razón, init la reinicia"), unless the disk  *)
(* it is given has no superblock because formatting it failed, or a failed *)
(* zeros_shell_update has left no shell to start.                          *)
ShellComesBack ==
  ipc = "wait" ~> \/ spc \in {"prompt", "external"}
                  \/ FormatStopped
                  \/ bin = "broken"
                  \/ ipc \in {"off", "ask"}
=============================================================================
