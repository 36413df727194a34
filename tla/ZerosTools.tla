----------------------------- MODULE ZerosTools -----------------------------
(***************************************************************************)
(* The programs that copy a list of files to the disk through a handle of  *)
(* their own: zeros_populate (files of the initramfs), zeros_update (the   *)
(* MANIFEST, downloaded with curl) and zeros_upgrade (the BUILD, compiled  *)
(* with tcc), and zeros_shell_update, which replaces /bin/zeros.           *)
(*                                                                         *)
(* Entry i of the list is file i.  Where the contents come from is a       *)
(* choice: it may fail, and curl, tcc and the network are external.        *)
(***************************************************************************)
EXTENDS ZerosShared

VARIABLES
  tool,         \* the program that runs, "none" when none does
  line,         \* the entry it is at
  ok, fail,     \* entries it has counted as copied and as failed
  status,       \* its exit status, -1 while it runs
  bin           \* /bin/zeros in the initramfs: "good" or "broken"

toolVars == <<tool, line, ok, fail, status, bin>>

Copiers == {"populate", "update", "upgrade"}

ToolInit ==
  /\ tool = "none" /\ line = 1 /\ ok = {} /\ fail = {} /\ status = -1
  /\ bin = "good"

(* The tool in front of the loop, when it has ended, or when there is none. *)
Idle(t, st) ==
  /\ tool' = t /\ line' = 1 /\ ok' = {} /\ fail' = {} /\ status' = st

(* main up to the loop *)
tool_start(t) ==
  /\ tool = "none"
  /\ Idle(t, -1)
  /\ zeros_mount_open(TOOL)
  /\ UNCHANGED bin

(* No ZEROS disk, no MANIFEST, no BUILD: nothing is touched. *)
tool_refuses(t) ==
  /\ tool = "none"
  /\ Idle(t, 1)
  /\ UNCHANGED <<diskVars, bin>>

Running == tool \in Copiers /\ status = -1 /\ TOOL \in opened

(* zeros_upgrade splits each line with strtok, which forgets where the     *)
(* strtok over the lines was: strtok(NULL, "\n") then answers NULL.        *)
Following(t, i) == IF t = "upgrade" THEN NFiles + 1 ELSE i + 1

Count(won, lost) ==
  /\ ok' = ok \cup won /\ fail' = fail \cup lost
  /\ line' = Following(tool, line)
  /\ UNCHANGED <<tool, status, bin>>

(* read_linux_file, wget or compile_entry fails, or leaves an empty file.  *)
no_source ==
  /\ Running /\ line <= NFiles
  /\ Count({}, {line})
  /\ UNCHANGED diskVars

(* zeros_touch and zeros_write_file of copy_to_vfs and host_to_vfs. *)
copied(n) ==
  /\ Running /\ line <= NFiles
  /\ write_ok(TOOL, line, n)
  /\ Count({line}, {})

not_copied(n) ==
  /\ Running /\ line <= NFiles
  /\ write_short(TOOL, line, n)
  /\ Count({}, {line})

Mut_tool_exit ==
  /\ Running /\ line > NFiles
  /\ status' = IF ok = {} THEN 1 ELSE 0
  /\ zeros_mount_close(TOOL)
  /\ UNCHANGED <<tool, line, ok, fail, bin>>

tool_exit ==
  /\ Running /\ line > NFiles
  /\ status' = IF fail = {} THEN 0 ELSE 1
  /\ zeros_mount_close(TOOL)
  /\ UNCHANGED <<tool, line, ok, fail, bin>>

(* zeros_shell_update removes /bin/zeros before it writes the new one and  *)
(* does not look at how much was written.                                  *)
zeros_shell_update ==
  /\ tool = "none"
  /\ \/ Idle("shell_update", 1) /\ bin' \in {bin, "broken"}
     \/ Idle("shell_update", 0) /\ bin' \in {"good", "broken"}
  /\ UNCHANGED diskVars

ToolStep ==
  \/ no_source \/ tool_exit
  \/ \E n \in 1 .. MaxLen : copied(n) \/ not_copied(n)

-----------------------------------------------------------------------------
(* An exit status 0 of zeros_populate and of zeros_update is the truth:    *)
(* when it is reported every file of the list is on the disk with the      *)
(* contents this run gave it, also when writes of other entries of the     *)
(* same run moved blocks around.                                           *)
ToolHonest ==
  tool \in {"populate", "update"} /\ status = 0 /\ hurt = {} =>
    \A f \in Files : f \in fresh /\ Intact(f)

(* zeros_upgrade.c:4 and 7: "Cada línea define un binario", "Para cada     *)
(* entrada": when it ends every entry of BUILD has been compiled or        *)
(* reported as an error.                                                   *)
EveryEntryBuilt ==
  tool = "upgrade" /\ status = 0 => ok \cup fail = Files
=============================================================================
