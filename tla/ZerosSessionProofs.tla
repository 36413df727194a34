------------------------- MODULE ZerosSessionProofs -------------------------
(***************************************************************************)
(* What the session runs check on a disk of three blocks, for a disk of    *)
(* any size, any number of files and of daemons: one process at a time     *)
(* writes, the disk stays sound, a tool that reports success did copy      *)
(* every file, and a shutdown without FUSE loses nothing from the cache.   *)
(***************************************************************************)
EXTENDS ZerosSession, ZerosLemmas

AllFiles == {Dirs} \cup Files

(* alloc_block called n times on S: the n lowest of its blocks. *)
LowestSets(n, S) ==
  {T \in SUBSET S : Cardinality(T) = n /\ \A x \in T, y \in S \ T : x < y}

(* The blocks of the disk are finitely many. *)
LEMMA BlkFinite == \A S \in SUBSET Blk : IsFiniteSet(S) /\ Cardinality(S) \in Nat
<1>1. NBlocks \in Nat /\ 0 \in Int /\ NBlocks - 1 \in Int BY SharedAssumption
<1>2. IsFiniteSet(Blk) BY <1>1, FS_Interval, Zenon DEF Blk
<1>. QED BY <1>2, FS_Subset, FS_CardinalityType

(* There are n of them as long as S has n. *)
LEMMA LowestExists ==
  ASSUME NEW S \in SUBSET Blk, NEW n \in Nat, Cardinality(S) >= n
  PROVE  Lowest(n, S) \in LowestSets(n, S)
<1>. DEFINE G == {k \in Nat : k <= Cardinality(S) => LowestSets(k, S) # {}}
<1>0. S \subseteq Nat /\ Cardinality(S) \in Nat BY BlkFinite, SharedAssumption DEF Blk
<1>1. 0 \in G
  <2>1. {} \in LowestSets(0, S) BY FS_EmptySet DEF LowestSets
  <2>. QED BY <2>1
<1>2. ASSUME NEW k \in Nat, k \in G PROVE k + 1 \in G
  <2>1. SUFFICES ASSUME k + 1 <= Cardinality(S) PROVE LowestSets(k + 1, S) # {}
    OBVIOUS
  <2>2. PICK T \in LowestSets(k, S) : TRUE BY <1>0, <1>2, <2>1
  <2>3. /\ T \in SUBSET S /\ Cardinality(T) = k /\ \A x \in T, y \in S \ T : x < y
        /\ IsFiniteSet(T)
    BY <2>2, BlkFinite DEF LowestSets
  <2>4. S \ T # {}
    <3>1. S # T BY <1>0, <2>1, <2>3
    <3>. QED BY <2>3, <3>1
  <2>5. PICK z \in S \ T : \A y \in S \ T : z <= y BY <1>0, <2>4, NatHasLeast
  <2>6. Cardinality(T \cup {z}) = k + 1 BY <2>3, <2>5, FS_AddElement
  <2>7. \A x \in T \cup {z}, y \in S \ (T \cup {z}) : x < y
    BY <1>0, <2>3, <2>5
  <2>8. T \cup {z} \in LowestSets(k + 1, S) BY <2>3, <2>5, <2>6, <2>7 DEF LowestSets
  <2>. QED BY <2>8
<1>3. Nat \subseteq G
  <2>. HIDE DEF G
  <2>. QED BY <1>1, <1>2, NatSetInduction
<1>4. LowestSets(n, S) # {} BY <1>0, <1>3
<1>5. PICK T : T \in LowestSets(n, S) BY <1>4
<1>. QED BY <1>5, Zenon DEF Lowest, LowestSets

-----------------------------------------------------------------------------
(* What a call of a handle does to the disk. *)

DiskType ==
  /\ disk \in [magic : BOOLEAN, bm : SUBSET Blk, ext : [AllFiles -> SUBSET Blk],
               data : [Blk -> {Junk} \cup AllFiles]]
  /\ opened \subseteq Handles /\ ram \in [Handles -> SUBSET Blk]
  /\ fresh \subseteq Files /\ hurt \subseteq Hurts

AllIntact == \A f \in AllFiles : Intact(f)

(* A call of h that may write: what it leaves alone, and that it writes    *)
(* back exactly the bitmap it then holds.                                  *)
Worked(h) ==
  /\ DiskType' /\ opened' = opened /\ disk'.magic = disk.magic /\ hurt \subseteq hurt'
  /\ \A g \in Handles \ {h} : ram'[g] = ram[g]
  /\ hurt' = {} => ram'[h] = disk'.bm
  /\ hurt' = {} /\ AllIntact => AllIntact'

(* The blocks a write takes are not those of the other files: with a       *)
(* bitmap that is not stale every file stays what it was.                  *)
LEMMA WriteOk ==
  ASSUME DiskType, NEW h \in Handles, NEW f \in Files, NEW n \in Nat, write_ok(h, f, n)
  PROVE  Worked(h)
<1>. DEFINE K == Kept(h, f)
            new == Lowest(n, Blk \ K)
<1>0. /\ disk.bm \subseteq Blk /\ disk.ext \in [AllFiles -> SUBSET Blk]
      /\ disk.data \in [Blk -> {Junk} \cup AllFiles] /\ ram[h] \subseteq Blk
      /\ f \in AllFiles /\ disk.magic \in BOOLEAN
  BY DEF DiskType, AllFiles
<1>1. K \subseteq Blk /\ K = ram[h] \ disk.ext[f] BY <1>0 DEF Kept
<1>2. new \subseteq Blk \ K
  <2>1. Cardinality(Blk \ K) >= n BY DEF write_ok, Fits
  <2>2. Blk \ K \in SUBSET Blk OBVIOUS
  <2>. HIDE DEF K
  <2>3. new \in LowestSets(n, Blk \ K) BY <2>1, <2>2, LowestExists
  <2>. QED BY <2>3 DEF LowestSets
<1>3. /\ ram' = [ram EXCEPT ![h] = K \cup new]
      /\ disk' = [disk EXCEPT !.bm = K \cup new, !.ext[f] = new,
                              !.data = [b \in Blk |-> IF b \in new THEN f ELSE @[b]]]
      /\ hurt' = hurt \cup Risk(h) /\ opened' = opened
      /\ fresh' \in {fresh \cup {f}, fresh \ {f}}
  BY DEF write_ok
<1>. HIDE DEF K, new
<1>4. /\ disk'.bm = K \cup new /\ disk'.ext = [disk.ext EXCEPT ![f] = new]
      /\ disk'.data = [b \in Blk |-> IF b \in new THEN f ELSE disk.data[b]]
      /\ disk'.magic = disk.magic
  BY <1>3 DEF DiskType
<1>5. DiskType'
  <2>1. disk' \in [magic : BOOLEAN, bm : SUBSET Blk, ext : [AllFiles -> SUBSET Blk],
                   data : [Blk -> {Junk} \cup AllFiles]]
    BY <1>0, <1>1, <1>2, <1>3 DEF DiskType
  <2>2. hurt' \subseteq Hurts BY <1>3 DEF DiskType, Risk, Hurts
  <2>. QED BY <1>0, <1>1, <1>2, <1>3, <2>1, <2>2 DEF DiskType
<1>6. ASSUME hurt' = {}, AllIntact PROVE AllIntact'
  <2>1. ram[h] = disk.bm BY <1>3, <1>6 DEF Risk, Stale
  <2>2. ASSUME NEW g \in AllFiles PROVE Intact(g)'
    <3>1. CASE g = f BY <1>0, <1>2, <1>4, <3>1 DEF Intact
    <3>2. CASE g # f
      <4>1. Intact(g) /\ Intact(f) BY <1>0, <1>6 DEF AllIntact
      <4>2. \A b \in disk.ext[g] : b \in K BY <1>1, <2>1, <3>2, <4>1 DEF Intact
      <4>3. disk'.ext[g] = disk.ext[g] BY <1>0, <1>4, <3>2
      <4>. QED BY <1>0, <1>2, <1>4, <4>1, <4>2, <4>3 DEF Intact
    <3>. QED BY <3>1, <3>2
  <2>. QED BY <2>2 DEF AllIntact
<1>. QED
  <2>1. ram \in [Handles -> SUBSET Blk] BY DEF DiskType
  <2>2. ram'[h] = disk'.bm /\ \A g \in Handles \ {h} : ram'[g] = ram[g]
    BY <1>3, <1>4, <2>1
  <2>3. hurt \subseteq hurt' BY <1>3
  <2>. QED BY <1>3, <1>4, <1>5, <1>6, <2>2, <2>3 DEF Worked

(* A write that ends short leaves a mark in hurt. *)
LEMMA WriteShort ==
  ASSUME DiskType, NEW h \in Handles, NEW f \in Files, NEW n, write_short(h, f, n)
  PROVE  Worked(h)
<1>1. /\ ram' = [ram EXCEPT ![h] = Blk] /\ opened' = opened /\ fresh' = fresh \ {f}
      /\ disk' = [disk EXCEPT !.data =
                    [b \in Blk |-> IF b \in Kept(h, f) THEN @[b] ELSE Junk]]
      /\ hurt' = hurt \cup {"short"} \cup Risk(h)
  BY DEF write_short
<1>2. DiskType'
  <2>1. disk' \in [magic : BOOLEAN, bm : SUBSET Blk, ext : [AllFiles -> SUBSET Blk],
                   data : [Blk -> {Junk} \cup AllFiles]]
    BY <1>1 DEF DiskType
  <2>2. hurt' \subseteq Hurts BY <1>1 DEF DiskType, Risk, Hurts
  <2>. QED BY <1>1, <2>1, <2>2 DEF DiskType
<1>3. disk'.magic = disk.magic /\ \A g \in Handles \ {h} : ram'[g] = ram[g]
  BY <1>1 DEF DiskType
<1>4. "short" \in hurt' /\ hurt \subseteq hurt' BY <1>1
<1>. QED BY <1>1, <1>2, <1>3, <1>4 DEF Worked

(* zeros_rm *)
LEMMA RmWorked ==
  ASSUME DiskType, NEW h \in Handles, NEW f \in Files, zeros_rm(h, f)
  PROVE  Worked(h)
<1>. DEFINE K == Kept(h, f)
<1>0. /\ disk.bm \subseteq Blk /\ disk.ext \in [AllFiles -> SUBSET Blk]
      /\ ram[h] \subseteq Blk /\ f \in AllFiles
      /\ ram \in [Handles -> SUBSET Blk]
  BY DEF DiskType, AllFiles
<1>1. K \subseteq Blk /\ K = ram[h] \ disk.ext[f] BY <1>0 DEF Kept
<1>2. /\ ram' = [ram EXCEPT ![h] = K] /\ opened' = opened /\ fresh' = fresh \ {f}
      /\ disk' = [disk EXCEPT !.bm = K, !.ext[f] = {}]
      /\ hurt' = hurt \cup Risk(h)
  BY DEF zeros_rm
<1>. HIDE DEF K
<1>3. /\ disk'.bm = K /\ disk'.ext = [disk.ext EXCEPT ![f] = {}]
      /\ disk'.data = disk.data /\ disk'.magic = disk.magic
  BY <1>2 DEF DiskType
<1>4. DiskType'
  <2>1. disk' \in [magic : BOOLEAN, bm : SUBSET Blk, ext : [AllFiles -> SUBSET Blk],
                   data : [Blk -> {Junk} \cup AllFiles]]
    BY <1>0, <1>1, <1>2 DEF DiskType
  <2>2. hurt' \subseteq Hurts BY <1>2 DEF DiskType, Risk, Hurts
  <2>. QED BY <1>0, <1>1, <1>2, <2>1, <2>2 DEF DiskType
<1>5. ASSUME hurt' = {}, AllIntact PROVE AllIntact'
  <2>1. ram[h] = disk.bm BY <1>2, <1>5 DEF Risk, Stale
  <2>2. ASSUME NEW g \in AllFiles PROVE Intact(g)'
    <3>1. CASE g = f BY <1>0, <1>3, <3>1 DEF Intact
    <3>2. CASE g # f
      <4>1. Intact(g) /\ Intact(f) BY <1>0, <1>5 DEF AllIntact
      <4>. QED BY <1>0, <1>1, <1>3, <2>1, <3>2, <4>1 DEF Intact
    <3>. QED BY <3>1, <3>2
  <2>. QED BY <2>2 DEF AllIntact
<1>. QED
  <2>1. ram'[h] = disk'.bm /\ \A g \in Handles \ {h} : ram'[g] = ram[g]
    BY <1>0, <1>2, <1>3
  <2>2. hurt \subseteq hurt' BY <1>2
  <2>. QED BY <1>2, <1>3, <1>4, <1>5, <2>1, <2>2 DEF Worked

(* The calls the shell makes on its own handle and the kernel on a daemon's. *)
Calls(h) == \E f \in Files : zeros_rm(h, f) \/ \E n \in Nat : zeros_write_file(h, f, n)

(* Each of these calls works through the bitmap of h and writes it back. *)
LEMMA CallWorked ==
  ASSUME DiskType, NEW h \in Handles, Calls(h)
  PROVE  Worked(h)
BY WriteOk, WriteShort, RmWorked DEF Calls, zeros_write_file

(* What the kernel asks of a daemon comes down to such calls. *)
LEMMA RequestCalls ==
  ASSUME DiskType, NEW d \in Handles, Request(d)
  PROVE  Calls(d)
<1>1. \A f \in Files : OldLen(f) \in Nat
  BY BlkFinite DEF DiskType, OldLen, AllFiles
<1>2. \A i, j \in 0 .. MaxLen : i \in Nat /\ i + j \in Nat BY SharedAssumption
<1>. QED BY <1>1, <1>2 DEF Request, zf_write, zf_truncate, zf_unlink, Calls

-----------------------------------------------------------------------------
(* The inductive invariant. *)

ProcType ==
  /\ tool \in {"none", "shell_update"} \cup Copiers
  /\ line \in 1 .. NFiles + 1 /\ ok \subseteq Files /\ fail \subseteq Files
  /\ status \in {-1, 0, 1}
  /\ ipc \in {"off", "find", "check", "ask", "populate", "populating", "launch", "wait"}
             \cup Formatting
  /\ spc \in {"none", "start", "fork", "poll", "kill", "chdir", "destroy", "prompt",
              "external", "exit", "shutdown"}
  /\ vfs \in {"none", "host", "zeros"}
  /\ fuse_pid \in 0 .. MaxDaemons /\ cwd \in 0 .. MaxDaemons
  /\ dst \in [Daemons -> {"none", "starting", "opened", "serving", "leaving"}]
  /\ mounts \in Seq(Daemons)
  /\ mixed \in BOOLEAN

(* Until init launches a shell nothing but the tool that fills a new disk  *)
(* has it open, and what zeros_format has written so far is in place.      *)
Booting ==
  /\ ipc # "wait" => spc = "none"
  /\ ipc \notin {"launch", "wait"} =>
       mounts = <<>> /\ opened \subseteq {TOOL} /\ \A d \in Daemons : dst[d] = "none"
  /\ tool # "none" => ipc = "populating" \/ (ipc = "wait" /\ spc = "external")
  /\ ipc \in {"ask"} \cup Formatting => opened = {}
  /\ ipc \in {"ask", "format", "format_sb"} => ~disk.magic
  /\ ipc \in {"format_sb", "format_bm"} =>
       /\ disk.data[0] = Dirs
       /\ disk.ext = [f \in AllFiles |-> IF f = Dirs THEN {0} ELSE {}]

ShellHolds ==
  \/ spc \in {"fork", "poll", "kill", "chdir", "destroy"}
  \/ spc \in {"prompt", "external"} /\ vfs = "zeros"

(* Who has the disk open. *)
Holders ==
  /\ opened # {} => disk.magic
  /\ SHELL \in opened <=> ShellHolds
  /\ spc \in {"fork", "poll", "kill", "chdir", "destroy"} => vfs = "zeros"
  /\ TOOL \in opened <=> (tool \in Copiers /\ status = -1)
  /\ \A d \in Daemons : d \in opened <=> dst[d] \in {"opened", "serving"}

OnMounts(d) == \E i \in DOMAIN mounts : mounts[i] = d

(* The daemons mounted are the ones that serve; a young one is the child   *)
(* of the shell that runs, and if that shell is at its prompt it got there *)
(* through a mount.                                                        *)
Mounting ==
  /\ \A i, j \in DOMAIN mounts : mounts[i] = mounts[j] => i = j
  /\ \A d \in Daemons : dst[d] = "serving" <=> OnMounts(d)
  /\ cwd # 0 => OnMounts(cwd)
  /\ \A d \in Daemons : Young(d) => fuse_pid = d
  /\ spc \in {"none", "start", "fork"} => fuse_pid = 0
  /\ spc \in {"poll", "kill"} => fuse_pid # 0
  /\ spc \in {"chdir", "destroy"} => mounts # <<>>
  /\ spc \in {"prompt", "external"} => mounts # <<>> \/ \A d \in Daemons : ~Young(d)
  /\ spc = "kill" => \A i \in DOMAIN mounts : mounts[i] = fuse_pid

(* Unless mixed says otherwise, whoever writes is alone. *)
Alone ==
  ~mixed =>
    /\ \A d, e \in Daemons \cap opened : d = e
    /\ spc \in {"prompt", "external"} /\ vfs = "zeros" => opened = {SHELL}
    /\ TOOL \in opened => opened = {TOOL}

DiskOK == hurt = {} /\ disk.magic /\ ipc # "format_bm" => AllIntact

(* What zeros_populate and zeros_update have counted. *)
Counting ==
  tool \in {"populate", "update"} =>
    /\ status = -1 => ok \cup fail = {f \in Files : f < line} /\ ok \subseteq fresh
    /\ status = 0 => fresh = Files /\ disk.magic

MediaType ==
  media \in [magic : BOOLEAN, bm : SUBSET Blk, ext : [AllFiles -> SUBSET Blk],
             data : [Blk -> {Junk} \cup AllFiles]]

SessionInv ==
  /\ DiskType /\ ProcType /\ Booting /\ Holders /\ Mounting
  /\ Alone /\ DiskOK /\ Counting /\ OneWriter

(* A new disk in a machine that is off satisfies the invariant. *)
LEMMA SessionInit == Init => SessionInv
<1>. SUFFICES ASSUME Init PROVE SessionInv OBVIOUS
<1>1. DiskType /\ opened = {} /\ ~disk.magic
  <2>1. disk = [magic |-> FALSE, bm |-> {}, ext |-> [f \in AllFiles |-> {}],
                data |-> [b \in Blk |-> Junk]]
    BY DEF Init, DiskInit, AllFiles
  <2>. QED BY <2>1 DEF Init, DiskInit, DiskType
<1>2. ProcType
  <2>1. 1 \in 1 .. NFiles + 1 /\ 0 \in 0 .. MaxDaemons BY SharedAssumption
  <2>2. mixed \in BOOLEAN BY Zenon DEF Init
  <2>. QED BY <2>1, <2>2 DEF Init, ToolInit, ProcType
<1>3. Booting /\ Holders /\ Mounting
  BY <1>1 DEF Init, ToolInit, Booting, Holders, ShellHolds, Mounting, OnMounts, Young,
              Copiers, Formatting, SHELL, TOOL
<1>4. Alone /\ DiskOK /\ Counting /\ OneWriter
  BY <1>1 DEF Init, ToolInit, Alone, DiskOK, Counting, OneWriter
<1>. QED BY <1>1, <1>2, <1>3, <1>4 DEF SessionInv

-----------------------------------------------------------------------------
(* init, up to the first shell. *)

(* Nothing of init's own before the format touches the disk. *)
LEMMA BootStep ==
  ASSUME SessionInv, boot \/ find_disk \/ check_magic \/ accept \/ decline \/ reaped
  PROVE  SessionInv'
<1>. USE DEF boot, find_disk, check_magic, accept, decline, reaped, InitAt, OnlyInit, Others,
             toolVars, diskVars, SessionInv
<1>1. DiskType' BY DEF DiskType
<1>2. ProcType' BY DEF ProcType, Formatting
<1>3. Booting' BY DEF Booting, Formatting, Holders
<1>4. Holders' BY DEF Holders, ShellHolds
<1>5. Mounting' BY DEF Mounting, OnMounts, Young
<1>6. Alone' BY DEF Alone
<1>7. DiskOK' BY DEF DiskOK, AllIntact, Intact
<1>8. Counting' BY DEF Counting
<1>9. OneWriter' BY DEF OneWriter, Stale
<1>. QED BY <1>1, <1>2, <1>3, <1>4, <1>5, <1>6, <1>7, <1>8, <1>9 DEF SessionInv

(* zeros_format writes the directories, the superblock and the bitmaps, in *)
(* this order; nothing has the disk open.                                  *)
LEMMA FormatStep ==
  ASSUME SessionInv, format_dirs \/ format_superblock \/ format_bitmaps \/ format_fails
  PROVE  SessionInv'
<1>. USE DEF InitAt, OnlyInit, Others, toolVars, diskVars, SessionInv
<1>0. /\ opened = {} /\ tool = "none" /\ ipc \in Formatting
      /\ 0 \in Blk /\ Dirs \in AllFiles /\ Dirs = 0
  BY SharedAssumption DEF format_dirs, format_superblock, format_bitmaps, format_fails,
     Booting, Formatting, Blk, AllFiles, Dirs
<1>1. /\ disk \in [magic : BOOLEAN, bm : SUBSET Blk, ext : [AllFiles -> SUBSET Blk],
                   data : [Blk -> {Junk} \cup AllFiles]]
      /\ hurt \subseteq Hurts
  BY DEF DiskType
<1>2. CASE format_dirs
  <2>1. /\ disk' = [disk EXCEPT !.ext = [f \in AllFiles |-> IF f = Dirs THEN {0} ELSE {}],
                                !.data[0] = Dirs]
        /\ opened' = opened /\ hurt' = hurt
    BY <1>2 DEF format_dirs, AllFiles
  <2>2. /\ disk'.magic = disk.magic /\ disk'.data[0] = Dirs
        /\ disk'.ext = [f \in AllFiles |-> IF f = Dirs THEN {0} ELSE {}]
        /\ disk' \in [magic : BOOLEAN, bm : SUBSET Blk, ext : [AllFiles -> SUBSET Blk],
                      data : [Blk -> {Junk} \cup AllFiles]]
    BY <1>0, <1>1, <2>1
  <2>3. DiskType' BY <1>2, <2>2 DEF format_dirs, DiskType
  <2>4. ProcType' BY <1>2 DEF format_dirs, ProcType, Formatting
  <2>5. Booting' BY <1>0, <1>2, <2>2 DEF format_dirs, Booting, Formatting
  <2>6. Holders' BY <1>0, <1>2 DEF format_dirs, Holders, ShellHolds
  <2>7. Mounting' BY <1>2 DEF format_dirs, Mounting, OnMounts, Young
  <2>8. Alone' /\ OneWriter' BY <1>0, <1>2 DEF format_dirs, Alone, OneWriter
  <2>9. DiskOK' BY <1>2, <2>2 DEF format_dirs, DiskOK, Booting
  <2>10. Counting' BY <1>0, <1>2 DEF format_dirs, Counting
  <2>. QED BY <2>3, <2>4, <2>5, <2>6, <2>7, <2>8, <2>9, <2>10
<1>3. CASE format_superblock
  <2>1. /\ disk' = [disk EXCEPT !.magic = TRUE] /\ opened' = opened /\ hurt' = hurt
    BY <1>3 DEF format_superblock
  <2>2. /\ disk'.data = disk.data /\ disk'.ext = disk.ext
        /\ disk' \in [magic : BOOLEAN, bm : SUBSET Blk, ext : [AllFiles -> SUBSET Blk],
                      data : [Blk -> {Junk} \cup AllFiles]]
    BY <1>1, <2>1
  <2>3. DiskType' BY <1>3, <2>2 DEF format_superblock, DiskType
  <2>4. ProcType' BY <1>3 DEF format_superblock, ProcType, Formatting
  <2>5. Booting' BY <1>0, <1>3, <2>2 DEF format_superblock, Booting, Formatting
  <2>6. Holders' BY <1>0, <1>3 DEF format_superblock, Holders, ShellHolds
  <2>7. Mounting' BY <1>3 DEF format_superblock, Mounting, OnMounts, Young
  <2>8. Alone' /\ OneWriter' BY <1>0, <1>3 DEF format_superblock, Alone, OneWriter
  <2>9. DiskOK' BY <1>3 DEF format_superblock, DiskOK
  <2>10. Counting' BY <1>0, <1>3 DEF format_superblock, Counting
  <2>. QED BY <2>3, <2>4, <2>5, <2>6, <2>7, <2>8, <2>9, <2>10
<1>4. CASE format_bitmaps
  <2>1. /\ disk' = [disk EXCEPT !.bm = {0}] /\ opened' = opened /\ hurt' = hurt
    BY <1>4 DEF format_bitmaps
  <2>2. /\ disk'.data = disk.data /\ disk'.ext = disk.ext /\ disk'.bm = {0}
        /\ disk'.magic = disk.magic
        /\ disk' \in [magic : BOOLEAN, bm : SUBSET Blk, ext : [AllFiles -> SUBSET Blk],
                      data : [Blk -> {Junk} \cup AllFiles]]
    BY <1>0, <1>1, <2>1
  <2>3. DiskType' BY <1>4, <2>2 DEF format_bitmaps, DiskType
  <2>4. ProcType' BY <1>4 DEF format_bitmaps, ProcType, Formatting
  <2>5. Booting' BY <1>0, <1>4, <2>2 DEF format_bitmaps, Booting, Formatting
  <2>6. Holders' BY <1>0, <1>4 DEF format_bitmaps, Holders, ShellHolds
  <2>7. Mounting' BY <1>4 DEF format_bitmaps, Mounting, OnMounts, Young
  <2>8. Alone' /\ OneWriter' BY <1>0, <1>4 DEF format_bitmaps, Alone, OneWriter
  <2>9. AllIntact'
    <3>1. /\ disk.data[0] = Dirs
          /\ disk.ext = [f \in AllFiles |-> IF f = Dirs THEN {0} ELSE {}]
      BY <1>4 DEF format_bitmaps, Booting
    <3>. QED BY <1>0, <2>2, <3>1 DEF AllIntact, Intact
  <2>10. DiskOK' /\ Counting' BY <1>0, <1>4, <2>9 DEF format_bitmaps, DiskOK, Counting
  <2>. QED BY <2>3, <2>4, <2>5, <2>6, <2>7, <2>8, <2>10
<1>5. CASE format_fails
  <2>1. /\ disk' = disk /\ opened' = opened /\ hurt' = hurt \cup CutFormat /\ ipc' = "launch"
        /\ CutFormat \subseteq Hurts
    BY <1>5 DEF format_fails, CutFormat, Hurts
  <2>2. DiskType' /\ ProcType' BY <1>1, <1>5, <2>1 DEF format_fails, DiskType, ProcType
  <2>3. Booting' /\ Holders'
    BY <1>0, <1>5 DEF format_fails, Booting, Holders, ShellHolds, Formatting
  <2>4. Mounting' BY <1>5 DEF format_fails, Mounting, OnMounts, Young
  <2>5. Alone' /\ OneWriter' BY <1>0, <1>5 DEF format_fails, Alone, OneWriter
  <2>6. DiskOK'
    BY <2>1 DEF DiskOK, CutFormat, AllIntact, Intact
  <2>7. Counting' BY <1>0, <1>5 DEF format_fails, Counting
  <2>. QED BY <2>2, <2>3, <2>4, <2>5, <2>6, <2>7
<1>. QED BY <1>2, <1>3, <1>4, <1>5

(* zeros_populate has the new disk to itself; then the shell is started. *)
LEMMA PopulateStep ==
  ASSUME SessionInv, populate \/ populated \/ launch
  PROVE  SessionInv'
<1>. USE DEF InitAt, toolVars, diskVars, SessionInv
<1>0. 1 \in 1 .. NFiles + 1 /\ TOOL \in Handles /\ TOOL # SHELL /\ TOOL \notin Daemons
      /\ \A f \in Files : ~(f < 1)
  BY SharedAssumption DEF Handles, TOOL, SHELL, Daemons, Files
<1>1. CASE populate /\ tool_start("populate")
  <2>1. /\ ipc = "populate" /\ ipc' = "populating" /\ opened = {} /\ opened' = {TOOL} /\ disk.magic
        /\ tool' = "populate" /\ line' = 1 /\ ok' = {} /\ fail' = {} /\ status' = -1
        /\ disk' = disk /\ hurt' = hurt /\ fresh' = {} /\ ram' = [ram EXCEPT ![TOOL] = disk.bm]
        /\ spc' = spc /\ vfs' = vfs /\ fuse_pid' = fuse_pid /\ cwd' = cwd /\ dst' = dst
        /\ mounts' = mounts /\ mixed' = mixed /\ spc = "none"
    BY <1>0, <1>1 DEF populate, tool_start, Idle, zeros_mount_open, Booting, Holders, Copiers
  <2>2. DiskType' BY <1>0, <2>1 DEF DiskType
  <2>3. ProcType' BY <1>0, <2>1 DEF ProcType, Copiers
  <2>4. Booting' BY <2>1 DEF Booting, Formatting
  <2>5. Holders' BY <1>0, <2>1 DEF Holders, ShellHolds, Copiers
  <2>6. Mounting' BY <2>1 DEF Mounting, OnMounts, Young
  <2>7. Alone' BY <1>0, <2>1 DEF Alone
  <2>8. OneWriter' BY <1>0, <2>1 DEF OneWriter, Stale, DiskType
  <2>9. DiskOK' BY <2>1 DEF DiskOK, AllIntact, Intact
  <2>10. Counting' BY <1>0, <2>1 DEF Counting
  <2>. QED BY <2>2, <2>3, <2>4, <2>5, <2>6, <2>7, <2>8, <2>9, <2>10
<1>2. CASE populate /\ tool_refuses("populate")
  <2>. USE DEF populate, tool_refuses, Idle
  <2>1. DiskType' /\ ProcType' BY <1>0, <1>2 DEF DiskType, ProcType, Copiers
  <2>2. Booting' BY <1>2 DEF Booting, Formatting
  <2>3. Holders' BY <1>0, <1>2 DEF Holders, ShellHolds, Copiers
  <2>4. Mounting' BY <1>2 DEF Mounting, OnMounts, Young
  <2>5. Alone' BY <1>2 DEF Alone
  <2>6. OneWriter' BY <1>2 DEF OneWriter, Stale
  <2>7. DiskOK' /\ Counting' BY <1>2 DEF DiskOK, AllIntact, Intact, Counting
  <2>. QED BY <2>1, <2>2, <2>3, <2>4, <2>5, <2>6, <2>7
<1>3. CASE populated
  <2>. USE DEF populated, Idle
  <2>1. DiskType' /\ ProcType' BY <1>0, <1>3 DEF DiskType, ProcType
  <2>2. Booting' BY <1>3 DEF Booting, Formatting
  <2>3. Holders' BY <1>0, <1>3 DEF Holders, ShellHolds, Copiers
  <2>4. Mounting' BY <1>3 DEF Mounting, OnMounts, Young
  <2>5. Alone' BY <1>3 DEF Alone
  <2>6. OneWriter' BY <1>3 DEF OneWriter, Stale
  <2>7. DiskOK' /\ Counting' BY <1>3 DEF DiskOK, AllIntact, Intact, Counting
  <2>. QED BY <2>1, <2>2, <2>3, <2>4, <2>5, <2>6, <2>7
<1>4. CASE launch
  <2>. USE DEF launch
  <2>1. DiskType' /\ ProcType' BY <1>0, <1>4 DEF DiskType, ProcType
  <2>2. Booting' BY <1>4 DEF Booting, Formatting
  <2>3. Holders' BY <1>0, <1>4 DEF Holders, ShellHolds
  <2>4. Mounting' BY <1>4 DEF Mounting, OnMounts, Young
  <2>5. Alone' BY <1>4 DEF Alone
  <2>6. OneWriter' BY <1>4 DEF OneWriter, Stale
  <2>7. DiskOK' /\ Counting' BY <1>4 DEF DiskOK, AllIntact, Intact, Counting
  <2>. QED BY <2>1, <2>2, <2>3, <2>4, <2>5, <2>6, <2>7
<1>. QED BY <1>1, <1>2, <1>3, <1>4 DEF populate

-----------------------------------------------------------------------------
(* The shell starts. *)

(* The steps of the start that leave the disk and the handles alone. *)
LEMMA StartStep ==
  ASSUME SessionInv,
         sh_host \/ sh_open_fails \/ fuse_fork_fails \/ poll_mounted \/ poll_timeout \/ sh_chdir
  PROVE  SessionInv'
<1>. USE DEF ShellAt, Rest, toolVars, diskVars, SessionInv, sh_host, sh_open_fails,
             fuse_fork_fails, poll_mounted, poll_timeout, sh_chdir
<1>0. TOOL # SHELL /\ TOOL \notin Daemons /\ SHELL \notin Daemons
  BY SharedAssumption DEF TOOL, SHELL, Daemons
<1>1. DiskType' BY DEF DiskType
<1>2. ProcType'
  <2>1. sh_chdir => mounts[1] \in Daemons
    BY ElementOfSeq DEF ProcType, Mounting
  <2>2. \A d \in Daemons : d \in 0 .. MaxDaemons BY DEF Daemons
  <2>. QED BY <2>1, <2>2 DEF ProcType
<1>3. Booting' BY DEF Booting, Formatting
<1>4. Holders' BY DEF Holders, ShellHolds, ProcType
<1>5. Mounting'
  <2>1. sh_chdir => cwd' = mounts[1] /\ 1 \in DOMAIN mounts
    BY DEF ProcType, Mounting
  <2>2. spc \in {"start", "fork"} => fuse_pid = 0 /\ \A d \in Daemons : ~Young(d)
    BY DEF Mounting, Daemons
  <2>. QED BY <2>1, <2>2 DEF Mounting, OnMounts, Young
<1>6. Alone'
  <2>1. fuse_fork_fails /\ ~mixed' => opened = {SHELL}
    <3>. SUFFICES ASSUME fuse_fork_fails, ~mixed' PROVE opened = {SHELL} OBVIOUS
    <3>1. mounts = <<>> /\ tool = "none" /\ spc = "fork" BY DEF Booting, ProcType
    <3>2. \A d \in Daemons : ~Young(d) /\ dst[d] # "serving"
      BY <3>1 DEF Mounting, OnMounts, Daemons
    <3>3. \A d \in Daemons : d \notin opened BY <3>2 DEF Holders, Young
    <3>4. TOOL \notin opened /\ SHELL \in opened
      BY <3>1 DEF Holders, ShellHolds, Copiers
    <3>. QED BY <3>3, <3>4 DEF DiskType, Handles
  <2>. QED BY <1>0, <2>1 DEF Alone, ProcType
<1>7. DiskOK' BY DEF DiskOK, AllIntact, Intact
<1>8. Counting' BY DEF Counting
<1>9. OneWriter' BY DEF OneWriter, Stale, ProcType
<1>. QED BY <1>1, <1>2, <1>3, <1>4, <1>5, <1>6, <1>7, <1>8, <1>9 DEF SessionInv

(* Opening copies the bitmap. *)
LEMMA OpenFacts ==
  ASSUME DiskType, NEW h \in Handles, zeros_mount_open(h)
  PROVE  /\ DiskType' /\ disk' = disk /\ hurt' = hurt /\ opened' = opened \cup {h}
         /\ ram'[h] = disk.bm /\ \A g \in Handles \ {h} : ram'[g] = ram[g]
         /\ h # TOOL => fresh' = fresh
BY DEF zeros_mount_open, DiskType

(* Closing writes back what was read, or leaves a mark. *)
LEMMA CloseFacts ==
  ASSUME DiskType, NEW h \in Handles, zeros_mount_close(h)
  PROVE  /\ DiskType' /\ disk'.magic = disk.magic /\ hurt \subseteq hurt' /\ fresh' = fresh
         /\ opened' = opened \ {h} /\ \A g \in Handles \ {h} : ram'[g] = ram[g]
         /\ hurt' = {} => disk' = disk
<1>0. /\ disk \in [magic : BOOLEAN, bm : SUBSET Blk, ext : [AllFiles -> SUBSET Blk],
                   data : [Blk -> {Junk} \cup AllFiles]]
      /\ ram[h] \subseteq Blk
  BY DEF DiskType
<1>1. /\ disk' = [disk EXCEPT !.bm = ram[h]] /\ hurt' = hurt \cup Risk(h) /\ fresh' = fresh
      /\ opened' = opened \ {h} /\ ram' = [ram EXCEPT ![h] = {}]
  BY DEF zeros_mount_close
<1>2. DiskType'
  <2>1. hurt' \subseteq Hurts BY <1>1 DEF DiskType, Risk, Hurts
  <2>2. disk' \in [magic : BOOLEAN, bm : SUBSET Blk, ext : [AllFiles -> SUBSET Blk],
                   data : [Blk -> {Junk} \cup AllFiles]]
    BY <1>0, <1>1
  <2>. QED BY <1>1, <2>1, <2>2 DEF DiskType
<1>3. hurt' = {} => disk' = disk
  <2>. SUFFICES ASSUME hurt' = {} PROVE disk' = disk OBVIOUS
  <2>1. ram[h] = disk.bm BY <1>1 DEF Risk, Stale
  <2>. QED BY <1>0, <1>1, <2>1
<1>4. disk'.magic = disk.magic BY <1>0, <1>1
<1>5. \A g \in Handles \ {h} : ram'[g] = ram[g] BY <1>1 DEF DiskType
<1>. QED BY <1>1, <1>2, <1>3, <1>4, <1>5

(* The shell opens the disk and forks zeros_fuse. *)
LEMMA ShellOpens ==
  ASSUME SessionInv, sh_open \/ fuse_fork
  PROVE  SessionInv'
<1>. USE DEF ShellAt, Rest, toolVars, diskVars, SessionInv
<1>0. /\ TOOL # SHELL /\ TOOL \notin Daemons /\ SHELL \notin Daemons /\ SHELL \in Handles
      /\ \A d \in Daemons : d \in Handles /\ d # SHELL
  BY SharedAssumption DEF TOOL, SHELL, Daemons, Handles
<1>1. tool = "none" /\ TOOL \notin opened /\ ipc = "wait"
  BY DEF sh_open, fuse_fork, Booting, ProcType, Holders, Copiers
<1>2. CASE sh_open
  <2>1. /\ DiskType' /\ disk' = disk /\ hurt' = hurt /\ opened' = opened \cup {SHELL}
        /\ ram'[SHELL] = disk.bm /\ \A g \in Handles \ {SHELL} : ram'[g] = ram[g]
        /\ disk.magic
    BY <1>0, <1>2, OpenFacts DEF sh_open, zeros_mount_open
  <2>2. ProcType' BY <1>2 DEF sh_open, ProcType
  <2>3. Booting' BY <1>1, <1>2 DEF sh_open, Booting, Formatting
  <2>4. Holders' BY <1>0, <1>1, <1>2, <2>1 DEF sh_open, Holders, ShellHolds
  <2>5. Mounting' BY <1>2 DEF sh_open, Mounting, OnMounts, Young
  <2>6. Alone' BY <1>0, <1>1, <1>2, <2>1 DEF sh_open, Alone
  <2>7. OneWriter' BY <1>0, <1>2, <2>1 DEF sh_open, OneWriter, Stale, DiskType
  <2>8. DiskOK' BY <1>2, <2>1 DEF sh_open, DiskOK, AllIntact, Intact
  <2>9. Counting' BY <1>1, <1>2 DEF sh_open, Counting
  <2>. QED BY <2>1, <2>2, <2>3, <2>4, <2>5, <2>6, <2>7, <2>8, <2>9
<1>3. CASE fuse_fork
  <2>1. PICK d \in Daemons : dst[d] = "none" /\ dst' = [dst EXCEPT ![d] = "starting"]
                             /\ fuse_pid' = d
    BY <1>3 DEF fuse_fork
  <2>2. /\ spc = "fork" /\ spc' = "poll" /\ UNCHANGED <<diskVars, vfs, fuse_mnt, cwd, mounts, mixed>>
        /\ UNCHANGED <<toolVars, ipc, disk_arg, botched>> /\ d \in 0 .. MaxDaemons /\ d # 0
    BY <1>3 DEF fuse_fork, Daemons
  <2>3. /\ dst \in [Daemons -> {"none", "starting", "opened", "serving", "leaving"}]
        /\ dst' \in [Daemons -> {"none", "starting", "opened", "serving", "leaving"}]
        /\ \A e \in Daemons \ {d} : dst'[e] = dst[e]
        /\ dst'[d] = "starting"
    BY <2>1 DEF ProcType
  <2>4. DiskType' /\ ProcType' BY <2>1, <2>2, <2>3 DEF DiskType, ProcType
  <2>5. Booting' BY <1>1, <2>2 DEF Booting, Formatting
  <2>6. Holders' BY <1>1, <2>1, <2>2, <2>3 DEF Holders, ShellHolds
  <2>7. Mounting'
    <3>1. \A e \in Daemons : ~Young(e) BY <2>2 DEF Mounting, Daemons
    <3>2. \A e \in Daemons : Young(e)' => fuse_pid' = e BY <2>1, <2>3, <3>1 DEF Young
    <3>3. ~OnMounts(d) /\ \A e : OnMounts(e)' <=> OnMounts(e)
      BY <2>1, <2>2 DEF Mounting, OnMounts
    <3>. QED BY <2>1, <2>2, <2>3, <3>2, <3>3 DEF Mounting
  <2>8. Alone' /\ OneWriter' BY <2>2 DEF Alone, OneWriter, Stale
  <2>9. DiskOK' /\ Counting' BY <2>2 DEF DiskOK, AllIntact, Intact, Counting
  <2>. QED BY <2>4, <2>5, <2>6, <2>7, <2>8, <2>9
<1>. QED BY <1>2, <1>3

(* The poll gave up: the child is killed while it still is one. *)
LEMMA KillStep ==
  ASSUME SessionInv, fuse_kill
  PROVE  SessionInv'
<1>. USE DEF SessionInv
<1>0. /\ TOOL # SHELL /\ TOOL \notin Daemons /\ SHELL \notin Daemons /\ SHELL \in Handles
      /\ \A d \in Daemons : d \in Handles /\ d # SHELL /\ d # 0 /\ d \in 0 .. MaxDaemons
      /\ \A x \in 0 .. MaxDaemons : x # 0 => x \in Daemons
      /\ 0 \in 0 .. MaxDaemons
  BY SharedAssumption DEF TOOL, SHELL, Daemons, Handles
<1>1. PICK d \in Daemons : d = fuse_pid
  BY <1>0 DEF fuse_kill, ShellAt, Mounting, ProcType
<1>2. /\ tool = "none" /\ TOOL \notin opened /\ ipc = "wait" /\ spc = "kill" /\ spc' = "prompt"
      /\ vfs = "zeros" /\ SHELL \in opened
  BY DEF fuse_kill, ShellAt, Booting, ProcType, Holders, Copiers, ShellHolds
<1>3. /\ UNCHANGED <<disk, fresh, hurt, vfs, fuse_mnt, cwd, mounts>>
      /\ UNCHANGED <<toolVars, ipc, disk_arg, botched>> /\ fuse_pid' = 0
  BY DEF fuse_kill, Rest
<1>4. \A e \in Daemons \ {d} : ~Young(e) /\ dst[e] # "serving" /\ e \notin opened
  BY <1>1, <1>2 DEF Mounting, OnMounts, Young, Holders
<1>5. /\ dst' \in [Daemons -> {"none", "starting", "opened", "serving", "leaving"}]
      /\ \A e \in Daemons \ {d} : dst'[e] = dst[e]
      /\ dst'[d] \in {"none", "serving", "leaving"} /\ (dst'[d] = "serving" <=> dst[d] = "serving")
      /\ mixed' \in BOOLEAN /\ (mixed => mixed') /\ (dst[d] = "serving" => mixed')
  <2>1. CASE Young(d)
    BY <1>1, <2>1 DEF fuse_kill, ProcType, Young
  <2>2. CASE ~Young(d)
    BY <1>1, <2>2 DEF fuse_kill, ProcType, Young
  <2>. QED BY <2>1, <2>2
<1>6. /\ opened' = IF Young(d) THEN opened \ {d} ELSE opened
      /\ ram' \in [Handles -> SUBSET Blk] /\ \A g \in Handles \ {d} : ram'[g] = ram[g]
      /\ ~Young(d) => ram' = ram
  <2>1. CASE Young(d) BY <1>0, <1>1, <2>1 DEF fuse_kill, DiskType, Drop
  <2>2. CASE ~Young(d) BY <1>1, <2>2 DEF fuse_kill, DiskType
  <2>. QED BY <2>1, <2>2
<1>7. DiskType' BY <1>3, <1>6 DEF DiskType
<1>8. ProcType' BY <1>0, <1>2, <1>3, <1>5 DEF ProcType, toolVars
<1>9. Booting' BY <1>2, <1>3 DEF Booting, Formatting, toolVars
<1>10. Holders'
  <2>1. \A e \in Daemons : e \in opened' <=> dst'[e] \in {"opened", "serving"}
    BY <1>4, <1>5, <1>6 DEF Holders, Young, ProcType
  <2>. QED BY <1>0, <1>2, <1>3, <1>6, <2>1 DEF Holders, ShellHolds, toolVars
<1>11. Mounting'
  <2>1. \A e : OnMounts(e)' <=> OnMounts(e) BY <1>3 DEF OnMounts
  <2>2. \A e \in Daemons : ~Young(e)' BY <1>4, <1>5 DEF Young
  <2>. QED BY <1>2, <1>3, <1>4, <1>5, <2>1, <2>2 DEF Mounting
<1>12. Alone'
  <2>. SUFFICES ASSUME ~mixed' PROVE opened' = {SHELL} BY <1>0 DEF Alone
  <2>1. dst'[d] \in {"none", "leaving"} BY <1>5
  <2>2. \A e \in Daemons : e \notin opened' BY <1>4, <1>5, <1>10, <2>1 DEF Holders
  <2>3. SHELL \in opened' /\ TOOL \notin opened' BY <1>0, <1>2, <1>6
  <2>. QED BY <1>7, <2>2, <2>3 DEF DiskType, Handles
<1>13. OneWriter'
  <2>. SUFFICES ASSUME ~mixed', hurt' = {}, NEW h \in opened' PROVE ~Stale(h)' BY DEF OneWriter
  <2>1. h \in opened /\ (Young(d) => h # d) /\ h \in Handles BY <1>6 DEF DiskType
  <2>2. ~Stale(h) BY <1>3, <1>5, <2>1 DEF OneWriter
  <2>. QED BY <1>3, <1>6, <2>1, <2>2 DEF Stale
<1>14. DiskOK' /\ Counting' BY <1>3 DEF DiskOK, AllIntact, Intact, Counting, toolVars
<1>. QED BY <1>7, <1>8, <1>9, <1>10, <1>11, <1>12, <1>13, <1>14

(* The shell gives its handle up for the mount. *)
LEMMA DestroyStep ==
  ASSUME SessionInv, sh_destroy
  PROVE  SessionInv'
<1>. USE DEF SessionInv
<1>0. /\ TOOL # SHELL /\ TOOL \notin Daemons /\ SHELL \notin Daemons /\ SHELL \in Handles
  BY SharedAssumption DEF TOOL, SHELL, Daemons, Handles
<1>1. /\ tool = "none" /\ TOOL \notin opened /\ ipc = "wait" /\ spc = "destroy" /\ spc' = "prompt"
      /\ SHELL \in opened /\ vfs' = "host"
  BY DEF sh_destroy, ShellAt, Booting, ProcType, Holders, Copiers, ShellHolds
<1>2. UNCHANGED <<toolVars, ipc, fuse_pid, cwd, dst, mounts, mixed>>
  BY DEF sh_destroy, Rest
<1>3. /\ DiskType' /\ disk'.magic = disk.magic /\ hurt \subseteq hurt' /\ fresh' = fresh
      /\ opened' = opened \ {SHELL} /\ \A g \in Handles \ {SHELL} : ram'[g] = ram[g]
      /\ hurt' = {} => disk' = disk
  BY <1>0, CloseFacts DEF sh_destroy
<1>4. ProcType' BY <1>1, <1>2 DEF ProcType, toolVars
<1>5. Booting' BY <1>1, <1>2 DEF Booting, Formatting, toolVars
<1>6. Holders' BY <1>0, <1>1, <1>2, <1>3 DEF Holders, ShellHolds, toolVars
<1>7. Mounting' BY <1>1, <1>2 DEF Mounting, OnMounts, Young
<1>8. Alone' BY <1>0, <1>1, <1>2, <1>3 DEF Alone
<1>9. OneWriter' BY <1>2, <1>3 DEF OneWriter, Stale, DiskType
<1>10. DiskOK' BY <1>2, <1>3 DEF DiskOK, AllIntact, Intact
<1>11. Counting' BY <1>1, <1>2 DEF Counting, toolVars
<1>. QED BY <1>3, <1>4, <1>5, <1>6, <1>7, <1>8, <1>9, <1>10, <1>11

-----------------------------------------------------------------------------
(* The daemons. *)

(* The handles of the tool, the shell and the daemons are different ones. *)
LEMMA DaemonFacts ==
  /\ TOOL # SHELL /\ TOOL \notin Daemons /\ SHELL \notin Daemons /\ SHELL \in Handles
  /\ TOOL \in Handles /\ Daemons \subseteq Handles /\ 0 \notin Daemons
  /\ Handles = {TOOL, SHELL} \cup Daemons
BY SharedAssumption DEF TOOL, SHELL, Daemons, Handles

(* A daemon opens the disk: if no other one serves it has it to itself,    *)
(* but for a shell that is about to give it up.                            *)
LEMMA DaemonOpens ==
  ASSUME SessionInv, NEW d \in Daemons, daemon_open(d)
  PROVE  SessionInv'
<1>. USE DEF SessionInv
<1>1. /\ dst[d] = "starting" /\ dst' = [dst EXCEPT ![d] = "opened"] /\ UNCHANGED mounts
      /\ UNCHANGED <<toolVars, ipc, disk_arg, botched, spc, vfs, fuse_mnt, fuse_pid, cwd>>
      /\ dst \in [Daemons -> {"none", "starting", "opened", "serving", "leaving"}]
  BY DEF daemon_open, OnlyDaemon, ProcType
<1>2. /\ DiskType' /\ disk' = disk /\ hurt' = hurt /\ opened' = opened \cup {d}
      /\ ram'[d] = disk.bm /\ \A g \in Handles \ {d} : ram'[g] = ram[g] /\ fresh' = fresh
      /\ disk.magic
  BY DaemonFacts, OpenFacts DEF daemon_open, zeros_mount_open
<1>3. /\ mixed' = (mixed \/ Serving # {}) /\ mixed' \in BOOLEAN
      /\ mixed \in BOOLEAN
  BY DEF daemon_open, ProcType
<1>4. ~mixed' => ~mixed /\ \A e \in Daemons : dst[e] # "serving" BY <1>3 DEF Serving
<1>5. ipc \in {"launch", "wait"} BY <1>1 DEF Booting, ProcType
<1>6. ProcType'
  <2>1. dst' \in [Daemons -> {"none", "starting", "opened", "serving", "leaving"}] BY <1>1
  <2>. QED BY <1>1, <1>3, <2>1 DEF ProcType, toolVars
<1>7. Booting' BY <1>1, <1>5 DEF Booting, Formatting, toolVars
<1>8. Holders' BY <1>1, <1>2, DaemonFacts DEF Holders, ShellHolds, toolVars
<1>9. Mounting' BY <1>1 DEF Mounting, OnMounts, Young
<1>10. ASSUME ~mixed' PROVE opened' \subseteq {d, SHELL, TOOL}
  <2>1. \A e \in Daemons \ {d} : ~Young(e) BY <1>1 DEF Mounting, Young
  <2>2. \A e \in Daemons \ {d} : e \notin opened BY <1>4, <1>10, <2>1 DEF Holders, Young
  <2>. QED BY <1>2, <2>2, DaemonFacts DEF DiskType
<1>11. ASSUME ~mixed' PROVE spc \notin {"prompt", "external"} /\ TOOL \notin opened
  <2>1. Young(d) BY <1>1 DEF Young
  <2>2. mounts = <<>>
    <3>. SUFFICES ASSUME mounts # <<>> PROVE FALSE OBVIOUS
    <3>1. 1 \in DOMAIN mounts /\ mounts[1] \in Daemons BY ElementOfSeq DEF ProcType
    <3>. QED BY <1>4, <1>11, <3>1 DEF Mounting, OnMounts
  <2>3. spc \notin {"prompt", "external"} BY <2>1, <2>2 DEF Mounting
  <2>. QED BY <1>5, <2>3 DEF Holders, Booting, Copiers
<1>12. Alone' BY <1>1, <1>2, <1>10, <1>11, DaemonFacts DEF Alone
<1>13. OneWriter' BY <1>2, <1>4 DEF OneWriter, Stale, DiskType
<1>14. DiskOK' BY <1>1, <1>2 DEF DiskOK, AllIntact, Intact
<1>15. Counting' BY <1>1, <1>2, DaemonFacts DEF Counting, toolVars
<1>. QED BY <1>2, <1>6, <1>7, <1>8, <1>9, <1>12, <1>13, <1>14, <1>15

(* It mounts, on top of what is mounted. *)
LEMMA DaemonMounts ==
  ASSUME SessionInv, NEW d \in Daemons, daemon_mount(d)
  PROVE  SessionInv'
<1>. USE DEF SessionInv
<1>1. /\ dst[d] = "opened" /\ dst' = [dst EXCEPT ![d] = "serving"] /\ mounts' = <<d>> \o mounts
      /\ UNCHANGED <<toolVars, ipc, disk_arg, botched, spc, vfs, fuse_mnt, fuse_pid, cwd>>
      /\ UNCHANGED <<diskVars, mixed>>
      /\ dst \in [Daemons -> {"none", "starting", "opened", "serving", "leaving"}]
      /\ mounts \in Seq(Daemons)
  BY DEF daemon_mount, OnlyDaemon, ProcType
<1>2. ipc \in {"launch", "wait"} BY <1>1 DEF Booting, ProcType
<1>3. /\ mounts' \in Seq(Daemons) /\ Len(mounts') = Len(mounts) + 1 /\ mounts'[1] = d
      /\ \A i \in 1 .. Len(mounts) : mounts'[i + 1] = mounts[i]
      /\ Len(mounts) \in Nat
  BY <1>1
<1>4. ~OnMounts(d) /\ fuse_pid = d BY <1>1 DEF Mounting, Young
<1>5. \A e : OnMounts(e)' <=> e = d \/ OnMounts(e)
  <2>. TAKE e
  <2>1. ASSUME OnMounts(e)' PROVE e = d \/ OnMounts(e)
    <3>1. PICK i \in 1 .. Len(mounts) + 1 : mounts'[i] = e BY <1>3, <2>1 DEF OnMounts
    <3>2. i = 1 \/ i - 1 \in 1 .. Len(mounts) BY <1>3
    <3>3. i # 1 => mounts[i - 1] = e BY <1>3, <3>1, <3>2
    <3>. QED BY <1>1, <1>3, <3>1, <3>2, <3>3 DEF OnMounts
  <2>2. ASSUME OnMounts(e) PROVE OnMounts(e)'
    <3>1. PICK i \in 1 .. Len(mounts) : mounts[i] = e BY <1>1, <2>2 DEF OnMounts
    <3>2. i + 1 \in DOMAIN mounts' /\ mounts'[i + 1] = e BY <1>3, <3>1
    <3>. QED BY <3>2 DEF OnMounts
  <2>3. OnMounts(d)' BY <1>3 DEF OnMounts
  <2>. QED BY <2>1, <2>2, <2>3
<1>6. \A i, j \in DOMAIN mounts' : mounts'[i] = mounts'[j] => i = j
  <2>. TAKE i, j \in DOMAIN mounts'
  <2>1. /\ i \in 1 .. Len(mounts) + 1 /\ j \in 1 .. Len(mounts) + 1
        /\ i = 1 \/ (i - 1 \in 1 .. Len(mounts) /\ mounts'[i] = mounts[i - 1])
        /\ j = 1 \/ (j - 1 \in 1 .. Len(mounts) /\ mounts'[j] = mounts[j - 1])
    BY <1>3
  <2>2. \A k, l \in 1 .. Len(mounts) : mounts[k] = mounts[l] => k = l BY <1>1 DEF Mounting
  <2>3. \A k \in 1 .. Len(mounts) : mounts[k] # d BY <1>1, <1>4 DEF OnMounts
  <2>. QED BY <1>3, <2>1, <2>2, <2>3
<1>7. Mounting'
  <2>1. spc = "kill" => \A i \in DOMAIN mounts' : mounts'[i] = fuse_pid
    BY <1>4, <1>5 DEF Mounting, OnMounts
  <2>2. mounts' # <<>> BY <1>3
  <2>3. \A e \in Daemons : dst'[e] = IF e = d THEN "serving" ELSE dst[e] BY <1>1
  <2>4. \A e \in Daemons : Young(e)' => fuse_pid = e BY <2>3 DEF Mounting, Young
  <2>5. \A e \in Daemons : dst'[e] = "serving" <=> OnMounts(e)' BY <1>5, <2>3 DEF Mounting
  <2>6. cwd # 0 => \E i \in DOMAIN mounts' : mounts'[i] = cwd
    <3>1. PICK w : w = cwd OBVIOUS
    <3>2. w # 0 => OnMounts(w)' BY <1>5, <3>1 DEF Mounting
    <3>. QED BY <3>1, <3>2 DEF OnMounts
  <2>. QED BY <1>1, <1>6, <2>1, <2>2, <2>4, <2>5, <2>6 DEF Mounting, OnMounts
<1>8. DiskType' BY <1>1 DEF DiskType, diskVars
<1>9. ProcType'
  <2>1. dst' \in [Daemons -> {"none", "starting", "opened", "serving", "leaving"}] BY <1>1
  <2>. QED BY <1>1, <1>3, <2>1 DEF ProcType, toolVars
<1>10. Booting' BY <1>1, <1>2 DEF Booting, Formatting, toolVars, diskVars
<1>11. Holders' BY <1>1 DEF Holders, ShellHolds, toolVars, diskVars
<1>12. Alone' /\ OneWriter' BY <1>1 DEF Alone, OneWriter, Stale, diskVars
<1>13. DiskOK' /\ Counting'
  BY <1>1 DEF DiskOK, AllIntact, Intact, Counting, toolVars, diskVars
<1>. QED BY <1>7, <1>8, <1>9, <1>10, <1>11, <1>12, <1>13

(* It fails before it has mounted. *)
LEMMA DaemonFails ==
  ASSUME SessionInv, NEW d \in Daemons, daemon_fails(d)
  PROVE  SessionInv'
<1>. USE DEF SessionInv
<1>1. /\ Young(d) /\ dst' = [dst EXCEPT ![d] = "none"]
      /\ opened' = opened \ {d} /\ ram' = [ram EXCEPT ![d] = {}]
      /\ UNCHANGED <<disk, fresh, hurt, mounts, mixed>>
      /\ UNCHANGED <<toolVars, ipc, disk_arg, botched, spc, vfs, fuse_mnt, fuse_pid, cwd>>
      /\ dst \in [Daemons -> {"none", "starting", "opened", "serving", "leaving"}]
  BY DEF daemon_fails, OnlyDaemon, ProcType, Drop
<1>2. DiskType' BY <1>1 DEF DiskType
<1>3. ProcType'
  <2>1. dst' \in [Daemons -> {"none", "starting", "opened", "serving", "leaving"}] BY <1>1
  <2>. QED BY <1>1, <2>1 DEF ProcType, toolVars
<1>4. Booting' BY <1>1 DEF Booting, Formatting, toolVars
<1>5. Holders' BY <1>1, DaemonFacts DEF Holders, ShellHolds, toolVars
<1>6. Mounting' BY <1>1 DEF Mounting, OnMounts, Young
<1>7. Alone'
  <2>1. ~mixed /\ TOOL \in opened => d \notin opened BY DaemonFacts DEF Alone
  <2>2. ~mixed /\ spc \in {"prompt", "external"} /\ vfs = "zeros" => d \notin opened
    BY DaemonFacts DEF Alone
  <2>. QED BY <1>1, <2>1, <2>2 DEF Alone
<1>8. OneWriter' BY <1>1 DEF OneWriter, Stale, DiskType
<1>9. DiskOK' /\ Counting' BY <1>1 DEF DiskOK, AllIntact, Intact, Counting, toolVars
<1>. QED BY <1>2, <1>3, <1>4, <1>5, <1>6, <1>7, <1>8, <1>9

(* The process of a daemon that has been unmounted ends. *)
LEMMA DaemonExits ==
  ASSUME SessionInv, NEW d \in Daemons, daemon_exit(d)
  PROVE  SessionInv'
<1>. USE DEF SessionInv, toolVars, diskVars
<1>1. /\ dst[d] = "leaving" /\ dst' = [dst EXCEPT ![d] = "none"]
      /\ UNCHANGED <<diskVars, mounts, mixed>>
      /\ UNCHANGED <<toolVars, ipc, disk_arg, botched, spc, vfs, fuse_mnt, fuse_pid, cwd>>
      /\ dst \in [Daemons -> {"none", "starting", "opened", "serving", "leaving"}]
  BY DEF daemon_exit, OnlyDaemon, ProcType
<1>2. DiskType' BY <1>1 DEF DiskType
<1>3. ProcType'
  <2>1. dst' \in [Daemons -> {"none", "starting", "opened", "serving", "leaving"}] BY <1>1
  <2>. QED BY <1>1, <2>1 DEF ProcType
<1>4. Booting' BY <1>1 DEF Booting, Formatting
<1>5. Holders' BY <1>1 DEF Holders, ShellHolds
<1>6. Mounting' BY <1>1 DEF Mounting, OnMounts, Young
<1>7. Alone' /\ OneWriter' BY <1>1 DEF Alone, OneWriter, Stale
<1>8. DiskOK' /\ Counting' BY <1>1 DEF DiskOK, AllIntact, Intact, Counting
<1>. QED BY <1>2, <1>3, <1>4, <1>5, <1>6, <1>7, <1>8

-----------------------------------------------------------------------------
(* Commands. *)

(* A call of a handle that has the disk to itself unless mixed. *)
LEMMA CallStep ==
  ASSUME SessionInv, NEW h \in opened, Worked(h), ~mixed => opened = {h},
         ipc = "wait", spc = "prompt", tool = "none",
         UNCHANGED <<toolVars, ipc, spc, vfs, fuse_pid, cwd, dst, mounts, mixed>>
  PROVE  SessionInv'
<1>. USE DEF SessionInv, toolVars
<1>1. /\ DiskType' /\ opened' = opened /\ disk'.magic = disk.magic /\ hurt \subseteq hurt'
      /\ hurt' = {} => ram'[h] = disk'.bm
      /\ hurt' = {} /\ AllIntact => AllIntact'
  BY DEF Worked
<1>2. ProcType' BY DEF ProcType
<1>3. Booting' BY <1>1 DEF Booting, Formatting
<1>4. Holders' BY <1>1 DEF Holders, ShellHolds
<1>5. Mounting' BY DEF Mounting, OnMounts, Young
<1>6. Alone' BY <1>1 DEF Alone
<1>7. OneWriter' BY <1>1 DEF OneWriter, Stale
<1>8. DiskOK' BY <1>1 DEF DiskOK
<1>9. Counting' BY DEF Counting
<1>. QED BY <1>1, <1>2, <1>3, <1>4, <1>5, <1>6, <1>7, <1>8, <1>9

(* At its prompt the shell runs, no tool does. *)
LEMMA PromptFacts ==
  ASSUME SessionInv, spc = "prompt"
  PROVE  ipc = "wait" /\ tool = "none" /\ TOOL \notin opened
BY DEF SessionInv, Booting, ProcType, Holders, Copiers

(* A daemon that can be reached has the disk open. *)
LEMMA ReachedOpen ==
  ASSUME SessionInv, NEW d \in Reached
  PROVE  d \in opened /\ d \in Daemons /\ OnMounts(d)
<1>. USE DEF SessionInv
<1>1. \A e \in Daemons : OnMounts(e) => e \in opened BY DEF Mounting, Holders
<1>2. mounts # <<>> => mounts[1] \in Daemons /\ OnMounts(mounts[1])
  BY ElementOfSeq DEF ProcType, OnMounts
<1>3. cwd # 0 => cwd \in Daemons /\ OnMounts(cwd)
  BY SharedAssumption DEF ProcType, Mounting, Daemons
<1>4. d \in Daemons /\ OnMounts(d) BY <1>2, <1>3 DEF Reached
<1>. QED BY <1>1, <1>4

(* A command of the user, through the mount or through the shell's own     *)
(* handle.                                                                 *)
LEMMA CommandStep ==
  ASSUME SessionInv, cmd_fuse \/ cmd_zeros
  PROVE  SessionInv'
<1>. USE DEF SessionInv
<1>0. /\ ipc = "wait" /\ spc = "prompt" /\ tool = "none" /\ TOOL \notin opened
      /\ UNCHANGED <<toolVars, ipc, spc, vfs, fuse_pid, cwd, dst, mounts, mixed>>
  BY PromptFacts DEF cmd_fuse, cmd_zeros, AtPrompt
<1>1. CASE cmd_fuse
  <2>1. PICK d \in Reached : Request(d) BY <1>1 DEF cmd_fuse
  <2>5. d \in Daemons /\ OnMounts(d) /\ d \in opened BY <2>1, ReachedOpen
  <2>6. d \in opened /\ d \in Handles BY <2>5, DaemonFacts
  <2>7. Worked(d) BY <2>1, <2>6, RequestCalls, CallWorked
  <2>8. SHELL \notin opened BY <1>0, <1>1 DEF cmd_fuse, Holders, ShellHolds
  <2>9. ~mixed => opened = {d}
    BY <1>0, <2>5, <2>6, <2>8, DaemonFacts DEF Alone, DiskType
  <2>. QED BY <1>0, <2>6, <2>7, <2>9, CallStep
<1>2. CASE cmd_zeros
  <2>1. vfs = "zeros" BY <1>2 DEF cmd_zeros
  <2>2. SHELL \in opened /\ SHELL \in Handles
    BY <1>0, <2>1, DaemonFacts DEF Holders, ShellHolds
  <2>3. Calls(SHELL)
    <3>1. \A n \in 0 .. MaxLen : n \in Nat BY SharedAssumption
    <3>. QED BY <1>2, <3>1 DEF cmd_zeros, Calls
  <2>4. Worked(SHELL) BY <2>2, <2>3, CallWorked
  <2>5. ~mixed => opened = {SHELL} BY <1>0, <2>1 DEF Alone
  <2>. QED BY <1>0, <2>2, <2>4, <2>5, CallStep
<1>. QED BY <1>1, <1>2

(* cd, and the end of an external command. *)
LEMMA CdStep ==
  ASSUME SessionInv, builtin_cd \/ external_done
  PROVE  SessionInv'
<1>. USE DEF SessionInv, toolVars, diskVars
<1>1. CASE builtin_cd
  <2>0. /\ ipc = "wait" /\ spc = "prompt" /\ tool = "none"
        /\ UNCHANGED <<toolVars, ipc, spc, vfs, fuse_pid, dst, mounts, mixed, diskVars>>
    BY <1>1, PromptFacts DEF builtin_cd, AtPrompt
  <2>1. cwd' = 0 \/ (mounts # <<>> /\ cwd' = mounts[1] /\ cwd' \in Daemons)
    <3>1. mounts \in Seq(Daemons) BY DEF ProcType
    <3>2. CASE cwd' = 0 BY <3>2
    <3>3. CASE cwd' # 0
      <4>1. 1 \in DOMAIN mounts /\ cwd' = mounts[1] BY <1>1, <3>3 DEF builtin_cd
      <4>. QED BY <3>1, <4>1, ElementOfSeq
    <3>. QED BY <3>2, <3>3
  <2>2. DiskType' BY <2>0 DEF DiskType
  <2>3. ProcType'
    <3>1. cwd' \in 0 .. MaxDaemons BY <2>1, SharedAssumption DEF Daemons
    <3>. QED BY <2>0, <3>1 DEF ProcType
  <2>4. Booting' BY <2>0 DEF Booting, Formatting
  <2>5. Holders' BY <2>0 DEF Holders, ShellHolds
  <2>6. Mounting'
    <3>1. mounts # <<>> => 1 \in DOMAIN mounts BY DEF ProcType
    <3>. QED BY <2>0, <2>1, <3>1 DEF Mounting, OnMounts, Young
  <2>7. Alone' /\ OneWriter' BY <2>0 DEF Alone, OneWriter, Stale
  <2>8. DiskOK' /\ Counting' BY <2>0 DEF DiskOK, AllIntact, Intact, Counting
  <2>. QED BY <2>2, <2>3, <2>4, <2>5, <2>6, <2>7, <2>8
<1>2. CASE external_done
  <2>. USE DEF external_done, Idle, ShellAt
  <2>1. DiskType' BY <1>2 DEF DiskType
  <2>2. ProcType'
    <3>1. 1 \in 1 .. NFiles + 1 BY SharedAssumption
    <3>. QED BY <1>2, <3>1 DEF ProcType
  <2>3. Booting' BY <1>2 DEF Booting, Formatting
  <2>4. Holders' BY <1>2 DEF Holders, ShellHolds, Copiers
  <2>5. Mounting' BY <1>2 DEF Mounting, OnMounts, Young
  <2>6. Alone' /\ OneWriter' BY <1>2 DEF Alone, OneWriter, Stale
  <2>7. DiskOK' /\ Counting' BY <1>2 DEF DiskOK, AllIntact, Intact, Counting
  <2>. QED BY <2>1, <2>2, <2>3, <2>4, <2>5, <2>6, <2>7
<1>. QED BY <1>1, <1>2

(* A tool opens the disk; mixed records when it is not the only one.       *)
LEMMA ExternalStep ==
  ASSUME SessionInv, run_external
  PROVE  SessionInv'
<1>. USE DEF SessionInv
<1>0. /\ ipc = "wait" /\ spc = "prompt" /\ spc' = "external" /\ tool = "none"
      /\ TOOL \notin opened
      /\ UNCHANGED <<ipc, disk_arg, vfs, fuse_mnt, fuse_pid, cwd, dst, mounts, botched>>
  BY PromptFacts DEF run_external, ShellAt
<1>1. 1 \in 1 .. NFiles + 1 /\ \A f \in Files : ~(f < 1) BY SharedAssumption DEF Files
<1>2. Mounting' BY <1>0 DEF Mounting, OnMounts, Young
<1>3. CASE \E t \in {"update", "upgrade"} : tool_start(t) /\ mixed' = (mixed \/ opened # {})
  <2>1. PICK t \in {"update", "upgrade"} : tool_start(t) /\ mixed' = (mixed \/ opened # {})
    BY <1>3
  <2>2. /\ tool' = t /\ line' = 1 /\ ok' = {} /\ fail' = {} /\ status' = -1
        /\ zeros_mount_open(TOOL) /\ disk.magic
    BY <2>1 DEF tool_start, Idle, zeros_mount_open
  <2>3. /\ DiskType' /\ disk' = disk /\ hurt' = hurt /\ opened' = opened \cup {TOOL}
        /\ ram'[TOOL] = disk.bm /\ \A g \in Handles \ {TOOL} : ram'[g] = ram[g]
    BY <2>2, DaemonFacts, OpenFacts
  <2>4. mixed' \in BOOLEAN /\ (~mixed' => ~mixed /\ opened = {}) BY <2>1 DEF ProcType
  <2>5. ProcType' BY <1>0, <1>1, <2>2, <2>4 DEF ProcType, Copiers
  <2>6. Booting' BY <1>0 DEF Booting, Formatting
  <2>7. Holders' BY <1>0, <2>2, <2>3, DaemonFacts DEF Holders, ShellHolds, Copiers
  <2>8. Alone'
    <3>1. opened = {} => vfs # "zeros" BY <1>0 DEF Holders, ShellHolds
    <3>. QED BY <1>0, <2>3, <2>4, <3>1, DaemonFacts DEF Alone
  <2>9. OneWriter' BY <2>3, <2>4 DEF OneWriter, Stale
  <2>10. DiskOK' BY <1>0, <2>3 DEF DiskOK, AllIntact, Intact
  <2>11. Counting' BY <1>1, <2>2 DEF Counting
  <2>. QED BY <1>2, <2>3, <2>5, <2>6, <2>7, <2>8, <2>9, <2>10, <2>11
<1>4. CASE \/ \E t \in {"update", "upgrade"} : tool_refuses(t) /\ UNCHANGED mixed
           \/ zeros_shell_update /\ UNCHANGED mixed
  <2>1. /\ UNCHANGED diskVars /\ mixed' = mixed /\ line' = 1 /\ ok' = {} /\ fail' = {}
        /\ tool' \in {"update", "upgrade", "shell_update"} /\ status' \in {0, 1}
        /\ tool' \in {"update", "upgrade"} => status' = 1
    BY <1>4 DEF tool_refuses, zeros_shell_update, Idle, diskVars
  <2>. USE DEF diskVars
  <2>2. DiskType' BY <2>1 DEF DiskType
  <2>3. ProcType' BY <1>0, <1>1, <2>1 DEF ProcType, Copiers
  <2>4. Booting' BY <1>0, <2>1 DEF Booting, Formatting
  <2>5. Holders' BY <1>0, <2>1 DEF Holders, ShellHolds
  <2>6. Alone' /\ OneWriter' BY <1>0, <2>1 DEF Alone, OneWriter, Stale
  <2>7. DiskOK' /\ Counting' BY <1>0, <2>1 DEF DiskOK, AllIntact, Intact, Counting
  <2>. QED BY <1>2, <2>2, <2>3, <2>4, <2>5, <2>6, <2>7
<1>. QED BY <1>3, <1>4 DEF run_external

-----------------------------------------------------------------------------
(* The shell ends, or the machine does. *)

(* vfs_destroy at the end of the shell closes its handle if it has one. *)
LEMMA LeaveStep ==
  ASSUME SessionInv, sh_leave
  PROVE  SessionInv'
<1>. USE DEF SessionInv, toolVars
<1>0. /\ ipc = "wait" /\ spc = "prompt" /\ tool = "none" /\ TOOL \notin opened
      /\ spc' \in {"exit", "shutdown"} /\ vfs' = "none"
      /\ UNCHANGED <<toolVars, ipc, fuse_mnt, fuse_pid, cwd, dst, mounts, mixed>>
  BY PromptFacts DEF sh_leave, Rest
<1>1. /\ DiskType' /\ disk'.magic = disk.magic /\ hurt \subseteq hurt'
      /\ opened' = opened \ {SHELL} /\ \A g \in Handles \ {SHELL} : ram'[g] = ram[g]
      /\ hurt' = {} => disk' = disk
  <2>1. CASE vfs = "zeros" BY <2>1, DaemonFacts, CloseFacts DEF sh_leave
  <2>2. CASE vfs # "zeros"
    <3>1. SHELL \notin opened BY <1>0, <2>2 DEF Holders, ShellHolds
    <3>. QED BY <2>2, <3>1 DEF sh_leave, diskVars, DiskType
  <2>. QED BY <2>1, <2>2
<1>2. ProcType' BY <1>0 DEF ProcType
<1>3. Booting' BY <1>0 DEF Booting, Formatting
<1>4. Holders' BY <1>0, <1>1, DaemonFacts DEF Holders, ShellHolds
<1>5. Mounting' BY <1>0 DEF Mounting, OnMounts, Young
<1>6. Alone' BY <1>0, <1>1 DEF Alone
<1>7. OneWriter' BY <1>0, <1>1 DEF OneWriter, Stale, DiskType
<1>8. DiskOK' BY <1>0, <1>1 DEF DiskOK, AllIntact, Intact
<1>9. Counting' BY <1>0 DEF Counting
<1>. QED BY <1>1, <1>2, <1>3, <1>4, <1>5, <1>6, <1>7, <1>8, <1>9

(* fusermount takes the visible mount away. *)
LEMMA UmountStep ==
  ASSUME SessionInv, fusermount
  PROVE  SessionInv'
<1>. USE DEF SessionInv, toolVars
<1>0. /\ ipc = "wait" /\ spc \in {"exit", "shutdown"} /\ tool = "none"
      /\ UNCHANGED <<disk, fresh, hurt, spc, vfs, fuse_pid, cwd, mixed>>
      /\ UNCHANGED <<toolVars, ipc, disk_arg, botched>>
      /\ mounts \in Seq(Daemons) /\ Len(mounts) \in Nat
      /\ dst \in [Daemons -> {"none", "starting", "opened", "serving", "leaving"}]
  BY DEF fusermount, Rest, Booting, ProcType
<1>1. CASE mounts # <<>> /\ cwd # mounts[1]
  <2>1. PICK d \in Daemons : d = mounts[1] BY <1>0, <1>1, ElementOfSeq
  <2>2. /\ dst' = [dst EXCEPT ![d] = "leaving"] /\ mounts' = Tail(mounts)
        /\ opened' = opened \ {d} /\ ram' = [ram EXCEPT ![d] = {}]
    BY <1>1, <2>1 DEF fusermount, Drop
  <2>3. /\ mounts' \in Seq(Daemons) /\ Len(mounts') = Len(mounts) - 1
        /\ \A i \in 1 .. Len(mounts') : mounts'[i] = mounts[i + 1] /\ i + 1 \in 1 .. Len(mounts)
    BY <1>0, <1>1, <2>2
  <2>4. \A k, l \in 1 .. Len(mounts) : mounts[k] = mounts[l] => k = l
    BY <1>0 DEF Mounting
  <2>5. \A e : OnMounts(e)' <=> OnMounts(e) /\ e # d
    <3>. TAKE e
    <3>1. ASSUME OnMounts(e)' PROVE OnMounts(e) /\ e # d
      <4>1. PICK i \in 1 .. Len(mounts') : mounts'[i] = e BY <2>3, <3>1 DEF OnMounts
      <4>2. mounts[i + 1] = e /\ i + 1 \in 1 .. Len(mounts) /\ i + 1 # 1 BY <2>3, <4>1
      <4>3. 1 \in 1 .. Len(mounts) BY <1>0, <1>1
      <4>. QED BY <1>0, <2>1, <2>4, <4>2, <4>3 DEF OnMounts
    <3>2. ASSUME OnMounts(e), e # d PROVE OnMounts(e)'
      <4>1. PICK i \in 1 .. Len(mounts) : mounts[i] = e BY <1>0, <3>2 DEF OnMounts
      <4>2. i # 1 BY <2>1, <3>2, <4>1
      <4>3. i - 1 \in 1 .. Len(mounts') BY <1>0, <2>3, <4>2
      <4>4. mounts'[i - 1] = e BY <2>3, <4>1, <4>3
      <4>5. i - 1 \in DOMAIN mounts' BY <2>3, <4>3
      <4>. QED BY <4>4, <4>5 DEF OnMounts
    <3>. QED BY <3>1, <3>2
  <2>6. \A i, j \in DOMAIN mounts' : mounts'[i] = mounts'[j] => i = j
    BY <2>3, <2>4
  <2>7. \A e \in Daemons : dst'[e] = IF e = d THEN "leaving" ELSE dst[e] BY <1>0, <2>2
  <2>8. Mounting'
    <3>1. cwd # 0 => \E i \in DOMAIN mounts' : mounts'[i] = cwd
      <4>1. PICK w : w = cwd OBVIOUS
      <4>2. w # 0 => OnMounts(w)' BY <1>1, <2>1, <2>5, <4>1 DEF Mounting
      <4>. QED BY <4>1, <4>2 DEF OnMounts
    <3>2. \A e \in Daemons : Young(e)' => fuse_pid = e BY <2>7 DEF Mounting, Young
    <3>3. \A e \in Daemons : dst'[e] = "serving" <=> OnMounts(e)' BY <2>5, <2>7 DEF Mounting
    <3>. QED BY <1>0, <2>6, <3>1, <3>2, <3>3 DEF Mounting, OnMounts
  <2>9. DiskType' BY <1>0, <2>2 DEF DiskType
  <2>10. ProcType'
    <3>1. dst' \in [Daemons -> {"none", "starting", "opened", "serving", "leaving"}] BY <1>0, <2>2
    <3>. QED BY <1>0, <2>3, <3>1 DEF ProcType
  <2>11. Booting' BY <1>0 DEF Booting, Formatting
  <2>12. Holders' BY <1>0, <2>2, <2>7, DaemonFacts DEF Holders, ShellHolds
  <2>13. Alone'
    <3>1. TOOL \notin opened BY <1>0 DEF Holders, Copiers
    <3>. QED BY <1>0, <2>2, <3>1, DaemonFacts DEF Alone
  <2>14. OneWriter' BY <1>0, <2>2 DEF OneWriter, Stale, DiskType
  <2>15. DiskOK' /\ Counting' BY <1>0 DEF DiskOK, AllIntact, Intact, Counting
  <2>. QED BY <2>8, <2>9, <2>10, <2>11, <2>12, <2>13, <2>14, <2>15
<1>2. CASE UNCHANGED <<dst, mounts, opened, ram>>
  <2>1. DiskType' /\ ProcType' BY <1>0, <1>2 DEF DiskType, ProcType
  <2>2. Booting' BY <1>0, <1>2 DEF Booting, Formatting
  <2>3. Holders' BY <1>0, <1>2 DEF Holders, ShellHolds
  <2>4. Mounting' BY <1>0, <1>2 DEF Mounting, OnMounts, Young
  <2>5. Alone' /\ OneWriter' BY <1>0, <1>2 DEF Alone, OneWriter, Stale
  <2>6. DiskOK' /\ Counting' BY <1>0, <1>2 DEF DiskOK, AllIntact, Intact, Counting
  <2>. QED BY <2>1, <2>2, <2>3, <2>4, <2>5, <2>6
<1>. QED BY <1>1, <1>2 DEF fusermount

(* The process of the shell ends; a daemon may stay behind. *)
LEMMA ExitStep ==
  ASSUME SessionInv, sh_exit
  PROVE  SessionInv'
<1>. USE DEF SessionInv, toolVars, diskVars
<1>0. /\ ipc = "wait" /\ spc = "exit" /\ spc' = "none" /\ tool = "none"
      /\ fuse_pid # 0 => ~Young(fuse_pid)
      /\ fuse_pid' = 0 /\ cwd' = 0 /\ 0 \in 0 .. MaxDaemons
      /\ UNCHANGED <<diskVars, vfs, fuse_mnt, dst, mounts, mixed>>
      /\ UNCHANGED <<toolVars, ipc, disk_arg, botched>>
  BY SharedAssumption DEF sh_exit, ShellAt, Rest, Booting, ProcType
<1>1. DiskType' /\ ProcType' BY <1>0 DEF DiskType, ProcType
<1>2. Booting' BY <1>0 DEF Booting, Formatting
<1>3. Holders' BY <1>0 DEF Holders, ShellHolds
<1>4. Mounting'
  <2>1. \A d \in Daemons : ~Young(d)
    <3>. SUFFICES ASSUME NEW d \in Daemons, Young(d) PROVE FALSE OBVIOUS
    <3>1. fuse_pid = d BY DEF Mounting
    <3>. QED BY <1>0, <3>1, DaemonFacts
  <2>. QED BY <1>0, <2>1 DEF Mounting, OnMounts, Young
<1>5. Alone' /\ OneWriter' BY <1>0 DEF Alone, OneWriter, Stale
<1>6. DiskOK' /\ Counting' BY <1>0 DEF DiskOK, AllIntact, Intact, Counting
<1>. QED BY <1>1, <1>2, <1>3, <1>4, <1>5, <1>6

(* Nothing survives but what has reached the medium: the disk as it was, or *)
(* a mark in hurt.                                                         *)
LEMMA PowerStep ==
  ASSUME SessionInv, MediaType, PowerOff
  PROVE  SessionInv'
<1>. USE DEF SessionInv, toolVars
<1>1. /\ ipc' = "off" /\ spc' = "none" /\ vfs' = "none" /\ fuse_pid' = 0 /\ cwd' = 0
      /\ dst' = [d \in Daemons |-> "none"] /\ mounts' = <<>> /\ tool' = "none" /\ line' = 1
      /\ ok' = {} /\ fail' = {} /\ status' = -1 /\ opened' = {}
      /\ ram' = [h \in Handles |-> {}] /\ hurt' = hurt \cup CutFormat \cup Unsynced
      /\ CutFormat \subseteq Hurts /\ Unsynced \subseteq Hurts
      /\ disk' = media /\ (hurt' = {} => disk' = disk)
      /\ UNCHANGED <<fresh, mixed>>
      /\ 1 \in 1 .. NFiles + 1 /\ 0 \in 0 .. MaxDaemons
  BY SharedAssumption DEF PowerOff, Idle, CutFormat, Unsynced, Hurts
<1>2. DiskType' /\ ProcType' BY <1>1 DEF DiskType, MediaType, ProcType
<1>3. Booting' /\ Holders'
  BY <1>1 DEF Booting, Formatting, Holders, ShellHolds, Copiers
<1>4. Mounting' BY <1>1 DEF Mounting, OnMounts, Young
<1>5. Alone' /\ OneWriter' BY <1>1 DEF Alone, OneWriter
<1>6. DiskOK' BY <1>1 DEF DiskOK, AllIntact, Intact, CutFormat
<1>7. Counting' BY <1>1 DEF Counting
<1>. QED BY <1>2, <1>3, <1>4, <1>5, <1>6, <1>7

-----------------------------------------------------------------------------
(* The tools. *)

(* A tool moves on to the next entry, or to the end; what it did to the    *)
(* disk on the way it did through its own handle.                          *)
LEMMA ToolProcs ==
  ASSUME SessionInv, Running, UNCHANGED sessionVars, tool' = tool, opened' = opened,
         disk'.magic = disk.magic, DiskType',
         hurt' = {} => hurt = {},
         ~mixed /\ hurt' = {} => ram'[TOOL] = disk'.bm,
         hurt' = {} /\ AllIntact => AllIntact',
         status' = status, line' \in 1 .. NFiles + 1, ok' \subseteq Files, fail' \subseteq Files,
         Counting'
  PROVE  SessionInv'
<1>. USE DEF SessionInv, sessionVars, procVars
<1>1. ProcType' BY DEF ProcType
<1>2. ipc \in {"populating", "wait"} BY DEF Running, Copiers, Booting
<1>3. Booting' BY <1>2 DEF Booting, Formatting
<1>4. Holders' BY DEF Holders, ShellHolds
<1>5. Mounting' BY DEF Mounting, OnMounts, Young
<1>6. Alone' BY DEF Alone
<1>7. OneWriter' BY DEF OneWriter, Stale, Alone, Running
<1>8. DiskOK' BY <1>2 DEF DiskOK
<1>. QED BY <1>1, <1>3, <1>4, <1>5, <1>6, <1>7, <1>8

(* What a tool counts for one entry: the entries before the next one are   *)
(* exactly those it has counted.                                           *)
LEMMA CountFacts ==
  ASSUME SessionInv, Running, line <= NFiles, NEW won, NEW lost, Count(won, lost),
         \/ won = {line} /\ lost = {}
         \/ won = {} /\ lost = {line}
  PROVE  /\ line \in Files /\ line \notin (IF tool = "upgrade" THEN {} ELSE ok)
         /\ line' \in 1 .. NFiles + 1 /\ ok' \subseteq Files /\ fail' \subseteq Files
         /\ status = -1 /\ status' = status /\ tool' = tool
         /\ tool \in {"populate", "update"} =>
              /\ ok' \cup fail' = {f \in Files : f < line'}
              /\ ok' = ok \cup won /\ ok \subseteq fresh
<1>1. /\ line \in 1 .. NFiles + 1 /\ ok \subseteq Files /\ fail \subseteq Files
      /\ NFiles \in Nat /\ tool \in Copiers
  BY SharedAssumption DEF SessionInv, ProcType, Running
<1>2. line \in Files BY <1>1 DEF Files
<1>3. /\ ok' = ok \cup won /\ fail' = fail \cup lost /\ tool' = tool
      /\ status' = status /\ line' = IF tool = "upgrade" THEN NFiles + 1 ELSE line + 1
      /\ status = -1
  BY DEF Count, Following, Running
<1>4. line' \in 1 .. NFiles + 1 BY <1>1, <1>3
<1>5. ok' \subseteq Files /\ fail' \subseteq Files BY <1>1, <1>2, <1>3
<1>6. tool \in {"populate", "update"} =>
        /\ ok \cup fail = {f \in Files : f < line} /\ ok \subseteq fresh
        /\ ok' \cup fail' = (ok \cup fail) \cup {line} /\ line' = line + 1
  BY <1>3 DEF SessionInv, Counting
<1>7. {f \in Files : f < line} \cup {line} = {f \in Files : f < line + 1}
  BY <1>1, <1>2 DEF Files
<1>8. line \notin (IF tool = "upgrade" THEN {} ELSE ok)
  BY <1>1, <1>6 DEF Copiers, Files
<1>. QED BY <1>2, <1>3, <1>4, <1>5, <1>6, <1>7, <1>8

(* A tool goes through its list: an entry has no source, is copied, or the *)
(* disk is full; at the end it closes the disk and reports.                *)
LEMMA ToolStepInv ==
  ASSUME SessionInv, Tools
  PROVE  SessionInv'
<1>0. UNCHANGED sessionVars BY DEF Tools
<1>1. CASE no_source
  <2>1. Running /\ line <= NFiles /\ Count({}, {line}) /\ UNCHANGED diskVars
    BY <1>1 DEF no_source
  <2>2. /\ line' \in 1 .. NFiles + 1 /\ ok' \subseteq Files /\ fail' \subseteq Files
        /\ status = -1 /\ status' = status /\ tool' = tool
        /\ tool \in {"populate", "update"} =>
             ok' \cup fail' = {f \in Files : f < line'} /\ ok' = ok /\ ok \subseteq fresh
    BY <2>1, CountFacts
  <2>3. Counting' BY <2>1, <2>2 DEF Counting, diskVars
  <2>4. DiskType' BY <2>1 DEF diskVars, DiskType, SessionInv
  <2>5. opened' = opened /\ disk' = disk /\ hurt' = hurt /\ ram' = ram
    BY <2>1 DEF diskVars
  <2>6. ~mixed /\ hurt' = {} => ram'[TOOL] = disk'.bm
    BY <2>1, <2>5 DEF SessionInv, OneWriter, Stale, Running
  <2>7. AllIntact => AllIntact' BY <2>5 DEF AllIntact, Intact
  <2>. QED BY <1>0, <2>1, <2>2, <2>3, <2>4, <2>5, <2>6, <2>7, ToolProcs
<1>2. ASSUME NEW n \in 1 .. MaxLen, copied(n) PROVE SessionInv'
  <2>1. Running /\ line <= NFiles /\ Count({line}, {}) /\ write_ok(TOOL, line, n)
    BY <1>2 DEF copied
  <2>2. /\ line' \in 1 .. NFiles + 1 /\ ok' \subseteq Files /\ fail' \subseteq Files
        /\ status = -1 /\ status' = status /\ tool' = tool /\ line \in Files
        /\ tool \in {"populate", "update"} =>
             /\ ok' \cup fail' = {f \in Files : f < line'}
             /\ ok' = ok \cup {line} /\ ok \subseteq fresh
    BY <2>1, CountFacts
  <2>3. Worked(TOOL)
    <3>1. n \in Nat BY SharedAssumption
    <3>. QED BY <2>1, <2>2, <3>1, WriteOk, DaemonFacts DEF SessionInv
  <2>4. fresh' = fresh \cup {line} BY <2>1 DEF write_ok
  <2>5. Counting' BY <2>2, <2>4 DEF Counting
  <2>. QED BY <1>0, <2>1, <2>2, <2>3, <2>5, ToolProcs DEF Worked
<1>3. ASSUME NEW n \in 1 .. MaxLen, not_copied(n) PROVE SessionInv'
  <2>1. Running /\ line <= NFiles /\ Count({}, {line}) /\ write_short(TOOL, line, n)
    BY <1>3 DEF not_copied
  <2>2. /\ line' \in 1 .. NFiles + 1 /\ ok' \subseteq Files /\ fail' \subseteq Files
        /\ status = -1 /\ status' = status /\ tool' = tool /\ line \in Files
        /\ line \notin (IF tool = "upgrade" THEN {} ELSE ok)
        /\ tool \in {"populate", "update"} =>
             /\ ok' \cup fail' = {f \in Files : f < line'}
             /\ ok' = ok \cup {} /\ ok \subseteq fresh
    BY <2>1, CountFacts
  <2>3. Worked(TOOL) BY <2>1, <2>2, WriteShort, DaemonFacts DEF SessionInv
  <2>4. fresh' = fresh \ {line} BY <2>1 DEF write_short
  <2>5. Counting' BY <2>2, <2>4 DEF Counting
  <2>. QED BY <1>0, <2>1, <2>2, <2>3, <2>5, ToolProcs DEF Worked
<1>4. CASE tool_exit
  <2>. USE DEF SessionInv, sessionVars, procVars
  <2>1. /\ Running /\ line > NFiles /\ status' = IF fail = {} THEN 0 ELSE 1
        /\ zeros_mount_close(TOOL) /\ UNCHANGED <<tool, line, ok, fail, bin>>
    BY <1>4 DEF tool_exit
  <2>2. /\ DiskType' /\ disk'.magic = disk.magic /\ hurt \subseteq hurt' /\ fresh' = fresh
        /\ opened' = opened \ {TOOL} /\ \A g \in Handles \ {TOOL} : ram'[g] = ram[g]
        /\ hurt' = {} => disk' = disk
    BY <2>1, CloseFacts, DaemonFacts
  <2>3. /\ tool \in Copiers /\ status = -1 /\ TOOL \in opened
        /\ ipc \in {"populating", "wait"} /\ disk.magic
    BY <2>1 DEF Running, Copiers, Booting, Holders
  <2>4. ProcType' BY <1>0, <2>1 DEF ProcType
  <2>5. Booting' BY <1>0, <2>1, <2>2, <2>3 DEF Booting, Formatting
  <2>6. Holders'
    <3>1. \A d \in Daemons : d \in opened' <=> d \in opened BY <2>2, DaemonFacts
    <3>2. SHELL \in opened' <=> SHELL \in opened BY <2>2, DaemonFacts
    <3>3. status' # -1 BY <2>1
    <3>. QED BY <1>0, <2>1, <2>2, <2>3, <3>1, <3>2, <3>3 DEF Holders, ShellHolds
  <2>7. Mounting' BY <1>0 DEF Mounting, OnMounts, Young
  <2>8. Alone'
    <3>1. spc \in {"prompt", "external"} /\ vfs = "zeros" => mixed
      BY <2>3, DaemonFacts DEF Alone
    <3>. QED BY <1>0, <2>2, <2>3, <3>1 DEF Alone
  <2>9. OneWriter' BY <1>0, <2>2, <2>3 DEF Alone, OneWriter
  <2>10. DiskOK' BY <1>0, <2>2, <2>3 DEF DiskOK, AllIntact, Intact
  <2>11. Counting'
    <3>1. CASE fail # {} BY <2>1, <3>1 DEF Counting
    <3>2. CASE fail = {} /\ tool \in {"populate", "update"}
      <4>1. ok = {f \in Files : f < line} /\ ok \subseteq fresh
        BY <2>3, <3>2 DEF Counting
      <4>2. {f \in Files : f < line} = Files
        BY <2>1, SharedAssumption DEF Files, ProcType
      <4>3. fresh = Files BY <4>1, <4>2 DEF DiskType
      <4>. QED BY <2>1, <2>2, <2>3, <4>3 DEF Counting
    <3>3. CASE tool \notin {"populate", "update"} BY <2>1, <3>3 DEF Counting
    <3>. QED BY <3>1, <3>2, <3>3
  <2>. QED BY <2>2, <2>4, <2>5, <2>6, <2>7, <2>8, <2>9, <2>10, <2>11
<1>. QED BY <1>1, <1>2, <1>3, <1>4 DEF Tools, ToolStep

-----------------------------------------------------------------------------
(* What else is true all along. *)

(* The cache is clean when nobody has the device open. *)
WrittenBack == ~Held => media = disk

(* A handle falls behind the disk only next to another writer. *)
StaleMixed == ~mixed /\ hurt \subseteq {"stale"} => hurt = {}

(* Without a disk there are no daemons. *)
Bare ==
  ~disk_arg /\ ipc \in {"launch", "wait"} =>
    /\ \A d \in Daemons : dst[d] = "none"
    /\ spc \notin {"fork", "poll", "kill", "chdir", "destroy"}

(* A shell that works without FUSE has found no daemon to work next to. *)
Left ==
  /\ spc \in {"chdir", "destroy"} => fuse_pid # 0
  /\ ~mixed /\ fuse_pid = 0 /\ spc \in {"prompt", "external", "exit", "shutdown"} =>
       \A d \in Daemons : dst[d] # "serving"

FullInv == SessionInv /\ MediaType /\ WrittenBack /\ StaleMixed /\ Bare /\ Left

(* What a call of a handle does to hurt. *)
LEMMA CallHurts ==
  ASSUME NEW h, NEW f, NEW n,
         \/ write_ok(h, f, n) \/ write_short(h, f, n) \/ zeros_rm(h, f)
         \/ zeros_mount_close(h)
  PROVE  \/ hurt' = hurt \cup Risk(h)
         \/ hurt' = hurt \cup {"short"} \cup Risk(h)
BY DEF write_ok, write_short, zeros_rm, zeros_mount_close

(* Calls of an open handle leave StaleMixed alone: it is not stale. *)
LEMMA OpenCallHurts ==
  ASSUME SessionInv, StaleMixed, mixed' = mixed, NEW h \in opened,
         \/ hurt' = hurt \cup Risk(h)
         \/ hurt' = hurt \cup {"short"} \cup Risk(h)
  PROVE  StaleMixed'
<1>. SUFFICES ASSUME ~mixed, hurt' \subseteq {"stale"} PROVE hurt' = {}
  BY DEF StaleMixed
<1>1. hurt \subseteq {"stale"} /\ "short" \notin hurt' OBVIOUS
<1>2. hurt = {} BY <1>1 DEF StaleMixed
<1>3. Risk(h) = {} BY <1>2 DEF SessionInv, OneWriter, Risk
<1>. QED BY <1>1, <1>2, <1>3

(* Every step that changes hurt does it through an open handle, or leaves  *)
(* another mark than "stale".                                              *)
LEMMA StaleNext ==
  ASSUME SessionInv, StaleMixed, Step
  PROVE  StaleMixed'
<1>. USE DEF StaleMixed
<1>1. CASE \/ boot \/ find_disk \/ check_magic \/ accept \/ decline \/ reaped \/ format_dirs
           \/ format_superblock \/ format_bitmaps
  BY <1>1 DEF boot, find_disk, check_magic, accept, decline, reaped, OnlyInit, Others, diskVars,
     format_dirs, format_superblock, format_bitmaps
<1>2. CASE format_fails
  BY <1>2 DEF format_fails, CutFormat, Others
<1>3. CASE populate \/ populated \/ launch
  BY <1>3 DEF populate, populated, launch, tool_start, tool_refuses, zeros_mount_open, diskVars
<1>4. CASE sh_host \/ sh_open_fails \/ fuse_fork_fails \/ poll_mounted \/ poll_timeout \/ sh_chdir
           \/ sh_open \/ fuse_fork
  <2>1. hurt' = hurt
    BY <1>4 DEF sh_host, sh_open_fails, fuse_fork_fails, poll_mounted, poll_timeout, sh_chdir,
       sh_open, fuse_fork, zeros_mount_open, diskVars
  <2>2. mixed => mixed'
    BY <1>4, Zenon DEF sh_host, sh_open_fails, fuse_fork_fails, poll_mounted, poll_timeout,
       sh_chdir, sh_open, fuse_fork
  <2>. QED BY <2>1, <2>2
<1>5. CASE fuse_kill
  <2>1. hurt' = hurt BY <1>5 DEF fuse_kill
  <2>2. mixed => mixed' BY <1>5, Zenon DEF fuse_kill
  <2>. QED BY <2>1, <2>2
<1>6. CASE sh_destroy
  <2>1. SHELL \in opened /\ zeros_mount_close(SHELL) /\ mixed' = mixed
    BY <1>6 DEF sh_destroy, ShellAt, SessionInv, Holders, ShellHolds
  <2>. QED BY <2>1, CallHurts, OpenCallHurts
<1>7. ASSUME NEW d \in Daemons, DaemonStep(d) PROVE StaleMixed'
  <2>1. hurt' = hurt
    BY <1>7 DEF DaemonStep, daemon_open, daemon_mount, daemon_fails, daemon_exit,
       zeros_mount_open, diskVars
  <2>2. mixed => mixed'
    BY <1>7, Zenon DEF DaemonStep, daemon_open, daemon_mount, daemon_fails, daemon_exit
  <2>. QED BY <2>1, <2>2
<1>8. CASE cmd_fuse
  <2>1. PICK d \in Reached : Request(d) BY <1>8 DEF cmd_fuse
  <2>2. d \in opened BY <1>8, <2>1, ReachedOpen
  <2>3. \/ hurt' = hurt \cup Risk(d)
        \/ hurt' = hurt \cup {"short"} \cup Risk(d)
    BY <2>1, CallHurts DEF Request, zf_write, zf_truncate, zf_unlink, zeros_write_file
  <2>4. mixed' = mixed BY <1>8 DEF cmd_fuse
  <2>. QED BY <2>2, <2>3, <2>4, OpenCallHurts
<1>9. CASE cmd_zeros
  <2>1. SHELL \in opened /\ mixed' = mixed
    BY <1>9 DEF cmd_zeros, AtPrompt, SessionInv, Holders, ShellHolds
  <2>2. \/ hurt' = hurt \cup Risk(SHELL)
        \/ hurt' = hurt \cup {"short"} \cup Risk(SHELL)
    BY <1>9, CallHurts DEF cmd_zeros, zeros_write_file
  <2>. QED BY <2>1, <2>2, OpenCallHurts
<1>10. CASE builtin_cd \/ external_done BY <1>10 DEF builtin_cd, external_done, diskVars
<1>11. CASE run_external
  <2>1. hurt' = hurt
    BY <1>11 DEF run_external, tool_start, tool_refuses, zeros_shell_update, zeros_mount_open,
       diskVars
  <2>2. mixed => mixed' BY <1>11, Zenon DEF run_external
  <2>. QED BY <2>1, <2>2
<1>12. CASE sh_leave
  <2>1. CASE vfs = "zeros"
    <3>1. SHELL \in opened /\ zeros_mount_close(SHELL) /\ mixed' = mixed
      BY <1>12, <2>1 DEF sh_leave, SessionInv, Holders, ShellHolds
    <3>. QED BY <3>1, CallHurts, OpenCallHurts
  <2>2. CASE vfs # "zeros" BY <1>12, <2>2 DEF sh_leave, diskVars
  <2>. QED BY <2>1, <2>2
<1>13. CASE fusermount \/ sh_exit BY <1>13 DEF fusermount, sh_exit, diskVars
<1>14. CASE PowerOff
  <2>1. /\ hurt' = hurt \cup CutFormat \cup Unsynced /\ mixed' = mixed
        /\ CutFormat \subseteq {"cut"} /\ Unsynced \subseteq {"unsynced"}
    BY <1>14 DEF PowerOff, CutFormat, Unsynced
  <2>. QED BY <2>1
<1>15. CASE Tools
  <2>1. mixed' = mixed BY <1>15 DEF Tools, sessionVars
  <2>2. CASE no_source BY <2>1, <2>2 DEF no_source, diskVars
  <2>3. CASE tool_exit \/ \E n \in 1 .. MaxLen : copied(n) \/ not_copied(n)
    <3>1. TOOL \in opened BY <2>3 DEF tool_exit, copied, not_copied, Running
    <3>2. \/ hurt' = hurt \cup Risk(TOOL)
          \/ hurt' = hurt \cup {"short"} \cup Risk(TOOL)
      BY <2>3, CallHurts DEF tool_exit, copied, not_copied
    <3>. QED BY <2>1, <3>1, <3>2, OpenCallHurts
  <2>. QED BY <1>15, <2>2, <2>3 DEF Tools, ToolStep
<1>. QED
  BY <1>1, <1>2, <1>3, <1>4, <1>5, <1>6, <1>7, <1>8, <1>9, <1>10, <1>11, <1>12, <1>13, <1>14,
     <1>15 DEF Step, InitStep, ShellStarts, ShellEnds, sh_shutdown, power_loss

(* Daemons come from a shell that has opened the disk init handed it; a    *)
(* shell ends up at its prompt without a daemon of its own only where none *)
(* is mounted, or mixed says so.                                           *)
LEMMA LeftNext ==
  ASSUME SessionInv, Bare, Left, Step
  PROVE  Bare' /\ Left'
<1>. USE DEF SessionInv
<1>1. ASSUME \/ boot \/ find_disk \/ check_magic \/ accept \/ decline \/ format_dirs
             \/ format_superblock \/ format_bitmaps \/ format_fails
             \/ populate \/ populated \/ launch \/ reaped
      PROVE  Bare' /\ Left'
  <2>1. UNCHANGED <<fuse_pid, dst, mixed>>
    BY <1>1 DEF boot, find_disk, check_magic, accept, decline, reaped, OnlyInit, Others,
       format_dirs, format_superblock, format_bitmaps, format_fails, populate, populated, launch
  <2>2. \/ spc' = spc /\ (ipc' = ipc \/ ipc # "wait")
        \/ spc = "none" /\ spc' \in {"none", "start"} /\ ipc = "launch"
        \/ spc = "none" /\ spc' = "none"
    BY <1>1 DEF boot, find_disk, check_magic, accept, decline, reaped, OnlyInit, Others, InitAt,
       format_dirs, format_superblock, format_bitmaps, format_fails, populate, populated, launch,
       Formatting
  <2>3. ipc \notin {"launch", "wait"} => \A d \in Daemons : dst[d] = "none" BY DEF Booting
  <2>4. ipc \in {"launch", "wait"} => disk_arg' = disk_arg
    BY <1>1 DEF boot, find_disk, check_magic, accept, decline, reaped, OnlyInit, Others, InitAt,
       format_dirs, format_superblock, format_bitmaps, format_fails, populate, populated, launch,
       Formatting
  <2>5. spc' \in {"none", "start"} BY <1>1, <2>2 DEF Booting, boot, find_disk, check_magic, accept,
       decline, reaped, InitAt, format_dirs, format_superblock, format_bitmaps, format_fails,
       populate, populated, launch, Formatting
  <2>. QED BY <2>1, <2>2, <2>3, <2>4, <2>5 DEF Bare, Left
<1>2. ASSUME \/ sh_host \/ sh_open_fails \/ sh_open \/ fuse_fork_fails \/ poll_mounted
             \/ poll_timeout \/ sh_chdir \/ sh_destroy
      PROVE  Bare' /\ Left'
  <2>1. UNCHANGED <<ipc, disk_arg, fuse_pid, dst>> /\ ipc = "wait"
    BY <1>2 DEF sh_host, sh_open_fails, sh_open, fuse_fork_fails, poll_mounted, poll_timeout,
       sh_chdir, sh_destroy, Rest, ShellAt, Booting
  <2>2. Bare'
    BY <1>2, <2>1 DEF Bare, sh_host, sh_open_fails, sh_open, fuse_fork_fails, poll_mounted,
       poll_timeout, sh_chdir, sh_destroy, ShellAt
  <2>3. mixed => mixed'
    BY <1>2, Zenon DEF sh_host, sh_open_fails, sh_open, fuse_fork_fails, poll_mounted,
       poll_timeout, sh_chdir, sh_destroy
  <2>4. CASE sh_host
    <3>1. \A d \in Daemons : dst[d] = "none" BY <2>1, <2>4 DEF sh_host, Bare
    <3>. QED BY <2>1, <2>2, <2>4, <3>1 DEF Left, sh_host, ShellAt
  <2>5. CASE fuse_fork_fails
    <3>1. ~mixed' => mounts = <<>> BY <2>5, Zenon DEF fuse_fork_fails
    <3>2. mounts = <<>> => \A d \in Daemons : dst[d] # "serving" BY DEF Mounting, OnMounts
    <3>. QED BY <2>1, <2>2, <2>5, <3>1, <3>2 DEF Left, fuse_fork_fails, ShellAt
  <2>6. CASE sh_open_fails \/ sh_open \/ poll_mounted \/ poll_timeout \/ sh_chdir \/ sh_destroy
    BY <2>1, <2>2, <2>3, <2>6 DEF Left, Mounting, sh_open_fails, sh_open, poll_mounted, poll_timeout,
       sh_chdir, sh_destroy, ShellAt
  <2>. QED BY <1>2, <2>2, <2>4, <2>5, <2>6
<1>3. ASSUME fuse_fork PROVE Bare' /\ Left'
  <2>1. spc = "fork" /\ spc' = "poll" /\ UNCHANGED <<ipc, disk_arg>> /\ ipc = "wait"
    BY <1>3 DEF fuse_fork, ShellAt, Rest, Booting
  <2>. QED BY <2>1 DEF Bare, Left
<1>4. ASSUME fuse_kill PROVE Bare' /\ Left'
  <2>1. /\ spc = "kill" /\ spc' = "prompt" /\ UNCHANGED <<ipc, disk_arg, mounts>> /\ ipc = "wait"
    BY <1>4 DEF fuse_kill, ShellAt, Rest, Booting
  <2>2. disk_arg BY <2>1 DEF Bare
  <2>3. ASSUME ~mixed', NEW d \in Daemons PROVE dst'[d] # "serving"
    <3>1. dst[d] = "serving" => d = fuse_pid BY <2>1 DEF Mounting, OnMounts
    <3>2. CASE Young(fuse_pid)
      <4>1. dst' = [dst EXCEPT ![fuse_pid] = "none"] BY <1>4, <3>2 DEF fuse_kill
      <4>. QED BY <3>1, <3>2, <4>1 DEF Young, ProcType
    <3>3. CASE ~Young(fuse_pid)
      <4>1. dst' = dst BY <1>4, <3>3 DEF fuse_kill
      <4>2. dst[fuse_pid] # "serving" BY <1>4, <2>3, <3>3, Zenon DEF fuse_kill
      <4>. QED BY <3>1, <4>1, <4>2
    <3>. QED BY <3>2, <3>3
  <2>. QED BY <2>1, <2>2, <2>3 DEF Bare, Left
<1>5. ASSUME NEW d \in Daemons, DaemonStep(d) PROVE Bare' /\ Left'
  <2>1. /\ UNCHANGED <<ipc, disk_arg, spc, fuse_pid>> /\ dst[d] # "none"
        /\ \E s : dst' = [dst EXCEPT ![d] = s] /\ (s = "serving" => Young(d))
    BY <1>5 DEF DaemonStep, daemon_open, daemon_mount, daemon_fails, daemon_exit, OnlyDaemon, Young
  <2>2. mixed => mixed'
    BY <1>5, Zenon DEF DaemonStep, daemon_open, daemon_mount, daemon_fails, daemon_exit
  <2>3. PICK s : dst' = [dst EXCEPT ![d] = s] /\ (s = "serving" => Young(d)) BY <2>1
  <2>4. Bare' BY <2>1 DEF Bare
  <2>5. s = "serving" => fuse_pid = d BY <2>3 DEF Mounting
  <2>6. fuse_pid # d \/ fuse_pid # 0 BY DaemonFacts
  <2>. QED BY <2>1, <2>2, <2>3, <2>4, <2>5, <2>6 DEF Left, ProcType
<1>6. ASSUME cmd_fuse \/ cmd_zeros \/ builtin_cd \/ run_external \/ external_done \/ sh_leave
      PROVE  Bare' /\ Left'
  <2>1. /\ UNCHANGED <<ipc, disk_arg, fuse_pid, dst>>
        /\ spc \in {"prompt", "external"} /\ spc' \in {"prompt", "external", "exit", "shutdown"}
    BY <1>6 DEF cmd_fuse, cmd_zeros, builtin_cd, run_external, external_done, sh_leave, AtPrompt,
       ShellAt, Rest
  <2>2. mixed => mixed'
    BY <1>6, Zenon DEF cmd_fuse, cmd_zeros, builtin_cd, run_external, external_done, sh_leave
  <2>. QED BY <2>1, <2>2 DEF Bare, Left
<1>7. ASSUME fusermount PROVE Bare' /\ Left'
  <2>1. UNCHANGED <<ipc, disk_arg, spc, fuse_pid, mixed>> /\ spc \in {"exit", "shutdown"}
    BY <1>7 DEF fusermount, Rest
  <2>2. CASE mounts # <<>> /\ cwd # mounts[1]
    <3>1. PICK d \in Daemons : d = mounts[1] /\ OnMounts(d)
      BY <2>2, ElementOfSeq DEF ProcType, OnMounts
    <3>2. dst' = [dst EXCEPT ![d] = "leaving"] /\ dst[d] = "serving"
      BY <1>7, <2>2, <3>1 DEF fusermount, Mounting
    <3>. QED BY <2>1, <3>2 DEF Bare, Left, ProcType
  <2>3. CASE dst' = dst BY <2>1, <2>3 DEF Bare, Left
  <2>. QED BY <1>7, <2>2, <2>3 DEF fusermount
<1>8. ASSUME sh_exit PROVE Bare' /\ Left'
  <2>1. UNCHANGED <<ipc, disk_arg, dst>> /\ spc' = "none"
    BY <1>8 DEF sh_exit, ShellAt, Rest
  <2>. QED BY <2>1 DEF Bare, Left
<1>9. ASSUME PowerOff PROVE Bare' /\ Left'
  <2>1. ipc' = "off" /\ spc' = "none" BY <1>9 DEF PowerOff
  <2>. QED BY <2>1 DEF Bare, Left
<1>10. ASSUME Tools PROVE Bare' /\ Left'
  BY <1>10 DEF Tools, sessionVars, procVars, Bare, Left
<1>. QED
  BY <1>1, <1>2, <1>3, <1>4, <1>5, <1>6, <1>7, <1>8, <1>9, <1>10
     DEF Step, InitStep, ShellStarts, ShellEnds, sh_shutdown, power_loss

-----------------------------------------------------------------------------
(* The theorems. *)

(* Every step of init, of the shell, of a daemon, of a tool and of the     *)
(* power keeps the invariant.                                              *)
LEMMA SessionNext ==
  ASSUME SessionInv, MediaType, [Next]_vars
  PROVE  SessionInv'
<1>1. CASE boot \/ decline \/ accept BY <1>1, BootStep
<1>2. CASE InitStep BY <1>2, BootStep, FormatStep, PopulateStep DEF InitStep
<1>3. CASE ShellStarts
  BY <1>3, StartStep, ShellOpens, KillStep, DestroyStep DEF ShellStarts
<1>4. CASE \E d \in Daemons : DaemonStep(d)
  BY <1>4, DaemonOpens, DaemonMounts, DaemonFails, DaemonExits DEF DaemonStep
<1>5. CASE cmd_fuse \/ cmd_zeros BY <1>5, CommandStep
<1>6. CASE builtin_cd \/ external_done BY <1>6, CdStep
<1>7. CASE run_external BY <1>7, ExternalStep
<1>8. CASE sh_leave BY <1>8, LeaveStep
<1>9. CASE ShellEnds BY <1>9, UmountStep, ExitStep, PowerStep DEF ShellEnds, sh_shutdown
<1>10. CASE Tools BY <1>10, ToolStepInv
<1>11. CASE power_loss BY <1>11, PowerStep DEF power_loss
<1>12. CASE writeback \/ UNCHANGED vars
  <2>. USE <1>12 DEF writeback, vars, diskVars, toolVars, sessionVars, procVars, SessionInv
  <2>1. DiskType' /\ ProcType' BY DEF DiskType, ProcType
  <2>2. Booting' BY DEF Booting, Formatting
  <2>3. Holders' BY DEF Holders, ShellHolds
  <2>4. Mounting' BY DEF Mounting, OnMounts, Young
  <2>5. Alone' /\ OneWriter' BY DEF Alone, OneWriter, Stale
  <2>6. DiskOK' /\ Counting' BY DEF DiskOK, AllIntact, Intact, Counting
  <2>. QED BY <2>1, <2>2, <2>3, <2>4, <2>5, <2>6
<1>. QED
  BY <1>1, <1>2, <1>3, <1>4, <1>5, <1>6, <1>7, <1>8, <1>9, <1>10, <1>11, <1>12
     DEF Next, Step

(* What the medium holds has once been written, and the last to close the  *)
(* device leaves nothing in the cache.                                     *)
LEMMA CacheNext ==
  ASSUME SessionInv, SessionInv', MediaType, WrittenBack, [Next]_vars
  PROVE  MediaType' /\ WrittenBack'
<1>1. CASE Cache
  <2>1. MediaType' BY <1>1 DEF Cache, MediaType, SessionInv, DiskType
  <2>2. WrittenBack' BY <1>1 DEF Cache, WrittenBack
  <2>. QED BY <2>1, <2>2
<1>2. CASE writeback
  <2>1. media # disk /\ UNCHANGED <<diskVars, toolVars, sessionVars>> BY <1>2 DEF writeback
  <2>2. Held BY <2>1 DEF WrittenBack
  <2>3. Held' BY <2>1, <2>2 DEF Held, diskVars, sessionVars, procVars
  <2>4. MediaType' BY <1>2 DEF writeback, MediaType, SessionInv, DiskType
  <2>. QED BY <2>3, <2>4 DEF WrittenBack
<1>3. CASE UNCHANGED vars
  <2>1. media' = media /\ disk' = disk /\ (Held' <=> Held)
    BY <1>3 DEF vars, diskVars, sessionVars, procVars, Held
  <2>. QED BY <2>1 DEF MediaType, WrittenBack
<1>. QED BY <1>1, <1>2, <1>3 DEF Next

(* Every step keeps all of it. *)
LEMMA FullNext == FullInv /\ [Next]_vars => FullInv'
<1>. SUFFICES ASSUME FullInv, [Next]_vars PROVE FullInv' OBVIOUS
<1>1. SessionInv' BY SessionNext DEF FullInv
<1>2. MediaType' /\ WrittenBack' BY <1>1, CacheNext DEF FullInv
<1>3. StaleMixed' /\ Bare' /\ Left'
  <2>1. CASE Step BY <2>1, StaleNext, LeftNext DEF FullInv
  <2>2. CASE writeback \/ UNCHANGED vars
    <3>1. UNCHANGED <<hurt, mixed, disk_arg, ipc, dst, spc, fuse_pid>>
      BY <2>2 DEF writeback, vars, diskVars, sessionVars, procVars
    <3>. QED BY <3>1 DEF FullInv, StaleMixed, Bare, Left
  <2>. QED BY <2>1, <2>2 DEF Next
<1>. QED BY <1>1, <1>2, <1>3 DEF FullInv

(* It is true of a new disk in a machine that is off. *)
LEMMA FullInit == Init => FullInv
<1>. SUFFICES ASSUME Init PROVE FullInv OBVIOUS
<1>1. SessionInv BY SessionInit
<1>2. media = disk /\ hurt = {} /\ ipc = "off" /\ spc = "none" BY DEF Init, DiskInit
<1>3. MediaType BY <1>1, <1>2 DEF MediaType, SessionInv, DiskType
<1>. QED BY <1>1, <1>2, <1>3 DEF FullInv, WrittenBack, StaleMixed, Bare, Left

(* The invariant holds from the first power on, through any number of      *)
(* sessions, tools and power failures.                                     *)
THEOREM SessionInvariant == Spec => []FullInv
BY FullInit, FullNext, PTL DEF Spec

(* Between init, the shell that still has the disk open while its daemon   *)
(* comes up, the daemon and the tools (shell.c fuse_try_mount,             *)
(* zeros_fuse.c, zeros_populate.c, zeros_update.c), an open handle never   *)
(* falls behind the disk as long as nobody opened it next to a writer.     *)
THEOREM OnlyOneWriter == Spec => []OneWriter
<1>1. FullInv => OneWriter BY DEF FullInv, SessionInv
<1>. QED BY <1>1, SessionInvariant, PTL

(* Whoever has the disk open finds no file with the contents of another    *)
(* and no block in use marked free, and the handles that overlap while a   *)
(* session starts and ends are no exception: only two writers let in at    *)
(* once (mixed), a write or a formatting that ended half way, and power    *)
(* that went before the cache was on the medium are.                       *)
THEOREM DiskAlwaysSound == Spec => []DiskSound
<1>1. FullInv => DiskSound
  <2>. USE DEF FullInv
  <2>. SUFFICES ASSUME FullInv, opened # {}, ~mixed, hurt \subseteq {"stale"}
                PROVE  AllIntact
    BY DEF DiskSound, AllIntact, AllFiles
  <2>0. hurt = {} BY DEF StaleMixed
  <2>1. disk.magic BY DEF SessionInv, Holders
  <2>2. ipc # "format_bm" BY DEF SessionInv, Booting, Formatting
  <2>. QED BY <2>0, <2>1, <2>2 DEF SessionInv, DiskOK
<1>. QED BY <1>1, SessionInvariant, PTL

(* A shell that works without FUSE has the only handle of the disk and     *)
(* closes it before the reboot: shutdown, which never syncs, loses nothing *)
(* it has written.                                                         *)
THEOREM ShutdownAlwaysKeeps == Spec => ShutdownKeeps
<1>1. FullInv /\ [Next]_vars =>
        [sh_shutdown /\ fuse_pid = 0 /\ ~mixed /\ (\A d \in Daemons : dst[d] # "leaving")
           => disk' = disk]_vars
  <2>. SUFFICES ASSUME FullInv, sh_shutdown, fuse_pid = 0, ~mixed,
                       \A d \in Daemons : dst[d] # "leaving"
                PROVE  disk' = disk
    OBVIOUS
  <2>. USE DEF FullInv, SessionInv
  <2>1. spc = "shutdown" /\ disk' = media BY DEF sh_shutdown, PowerOff
  <2>2. ipc = "wait" /\ tool = "none" BY <2>1 DEF Booting
  <2>3. TOOL \notin opened /\ SHELL \notin opened
    BY <2>1, <2>2 DEF Holders, ShellHolds, Copiers
  <2>4. \A d \in Daemons : d \notin opened
    <3>1. \A d \in Daemons : dst[d] # "serving" BY <2>1 DEF Left
    <3>2. \A d \in Daemons : ~Young(d) BY DaemonFacts DEF Mounting
    <3>. QED BY <3>1, <3>2 DEF Holders, Young
  <2>5. opened = {} BY <2>3, <2>4, DaemonFacts DEF DiskType
  <2>6. ~Held BY <2>2, <2>5 DEF Held, Formatting
  <2>. QED BY <2>1, <2>6 DEF WrittenBack
<1>. QED BY <1>1, SessionInvariant, PTL DEF Spec, ShutdownKeeps

(* When zeros_populate or zeros_update exits with 0, every file of its     *)
(* list is on the disk with the contents this run gave it.                 *)
THEOREM ToolsAlwaysHonest == Spec => []ToolHonest
<1>1. FullInv => ToolHonest
  <2>. USE DEF FullInv
  <2>. SUFFICES ASSUME FullInv, tool \in {"populate", "update"}, status = 0, hurt = {}
                PROVE  \A f \in Files : f \in fresh /\ Intact(f)
    BY DEF ToolHonest
  <2>1. fresh = Files /\ disk.magic BY DEF SessionInv, Counting
  <2>2. ipc # "format_bm" BY DEF SessionInv, Booting
  <2>3. AllIntact BY <2>1, <2>2 DEF SessionInv, DiskOK
  <2>. QED BY <2>1, <2>3 DEF AllIntact, AllFiles
<1>. QED BY <1>1, SessionInvariant, PTL
=============================================================================
