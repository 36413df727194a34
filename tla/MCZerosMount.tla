---------------------------- MODULE MCZerosMount ----------------------------
(* Small disks for ZerosMount: a few inodes, few enough blocks that the    *)
(* disk fills up, directories that need a second extent after one entry.   *)
EXTENDS ZerosMountTree, ZerosFsck, TLC

P(a, d, n) == [abs |-> a, dir |-> d, name |-> n]

(* a  /b  a/b  ..  and a/ (what tab completion leaves for a directory) *)
SomePaths == {P(FALSE, "", "a"), P(TRUE, "", "b"), P(FALSE, "a", "b"),
              P(FALSE, "", ".."), P(FALSE, "a", "")}

(* a  /b *)
TwoPaths == {P(FALSE, "", "a"), P(TRUE, "", "b")}

(* a  a/  ../b  a/a  a/b *)
FewPaths == {P(FALSE, "", "a"), P(FALSE, "a", ""), P(FALSE, "..", "b"),
             P(FALSE, "a", "a"), P(FALSE, "a", "b")}

(* The bytes of every file, read as entries, name an inode of the table,   *)
(* one beyond it, and have room for more.                                  *)
BadEntries ==
  [v \in Vals \cup {NoVal} |->
     [s \in Slots |->
        CASE s = 0 -> [inode |-> TotalInodes - 1, type |-> "reg", name |-> "a"]
          [] s = 1 -> [inode |-> OUT, type |-> "reg", name |-> "b"]
          [] OTHER -> FreeDirent]]

(* States with other damage are checked but not explored further. *)
OnlyLeaks == harm \subseteq {"lost"}
NoHarm    == harm = {}
TwoHarms  == Cardinality(harm) <= 2

(* No process dies: what calls alone can do. *)
NoCrashSpec == Init /\ [][ApiCall \/ Progress]_vars

Perms == Permutations(Vals)
=============================================================================
