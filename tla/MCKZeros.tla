------------------------------ MODULE MCKZeros ------------------------------
EXTENDS KZeros, TLC

P(a, d, n) == [abs |-> a, dir |-> d, name |-> n]

(* a  a/b  .  ..  a/..  and bb, longer than ZEROS_NAME_MAX *)
KPaths == {P(FALSE, "", "a"), P(FALSE, "a", "b"), P(FALSE, "", "."), P(FALSE, "", ".."),
           P(FALSE, "a", ".."), P(FALSE, "", "bb")}

CutTo == [n \in Components \cup {""} |-> IF n = "bb" THEN "b" ELSE n]

(* The bytes of every file, read as entries. *)
FileEntries ==
  [v \in Vals \cup {NoVal} |->
     [s \in Slots |->
        CASE s = 0 -> [inode |-> TotalInodes - 1, type |-> "reg", name |-> "b"]
          [] s = 1 -> [inode |-> OUT, type |-> "reg", name |-> ".."]
          [] OTHER -> FreeDirent]]

(* States with other damage are checked but not explored further. *)
Explored == harm \subseteq {"lost", "drift"} \/ pc = "astray"

Perms == Permutations(Vals)
=============================================================================
