----------------------------- MODULE ZerosTree -----------------------------
(***************************************************************************)
(* What zeros_mount promises its callers, and nothing of how: a tree of    *)
(* named nodes that changes by one node at a time.  Every call is atomic,  *)
(* whatever its process goes through: it happened or it did not.           *)
(*                                                                         *)
(* broken is set by the events after which the code promises nothing.      *)
(***************************************************************************)
CONSTANTS Ids, Root, AnyName, Contents, Empty

VARIABLES
  node,       \* id -> its kind, the directory it is in and its name there
  content,    \* id -> what a file holds
  broken

treeVars == <<node, content, broken>>

RootNode == [kind |-> "dir", parent |-> Root, name |-> ""]

TreeInit ==
  /\ node = [i \in {Root} |-> RootNode]
  /\ content = [i \in {Root} |-> Empty]
  /\ broken = FALSE

Known == DOMAIN node

Children(d) == {i \in Known \ {Root} : node[i].parent = d}

(* mkdir, touch, and the first half of writing a file that does not exist: *)
(* one new childless node under an existing directory, with a new name.    *)
Create(i, kind, d, name) ==
  /\ node[d].kind = "dir"
  /\ \A k \in Children(d) : node[k].name # name
  /\ node' = [k \in Known \cup {i} |->
                IF k = i THEN [kind |-> kind, parent |-> d, name |-> name]
                ELSE node[k]]
  /\ content' = [k \in Known \cup {i} |-> IF k = i THEN Empty ELSE content[k]]
  /\ UNCHANGED broken

(* The whole contents of one file are replaced. *)
Write(i, x) ==
  /\ node[i].kind = "reg"
  /\ content' = [content EXCEPT ![i] = x]
  /\ UNCHANGED <<node, broken>>

(* Only a leaf goes, and only itself. *)
Remove(i) ==
  /\ i # Root /\ Children(i) = {}
  /\ node' = [k \in Known \ {i} |-> node[k]]
  /\ content' = [k \in Known \ {i} |-> content[k]]
  /\ UNCHANGED broken

Break == broken'

Step ==
  \/ \E i \in Ids \ Known, d \in Known :
       \E kind \in {"dir", "reg"}, n \in AnyName : Create(i, kind, d, n)
  \/ \E i \in Known : \/ Remove(i)
                     \/ \E x \in Contents : Write(i, x)

TreeNext == (~broken /\ Step) \/ Break

TreeSpec == TreeInit /\ [][TreeNext]_treeVars
=============================================================================
