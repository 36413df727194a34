--------------------------- MODULE ZerosMountTree ---------------------------
(***************************************************************************)
(* ZerosMount implements ZerosTree.  The tree is what a walk of the        *)
(* directory entries on disk finds, the contents of a file what its blocks *)
(* hold; while a file is being rewritten, what it held before.             *)
(***************************************************************************)
EXTENDS ZerosMount

Damaged == harm \cap {"torn", "mixed"} # {}

(* What the entries on disk name. *)
Named(L) == {ROOT} \cup {Target(h) : h \in L}

RootNode == [kind |-> "dir", parent |-> ROOT, name |-> ""]

NodeOf(h) == [kind   |-> itab[Target(h)].mode,
              parent |-> h[1],
              name   |-> At(h).name]

(* zeros_read_file: how many blocks, and what is in them. *)
ContentOf(j) ==
  IF itab[j].mode = "dir" \/ Writing(j) THEN wrote[j]
  ELSE [len |-> Cardinality(BlockPos(itab[j])),
        val |-> IF BlockPos(itab[j]) = {} THEN wrote[j].val
                ELSE data[BlockAt(itab[j], <<1, 0>>)].val]

NodeMap ==
  IF Damaged THEN [i \in {ROOT} |-> RootNode]
  ELSE LET L == Links
       IN  [j \in Named(L) |->
              IF j = ROOT THEN RootNode
              ELSE NodeOf(CHOOSE h \in L : Target(h) = j)]

ContentMap ==
  IF Damaged THEN [i \in {ROOT} |-> wrote[ROOT]]
  ELSE [j \in Named(Links) |-> ContentOf(j)]

Tree == INSTANCE ZerosTree WITH
  Ids      <- Inodes,
  Root     <- ROOT,
  AnyName  <- Components \cup {""},
  Contents <- [val : Vals \cup {NoVal}, len : 0 .. MaxLen],
  Empty    <- [val |-> NoVal, len |-> 0],
  node     <- NodeMap,
  content  <- ContentMap,
  broken   <- Damaged

(* Every step of a call on the real structures - each block write, each    *)
(* crash between two of them, each call that fails half way - is one       *)
(* atomic change of the tree or none: a new entry appears complete and     *)
(* under a name that was free, a write replaces all of a file and of no    *)
(* other, a removal takes one leaf.                                        *)
ImplementsTree == Tree!TreeSpec
=============================================================================
