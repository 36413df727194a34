------------------------------ MODULE MCEditor ------------------------------
EXTENDS Editor

(* An indented line, and a last line that no newline ends. *)
MCFiles == {<<SP, "x", NL, "x">>}
=============================================================================
