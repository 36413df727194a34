--------------------------- MODULE MCZerosSession ---------------------------
(* session: one block besides the directories, which two files of up to    *)
(* two blocks contend for; two daemons, so that one may outlive its shell  *)
(* while the next one starts.  session_upgrade: three blocks, which two    *)
(* files fill.                                                             *)
EXTENDS ZerosSession

(* A disk that has been put at risk is checked, and used no further. *)
NotHurt == hurt = {}
=============================================================================
