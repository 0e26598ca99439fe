---------------------------- MODULE MCGoControl ----------------------------
(* Small instances of GoControl. *)
EXTENDS GoControl

CONSTANT root
===========================================================================
