----------------------------- MODULE MCPagePool -----------------------------
(***************************************************************************)
(* An instance of PagePool for TLC: five pages, of which the system handle *)
(* holds the two of its one EMS page and three are left to give out, and a *)
(* cell after the table that may read as free.  Its constants are numbers  *)
(* and sets of numbers, which PagePool.cfg gives directly.                 *)
(***************************************************************************)
EXTENDS PagePool
=============================================================================
