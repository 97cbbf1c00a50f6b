----------------------------- MODULE MCDosFiles -----------------------------
(***************************************************************************)
(* An instance of DosFiles for TLC: the shell and two more processes, with *)
(* handle tables and a table of open files that are soon full.             *)
(***************************************************************************)
EXTENDS DosFiles, TLC

Programs == Permutations(Procs \ {Shell})
=============================================================================
