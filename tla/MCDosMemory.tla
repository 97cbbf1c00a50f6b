---------------------------- MODULE MCDosMemory ----------------------------
(***************************************************************************)
(* Instances of DosMemory for TLC: some paragraphs of conventional memory  *)
(* on both sides of a locked block, and some of upper memory.  The sizes   *)
(* are chosen so that a request can fit exactly, leave a block of size 0,  *)
(* need two free blocks, or exceed the memory.                             *)
(***************************************************************************)
EXTENDS DosMemory

AllFits  == {"first", "best", "last"}
AllHighs == {"no", "only", "first"}
=============================================================================
