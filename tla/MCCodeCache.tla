---------------------------- MODULE MCCodeCache ----------------------------
(***************************************************************************)
(* An instance of CodeCache for TLC: three pages of two bytes, two page    *)
(* handlers, a cache with room for two or three blocks, and jumps to three *)
(* addresses, from two of which code may go on in the next page.           *)
(***************************************************************************)
EXTENDS CodeCache

Code == {<<0, 1>>, <<1, 1>>, <<2, 0>>}
=============================================================================
